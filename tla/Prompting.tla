------------------------------ MODULE Prompting ------------------------------
(***************************************************************************)
(* What a prompt is to the thread that asks and to the clients: it is open *)
(* until somebody commits it, and the thread goes on once it was committed *)
(* or the task was canceled.  ReportdTask uses prompts at this level;      *)
(* TaskPrompt shows that the mutex, the condition and the bus objects of   *)
(* reportd_task_emit_prompt provide it.                                    *)
(***************************************************************************)

CONSTANT
  Threads     \* the threads that may ask

VARIABLES
  prompt,     \* prompt[t]: the question thread t waits on
  cancelled   \* the threads whose task is canceled

promptVars == <<prompt, cancelled>>

Init ==
  /\ prompt = [t \in Threads |-> "none"]
  /\ cancelled = {}

Ask(t) ==
  /\ prompt[t] = "none"
  /\ prompt' = [prompt EXCEPT ![t] = "open"]
  /\ UNCHANGED cancelled

Commit(t) ==
  /\ prompt[t] = "open"
  /\ prompt' = [prompt EXCEPT ![t] = "handled"]
  /\ UNCHANGED cancelled

Return(t) ==
  /\ prompt[t] = "handled" \/ (prompt[t] = "open" /\ t \in cancelled)
  /\ prompt' = [prompt EXCEPT ![t] = "none"]
  /\ UNCHANGED cancelled

Cancel ==
  /\ cancelled' \in {S \in SUBSET Threads : cancelled \subseteq S}
  /\ UNCHANGED prompt

Next == (\E t \in Threads : Ask(t) \/ Commit(t) \/ Return(t)) \/ Cancel

Spec == Init /\ [][Next]_promptVars
==============================================================================
