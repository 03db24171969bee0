------------------------------- MODULE TaskApi -------------------------------
(***************************************************************************)
(* What the org.freedesktop.reportd.Task object promises its D-Bus clients *)
(* (org.freedesktop.reportd.xml): Start is answered once, with a success   *)
(* only for a call that was seen running on a task nobody canceled, and    *)
(* each answer is published together with the matching Status.  Nothing is *)
(* said of threads, events, commands or memory: that is ReportdTask, which *)
(* is shown to implement this module.                                      *)
(***************************************************************************)

CONSTANT
  Runs        \* the Start calls made on the task

VARIABLES
  status,     \* the Status property
  cancelled,  \* has Cancel been called?
  reply,      \* reply[r]: what the caller of Start r has been told
  begun       \* the calls that have put the task into the RUNNING status

apiVars == <<status, cancelled, reply, begun>>

Statuses == {"READY", "RUNNING", "COMPLETED", "FAILED", "CANCELED"}

Init ==
  /\ status = "READY"
  /\ cancelled = FALSE
  /\ reply = [r \in Runs |-> "none"]
  /\ begun = {}

Start(r) ==
  /\ reply[r] = "none"
  /\ reply' = [reply EXCEPT ![r] = "pending"]
  /\ UNCHANGED <<status, cancelled, begun>>

Begin(r) ==
  /\ reply[r] = "pending"
  /\ r \notin begun
  /\ begun' = begun \cup {r}
  /\ status' = "RUNNING"
  /\ UNCHANGED <<cancelled, reply>>

Cancel ==
  /\ cancelled' = TRUE
  /\ UNCHANGED <<status, reply, begun>>

Answer(r, answer, newStatus) ==
  /\ reply[r] = "pending"
  /\ reply' = [reply EXCEPT ![r] = answer]
  /\ status' = newStatus
  /\ UNCHANGED <<cancelled, begun>>

Succeed(r) == r \in begun /\ ~cancelled /\ Answer(r, "success", "COMPLETED")
Fail(r)    == ~cancelled /\ Answer(r, "error", "FAILED")
Abandon(r) == cancelled /\ Answer(r, "error", "CANCELED")

Next ==
  \/ \E r \in Runs : Start(r) \/ Begin(r) \/ Succeed(r) \/ Fail(r) \/ Abandon(r)
  \/ Cancel

Spec == Init /\ [][Next]_apiVars
==============================================================================
