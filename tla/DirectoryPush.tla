---------------------------- MODULE DirectoryPush ----------------------------
(***************************************************************************)
(* reportd_daemon_push_problem_directory (src/reportd-daemon.c): a worker  *)
(* thread gives the elements of a cached problem directory back to ABRT.   *)
(* It reads the directory in windows of at most FDLimit files, opens those *)
(* it does not ignore, and sends each window's descriptors in one call,    *)
(* until a window has nothing to send.  The one element that grows while a *)
(* problem is reported is deleted at ABRT first, since ABRT does not let   *)
(* an element grow.                                                        *)
(*                                                                         *)
(* The workers of all tasks made for one entry push the same directory to  *)
(* the same element store, with no lock between them; the events of one    *)
(* may still write to the directory while another one reads it.  So a push *)
(* finds the files it finds: any set, in any order, each of which may or   *)
(* may not be opened.  What others than reportd do at ABRT is left out.    *)
(***************************************************************************)
EXTENDS Naturals, FiniteSets

CONSTANTS
  Pushes,     \* the calls of the function for one entry
  Elements,   \* the element names a problem directory can have
  Ignored,    \* those that are never sent: analyzer, count, time, type
  Volatile,   \* the one that is deleted first: reported_to
  FDLimit,    \* descriptors in one call (DBUS_FD_LIMIT)
  NULL        \* no push

ASSUME PushAssumption ==
  /\ IsFiniteSet(Elements)
  /\ Ignored \subseteq Elements
  /\ Volatile \in Elements \ Ignored
  /\ FDLimit \in Nat \ {0}
  /\ NULL \notin Pushes

VARIABLES
  remote,     \* the elements ABRT has
  deleter,    \* history: the push that was the last to delete the volatile one
  pc,         \* pc[p]: where push p is in the function
  outcome,    \* outcome[p]: what it has returned
  files,      \* files[p]: the files its directory iterator finds
  unread,     \* unread[p]: those it has not returned yet
  closed,     \* closed[p]: those that could not be opened
  batch,      \* batch[p]: the elements opened for the next call
  sent        \* sent[p], history: those ABRT has confirmed

vars == <<remote, deleter, pc, outcome, files, unread, closed, batch, sent>>
abrt == <<remote, deleter>>
reading == <<files, unread, closed, batch>>

Skipped(p) == (files[p] \cap Ignored) \cup closed[p]

TypeOK ==
  /\ remote \subseteq Elements
  /\ deleter \in Pushes \cup {NULL}
  /\ pc \in [Pushes -> {"open", "delete", "window", "save", "returned"}]
  /\ outcome \in [Pushes -> {"none", "ok", "error", "dangling"}]
  /\ files \in [Pushes -> SUBSET Elements]
  /\ unread \in [Pushes -> SUBSET Elements]
  /\ closed \in [Pushes -> SUBSET Elements]
  /\ batch \in [Pushes -> SUBSET Elements]
  /\ sent \in [Pushes -> SUBSET Elements]
  /\ \A p \in Pushes :
       /\ pc[p] \in {"open", "delete"} => files[p] = {}
       /\ unread[p] \subseteq files[p]
       /\ closed[p] \subseteq files[p] \ unread[p]
       /\ batch[p] \cup sent[p] \subseteq files[p] \ (unread[p] \cup Skipped(p))

(* ABRT may have elements that are not cached, and lack some that the       *)
(* events have added to the cached directory.                               *)
Init ==
  /\ remote \in SUBSET Elements /\ deleter = NULL
  /\ pc = [p \in Pushes |-> "open"]
  /\ outcome = [p \in Pushes |-> "none"]
  /\ files = [p \in Pushes |-> {}]
  /\ unread = [p \in Pushes |-> {}]
  /\ closed = [p \in Pushes |-> {}]
  /\ batch = [p \in Pushes |-> {}]
  /\ sent = [p \in Pushes |-> {}]

Goto(p, line) == pc' = [pc EXCEPT ![p] = line]

Return(p, result) ==
  /\ Goto(p, "returned")
  /\ outcome' = [outcome EXCEPT ![p] = result]

(* Not in the cache directory, not a directory, or not to be opened: an     *)
(* error, before anything has been changed.                                 *)
OpenDirectory(p) ==
  /\ pc[p] = "open"
  /\ \/ Return(p, "error")
     \/ Goto(p, "delete") /\ UNCHANGED outcome
  /\ UNCHANGED <<abrt, reading, sent>>

(* reportd_daemon_delete_volatile_elements, a failure of which is not       *)
(* looked at; then the directory is read from its start.                    *)
DeleteVolatile(p) ==
  /\ pc[p] = "delete"
  /\ \/ /\ Volatile \in remote
        /\ remote' = remote \ {Volatile} /\ deleter' = p
     \/ UNCHANGED abrt
  /\ \E found \in SUBSET Elements :
       /\ files' = [files EXCEPT ![p] = found]
       /\ unread' = [unread EXCEPT ![p] = found]
  /\ Goto(p, "window")
  /\ UNCHANGED <<outcome, closed, batch, sent>>

\* The files of w are read from the directory, those of shut cannot be opened.
Open(p, w, shut) ==
  /\ unread' = [unread EXCEPT ![p] = @ \ w]
  /\ closed' = [closed EXCEPT ![p] = @ \cup shut]
  /\ batch' = [batch EXCEPT ![p] = w \ (Ignored \cup shut)]

\* Mutant: one more file is read than is put into the window.
WindowLosesFile(p, w) ==
  /\ w \subseteq unread[p]
  /\ Cardinality(w) = FDLimit + 1 \/ (Cardinality(w) <= FDLimit /\ w = unread[p])
  /\ unread' = [unread EXCEPT ![p] = @ \ w]
  /\ \E lost \in w \cup {Volatile} : batch' = [batch EXCEPT ![p] = w \ (Ignored \cup {lost})]
  /\ UNCHANGED closed

\* Mutant: the directory is read from its start for every window.
WindowRewinds(p, w) ==
  /\ Cardinality(w) = FDLimit \/ (Cardinality(w) < FDLimit /\ w = files[p])
  /\ unread' = [unread EXCEPT ![p] = files[p]]
  /\ batch' = [batch EXCEPT ![p] = w \ Ignored]
  /\ UNCHANGED closed

\* Mutant: the list of ignored elements is not looked at.
WindowIgnoresNone(p, w) ==
  /\ w \subseteq unread[p]
  /\ Cardinality(w) = FDLimit \/ (Cardinality(w) < FDLimit /\ w = unread[p])
  /\ unread' = [unread EXCEPT ![p] = @ \ w]
  /\ batch' = [batch EXCEPT ![p] = w]
  /\ UNCHANGED closed

(* reportd_daemon_get_n_elements examines FDLimit files, or all there are,  *)
(* and keeps those that are to be sent and can be opened.                   *)
Window(p, w) ==
  /\ w \subseteq unread[p]
  /\ Cardinality(w) = FDLimit \/ (Cardinality(w) < FDLimit /\ w = unread[p])
  /\ \E shut \in SUBSET (w \ Ignored) : Open(p, w, shut)

(* The loop's condition.  When a descriptor cannot be put into the list,    *)
(* the error is handed to the caller and freed as well.                     *)
TakeWindow(p) ==
  /\ pc[p] = "window"
  /\ \E w \in SUBSET unread[p] : Window(p, w)
  /\ \/ batch'[p] # {} /\ Goto(p, "save") /\ UNCHANGED outcome
     \/ batch'[p] = {} /\ Return(p, "ok")
     \/ batch'[p] # {} /\ Return(p, "dangling")
  /\ UNCHANGED <<abrt, files, sent>>

\* ABRT has stored all of the call.
Save(p) ==
  /\ remote' = remote \cup batch[p]
  /\ sent' = [sent EXCEPT ![p] = @ \cup batch[p]]
  /\ batch' = [batch EXCEPT ![p] = {}]
  /\ Goto(p, "window")
  /\ UNCHANGED outcome

\* Mutant: the result of the call is not looked at.
SaveUnchecked(p) ==
  /\ \E stored \in SUBSET batch[p] : remote' = remote \cup stored
  /\ batch' = [batch EXCEPT ![p] = {}]
  /\ Goto(p, "window")
  /\ UNCHANGED <<outcome, sent>>

(* The call has failed: ABRT may have stored a part of it.                  *)
SaveFails(p) ==
  /\ \E stored \in SUBSET batch[p] : remote' = remote \cup stored
  /\ Return(p, "error")
  /\ UNCHANGED <<batch, sent>>

\* reportd_daemon_save_elements
SaveElements(p) ==
  /\ pc[p] = "save"
  /\ Save(p) \/ SaveFails(p)
  /\ UNCHANGED <<deleter, files, unread, closed>>

Step(p) == OpenDirectory(p) \/ DeleteVolatile(p) \/ TakeWindow(p) \/ SaveElements(p)

Next == \E p \in Pushes : Step(p)

Spec == Init /\ [][Next]_vars

\* Every D-Bus call is answered or times out, and threads are scheduled.
FairSpec == Spec /\ \A p \in Pushes : WF_vars(Step(p))

-----------------------------------------------------------------------------

\* Fewer files are skipped than a window holds, so that no window is empty
\* while files that are to be sent are still unread.
FewSkipped(p) == Cardinality(Skipped(p)) < FDLimit

(* A push that says it succeeded has sent everything it found: ABRT has      *)
(* confirmed each element that is not ignored and can be opened, and still   *)
(* has it, the volatile one excepted, which another push may delete.  With   *)
(* four ignored names and a limit of sixteen, twelve unreadable files are    *)
(* needed to break it.                                                       *)
PushIsComplete ==
  \A p \in Pushes :
    outcome[p] = "ok" /\ FewSkipped(p) =>
      /\ files[p] \ Skipped(p) \subseteq sent[p]
      /\ files[p] \ (Skipped(p) \cup {Volatile}) \subseteq remote

(* When ABRT lacks the element a push has deleted, the last push to delete   *)
(* it is still going to send its own, or has told its caller that it failed, *)
(* or it had none to send: of pushes that run at the same time none loses    *)
(* what another one has sent and then reports a success.                     *)
DeletedIsRecreated ==
  \A p \in Pushes :
    deleter = p /\ Volatile \notin remote /\ FewSkipped(p)
                /\ Volatile \in files[p] \ Skipped(p) =>
      \/ outcome[p] = "none" /\ Volatile \in unread[p] \cup batch[p]
      \/ outcome[p] \in {"error", "dangling"}

(* Every push returns: the directory is read to its end once.               *)
PushReturns == \A p \in Pushes : <>(outcome[p] # "none")
==============================================================================
