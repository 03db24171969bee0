---------------------------- MODULE DirectoryPull ----------------------------
(***************************************************************************)
(* reportd_daemon_get_problem_directory (src/reportd-daemon.c): a thread   *)
(* asks for the cached copy of one problem entry and gets the path of a    *)
(* directory.  A directory that exists is taken as it is; otherwise one is *)
(* created and filled with the elements ABRT has, FDLimit of them a call.  *)
(*                                                                         *)
(* The callers are the worker threads of all tasks made for the entry and  *)
(* the main thread, which pulls it to list workflows.  They share the file *)
(* system and no lock.  The daemon may be stopped or die anywhere and is   *)
(* started again by the next D-Bus call; the directory outlives it, unless *)
(* systemd, which gives the service a /tmp of its own, takes that away.    *)
(*                                                                         *)
(* A worker that has the path runs the commands of its events there        *)
(* (reportd_task_run_event_chain), which write and remove elements as they *)
(* like.  They are processes of their own: nothing makes them wait for a   *)
(* caller that still fills the directory, or end with the daemon.          *)
(*                                                                         *)
(* ABRT answers with the elements it was asked for, or with some of them:  *)
(* nobody compares.                                                        *)
(*                                                                         *)
(* libreport's part, as the code relies on it: dd_create_skeleton makes a  *)
(* new directory, and returns NULL when it cannot; dd_copy_fd writes one   *)
(* file through that pointer; dd_close takes NULL.                         *)
(***************************************************************************)
EXTENDS Naturals, FiniteSets

CONSTANTS
  Callers,    \* the threads that pull the entry
  Workers,    \* those that run events in the directory: all but the main thread
  Elements,   \* the elements ABRT has of it
  FDLimit,    \* elements read in one call (DBUS_FD_LIMIT)
  MaxPulls,   \* bound: calls of the function
  MaxStops    \* bound: times the daemon is stopped with a pull under way

ASSUME PullAssumption ==
  /\ Workers \subseteq Callers
  /\ IsFiniteSet(Elements)
  /\ Elements # {}
  /\ FDLimit \in Nat \ {0}
  /\ MaxPulls \in Nat /\ MaxStops \in Nat

VARIABLES
  dir,        \* is there a cache directory for the entry?
  file,       \* file[e]: who has last seen to element e in it
  given,      \* was its path given to a worker, so that commands may write there?
  pc,         \* pc[c]: where caller c is in the function
  outcome,    \* outcome[c]: what its last call returned
  fillers,    \* the callers whose dump_directory points to something: they made it
  unread,     \* unread[c]: the elements it has not asked ABRT for
  reply,      \* reply[c]: the elements of the last answer it has not copied
  pulls,      \* calls made
  stops,      \* times the daemon was stopped
  mishaps     \* history: what has gone wrong so far, and whether calls have overlapped

vars == <<dir, file, given, pc, outcome, fillers, unread, reply, pulls, stops, mishaps>>
disk == <<dir, file>>
locals == <<outcome, fillers, unread, reply>>
bounds == <<pulls, stops>>

Inside == {"list", "create", "read", "copy"}
Mishaps == {"read", "create", "stop", "null", "overlap"}

(* Nobody; a pull, that copied it or has failed to; or an event's commands,  *)
(* that wrote or removed it.                                                *)
Contents == {"missing", "pulled", "failed", "event"}
Empty == [e \in Elements |-> "missing"]

\* The elements that were seen to.
cached == {e \in Elements : file[e] # "missing"}

SmallReplies == \A c \in Callers : Cardinality(reply[c]) <= FDLimit

TypeOK ==
  /\ dir \in {"absent", "present"}
  /\ file \in [Elements -> Contents]
  /\ given \in BOOLEAN
  /\ dir = "present" \/ (file = Empty /\ fillers = {})
  /\ pc \in [Callers -> Inside \cup {"idle"}]
  /\ outcome \in [Callers -> {"none", "path", "error"}]
  /\ fillers \subseteq Callers
  /\ unread \in [Callers -> SUBSET Elements]
  /\ reply \in [Callers -> SUBSET Elements]
  /\ SmallReplies
  /\ pulls \in 0 .. MaxPulls
  /\ stops \in 0 .. MaxStops
  /\ mishaps \subseteq Mishaps

Init ==
  /\ dir = "absent" /\ file = Empty /\ given = FALSE
  /\ pc = [c \in Callers |-> "idle"]
  /\ outcome = [c \in Callers |-> "none"]
  /\ fillers = {}
  /\ unread = [c \in Callers |-> {}]
  /\ reply = [c \in Callers |-> {}]
  /\ pulls = 0 /\ stops = 0
  /\ mishaps = {}

Goto(c, line) == pc' = [pc EXCEPT ![c] = line]

(* The function's end: its variables are gone, the directory is closed.     *)
Return(c, result) ==
  /\ Goto(c, "idle")
  /\ outcome' = [outcome EXCEPT ![c] = result]
  /\ fillers' = fillers \ {c}
  /\ unread' = [unread EXCEPT ![c] = {}]
  /\ reply' = [reply EXCEPT ![c] = {}]

\* The path is returned; a worker's events are going to be run there.
ReturnPath(c) ==
  /\ Return(c, "path")
  /\ given' = (given \/ c \in Workers)

\* Another call is under way.
Overlaps(c) == \E d \in Callers \ {c} : pc[d] # "idle"

\* Mutant: a directory that is there is filled again.
TakeOrRefresh(c) ==
  /\ dir = "present"
  /\ Goto(c, "read")
  /\ fillers' = fillers \cup {c}
  /\ unread' = [unread EXCEPT ![c] = Elements]
  /\ UNCHANGED <<given, outcome, reply>>

(* A path is returned at once when there is something at it.                *)
TakeExisting(c) == dir = "present" /\ ReturnPath(c)

Pull(c) ==
  /\ pc[c] = "idle"
  /\ pulls < MaxPulls
  /\ pulls' = pulls + 1
  /\ \/ TakeExisting(c)
     \/ /\ dir = "absent"
        /\ Goto(c, "list")
        /\ outcome' = [outcome EXCEPT ![c] = "none"]
        /\ UNCHANGED <<given, fillers, unread, reply>>
  /\ mishaps' = IF Overlaps(c) THEN mishaps \cup {"overlap"} ELSE mishaps
  /\ UNCHANGED <<disk, stops>>

(* ABRT is asked for the element names; the call may fail.                  *)
ListElements(c) ==
  /\ pc[c] = "list"
  /\ \/ Return(c, "error")
     \/ /\ unread' = [unread EXCEPT ![c] = Elements]
        /\ Goto(c, "create")
        /\ UNCHANGED <<outcome, fillers, reply>>
  /\ UNCHANGED <<disk, given, bounds, mishaps>>

\* Mutant: a directory that is there is opened instead.
SkeletonOpens(c) ==
  /\ dir' = "present"
  /\ fillers' = fillers \cup {c}
  /\ UNCHANGED <<file, mishaps>>

\* Mutant: a directory that is there is replaced by an empty one.
SkeletonReplaces(c) ==
  /\ dir' = "present" /\ file' = Empty
  /\ fillers' = fillers \cup {c}
  /\ UNCHANGED mishaps

\* Mutant: g_mkdir_with_parents was given the entry's own directory.
SkeletonAfterMkdir(c) ==
  /\ dir' = "present"
  /\ UNCHANGED <<file, fillers, mishaps>>

(* dd_create_skeleton makes the directory, unless it is there by now or     *)
(* cannot be made.                                                          *)
Skeleton(c) ==
  /\ \/ /\ dir = "absent" /\ dir' = "present"
        /\ fillers' = fillers \cup {c}
        /\ UNCHANGED mishaps
     \/ dir = "present" /\ UNCHANGED <<dir, fillers, mishaps>>
     \/ dir = "absent" /\ mishaps' = mishaps \cup {"create"} /\ UNCHANGED <<dir, fillers>>
  /\ UNCHANGED file

(* The daemon's own cache directory may not be to be had: an error.  What   *)
(* dd_create_skeleton returned is not looked at.                            *)
CreateDirectory(c) ==
  /\ pc[c] = "create"
  /\ \/ Return(c, "error") /\ UNCHANGED <<disk, mishaps>>
     \/ Skeleton(c) /\ Goto(c, "read") /\ UNCHANGED <<outcome, unread, reply>>
  /\ UNCHANGED <<given, bounds>>

\* Mutant: a call asks for all the elements.
WindowUnbounded(c, w) ==
  /\ w = unread[c]
  /\ unread' = [unread EXCEPT ![c] = {}]

\* Mutant: the loop's index goes on by one element too many.
WindowSkipsOne(c, w) ==
  /\ w \subseteq unread[c]
  /\ Cardinality(w) = FDLimit \/ (Cardinality(w) < FDLimit /\ w = unread[c])
  /\ \E skipped \in unread[c] : unread' = [unread EXCEPT ![c] = @ \ (w \cup {skipped})]

\* Mutant: the loop's index stays.
WindowStays(c, w) ==
  /\ w \subseteq unread[c]
  /\ Cardinality(w) = FDLimit \/ (Cardinality(w) < FDLimit /\ w = unread[c])
  /\ UNCHANGED unread

(* The elements from i on, FDLimit of them or those that are left.          *)
Window(c, w) ==
  /\ w \subseteq unread[c]
  /\ Cardinality(w) = FDLimit \/ (Cardinality(w) < FDLimit /\ w = unread[c])
  /\ unread' = [unread EXCEPT ![c] = @ \ w]

\* The elements of S were asked for in vain.
LeaveOut(c, S) ==
  file' = [e \in Elements |->
             IF c \in fillers /\ e \in S /\ file[e] = "missing" THEN "failed" ELSE file[e]]

(* One turn of the outer loop: ReadElements.  A failure leaves the directory *)
(* as it is; after the last turn its path is returned.                      *)
ReadElements(c) ==
  /\ pc[c] = "read"
  /\ \/ unread[c] = {} /\ ReturnPath(c) /\ UNCHANGED <<file, mishaps>>
     \/ /\ unread[c] # {}
        /\ Return(c, "error")
        /\ mishaps' = mishaps \cup {"read"}
        /\ UNCHANGED <<file, given>>
     \/ \E w \in (SUBSET unread[c]) \ {{}} : \E answered \in SUBSET w :
          /\ Window(c, w)
          /\ reply' = [reply EXCEPT ![c] = answered]
          /\ LeaveOut(c, w \ answered)
          /\ Goto(c, "copy")
          /\ UNCHANGED <<given, outcome, fillers, mishaps>>
  /\ UNCHANGED <<dir, bounds>>

\* All that was answered is copied.
EndOfReply(c) == reply[c] = {} /\ Goto(c, "read") /\ UNCHANGED <<file, mishaps, locals>>

(* One turn of the inner loop.  A descriptor that is not in the list is an  *)
(* error, a copy that fails is not; dump_directory is taken to be there.    *)
CopyElement(c) ==
  /\ pc[c] = "copy"
  /\ \/ EndOfReply(c)
     \/ /\ reply[c] # {}
        /\ Return(c, "error")
        /\ mishaps' = mishaps \cup {"read"}
        /\ UNCHANGED file
     \/ /\ c \in fillers
        /\ \E e \in reply[c], copy \in {"pulled", "failed"} :
             /\ reply' = [reply EXCEPT ![c] = @ \ {e}]
             /\ file' = [file EXCEPT ![e] = copy]
        /\ UNCHANGED <<pc, outcome, fillers, unread, mishaps>>
  /\ UNCHANGED <<dir, given, bounds>>

(* The process ends and with it every call; it is started again, with the   *)
(* old /tmp (dbus/org.freedesktop.reportd.service.in) or with a new one     *)
(* (PrivateTmp in the systemd units).                                       *)
ProcessEnds ==
  /\ \/ UNCHANGED <<disk, given>>
     \/ dir' = "absent" /\ file' = Empty /\ given' = FALSE
  /\ pc' = [c \in Callers |-> "idle"]
  /\ outcome' = [c \in Callers |-> "none"]
  /\ fillers' = {}
  /\ unread' = [c \in Callers |-> {}]
  /\ reply' = [c \in Callers |-> {}]
  /\ UNCHANGED pulls

(* A file is copied through a NULL directory: the daemon is killed.         *)
CopyToNull(c) ==
  /\ pc[c] = "copy"
  /\ c \notin fillers /\ reply[c] # {}
  /\ mishaps' = mishaps \cup {"null"}
  /\ ProcessEnds
  /\ UNCHANGED stops

(* A signal, the loss of the bus name or the power: anywhere.               *)
DaemonStops ==
  /\ \E c \in Callers : pc[c] # "idle"
  /\ stops < MaxStops /\ stops' = stops + 1
  /\ mishaps' = mishaps \cup {"stop"}
  /\ ProcessEnds

(* The commands of an event write or remove an element.                     *)
EventWrites(e) ==
  /\ given /\ dir = "present"
  /\ file' = [file EXCEPT ![e] = "event"]
  /\ UNCHANGED <<dir, given, pc, locals, bounds, mishaps>>

CallerStep(c) ==
  \/ ListElements(c) \/ CreateDirectory(c) \/ ReadElements(c)
  \/ CopyElement(c) \/ CopyToNull(c)

Next ==
  \/ \E c \in Callers : Pull(c) \/ CallerStep(c)
  \/ \E e \in Elements : EventWrites(e)
  \/ DaemonStops

Spec == Init /\ [][Next]_vars

\* Every D-Bus call is answered or times out, and threads are scheduled.
FairSpec == Spec /\ \A c \in Callers : WF_vars(CallerStep(c))

-----------------------------------------------------------------------------

(* Nothing but mkdir keeps two threads from filling the directory together: *)
(* at most one of them ever has it open.                                    *)
OneFiller == \A c, d \in fillers : c = d

(* A path that was returned leads to a directory in which every element of  *)
(* the entry was seen to: brought by the pull, tried by it in vain (not in  *)
(* ABRT's answer, or its own copy failed), or changed by an event since.    *)
(* If not, the thread that made the directory is still at it (a second      *)
(* caller gets the path of one that is being filled), or was stopped by an  *)
(* error or the end of the daemon; or the directory could not be made, and  *)
(* ABRT had nothing to put into it.                                         *)
IncompleteHasReason ==
  \A c \in Callers :
    outcome[c] = "path" =>
      \/ cached = Elements
      \/ fillers # {}
      \/ mishaps \cap {"read", "stop", "null"} # {}
      \/ dir = "absent" /\ "create" \in mishaps

(* What the events have written is not overwritten by a pull, as long as no *)
(* two calls overlap: only then may a worker's events run in a directory    *)
(* that another call is still filling (or where that one's own call could   *)
(* not make it, and a later one could).                                     *)
OutputIsKept ==
  [][\A e \in Elements :
       file[e] = "event" /\ dir' = "present" =>
         file'[e] = "event" \/ mishaps \cap {"overlap", "create"} # {}]_vars

(* The daemon dies of a NULL directory only if two calls have run at the    *)
(* same time or the directory could not be made: within a single call, the  *)
(* check for an existing one and the creation cannot disagree.              *)
NullNeedsOverlap ==
  \A c \in Callers :
    pc[c] \in {"read", "copy"} /\ c \notin fillers =>
      mishaps \cap {"create", "overlap"} # {}

(* Every call returns, or ends with the daemon.                             *)
PullReturns == \A c \in Callers : pc[c] # "idle" ~> pc[c] = "idle"

(* NEWS, 0.6.3: "Fix possible crash when creating cache directory fails".   *)
(* No call copies a file through a NULL directory.                          *)
NullIsNeverCopiedTo == "null" \notin mishaps

-----------------------------------------------------------------------------
(* The directory as those see it who are given its path.                    *)

Stage == IF dir = "absent" THEN "absent" ELSE IF fillers = {} THEN "settled" ELSE "filling"

Cache == INSTANCE CacheDirectory WITH stage <- Stage

(* However many calls run, fail or are cut off, a directory is filled once,  *)
(* by the call that made it.  Once nobody fills it, no pull writes there any *)
(* more, only the commands of events: what the pull has left incomplete, no  *)
(* later one repairs, before the whole cache is gone (lines 159-300).        *)
ImplementsCacheDirectory == Cache!Spec
==============================================================================
