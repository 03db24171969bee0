--------------------------- MODULE CacheDirectory ---------------------------
(***************************************************************************)
(* What the cached directory of a problem entry is to those who are given  *)
(* its path: it is made empty, the one call that has made it brings the    *)
(* elements, and from then on only the commands of events write to it,     *)
(* until it is gone with the whole cache.  They may do so before, too.     *)
(* Who the callers are, what they ask ABRT for and what fails is           *)
(* DirectoryPull, which is shown to implement this module.                 *)
(***************************************************************************)

CONSTANT
  Elements    \* the elements ABRT has of the entry

VARIABLES
  stage,      \* absent, filling or settled
  file        \* file[e]: who has last seen to element e: nobody, a pull, an event

cacheVars == <<stage, file>>

Contents == {"missing", "pulled", "failed", "event"}

Empty == [e \in Elements |-> "missing"]

Init == stage = "absent" /\ file = Empty

Make == stage = "absent" /\ stage' = "filling" /\ UNCHANGED file

\* Some elements are seen to by somebody who leaves one of the traces there.
SeeTo(traces) ==
  /\ file' \in [Elements -> Contents]
  /\ \A e \in Elements : file'[e] = file[e] \/ file'[e] \in traces
  /\ UNCHANGED stage

Fill == stage = "filling" /\ SeeTo({"pulled", "failed"})

RunEvents == stage # "absent" /\ SeeTo({"event"})

Settle == stage = "filling" /\ stage' = "settled" /\ UNCHANGED file

Vanish == stage' = "absent" /\ file' = Empty

Next == Make \/ Fill \/ RunEvents \/ Settle \/ Vanish

Spec == Init /\ [][Next]_cacheVars
==============================================================================
