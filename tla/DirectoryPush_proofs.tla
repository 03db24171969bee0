------------------------- MODULE DirectoryPush_proofs -------------------------
(* What pushes have sent when they say they succeeded, for any number of      *)
(* pushes of an entry, any set of elements and any limit of descriptors.      *)
EXTENDS DirectoryPush, FiniteSetTheorems, TLAPS

(* Every variable keeps its type; no ignored or unreadable element is in a    *)
(* batch.                                                                     *)
THEOREM Typing == Spec => []TypeOK
<1> USE PushAssumption
<1>1. Init => TypeOK
  BY DEF Init, TypeOK, Skipped
<1>2. TypeOK /\ [Next]_vars => TypeOK'
  <2> SUFFICES ASSUME TypeOK, [Next]_vars PROVE TypeOK'
    OBVIOUS
  <2> USE DEF TypeOK, Skipped, Goto, Return, abrt, reading
  <2>1. ASSUME NEW p \in Pushes, OpenDirectory(p) PROVE TypeOK'
    BY <2>1 DEF OpenDirectory
  <2>2. ASSUME NEW p \in Pushes, DeleteVolatile(p) PROVE TypeOK'
    <3>1. PICK found \in SUBSET Elements :
            /\ files' = [files EXCEPT ![p] = found]
            /\ unread' = [unread EXCEPT ![p] = found]
      BY <2>2 DEF DeleteVolatile
    <3>2. files[p] = {} /\ closed[p] = {} /\ batch[p] = {} /\ sent[p] = {}
      BY <2>2 DEF DeleteVolatile
    <3> QED
      BY <2>2, <3>1, <3>2 DEF DeleteVolatile
  <2>3. ASSUME NEW p \in Pushes, TakeWindow(p) PROVE TypeOK'
    <3>1. PICK w \in SUBSET unread[p] : \E shut \in SUBSET (w \ Ignored) : Open(p, w, shut)
      BY <2>3 DEF TakeWindow, Window
    <3>2. PICK shut \in SUBSET (w \ Ignored) : Open(p, w, shut)
      BY <3>1
    <3>3. UNCHANGED <<remote, deleter, files, sent>>
      BY <2>3 DEF TakeWindow
    <3>4. /\ pc' \in [Pushes -> {"open", "delete", "window", "save", "returned"}]
          /\ outcome' \in [Pushes -> {"none", "ok", "error", "dangling"}]
      BY <2>3 DEF TakeWindow
    <3>5. pc[p] = "window" /\ pc'[p] \in {"save", "returned"}
      BY <2>3 DEF TakeWindow
    <3>6. \A q \in Pushes \ {p} : pc'[q] = pc[q]
      BY <2>3 DEF TakeWindow
    <3> QED
      BY <3>2, <3>3, <3>4, <3>5, <3>6 DEF Open
  <2>4. ASSUME NEW p \in Pushes, SaveElements(p) PROVE TypeOK'
    BY <2>4 DEF SaveElements, Save, SaveFails
  <2>5. CASE UNCHANGED vars
    BY <2>5 DEF vars
  <2> QED
    BY <2>1, <2>2, <2>3, <2>4, <2>5 DEF Next, Step
<1> QED
  BY <1>1, <1>2, PTL DEF Spec

(* A window that holds nothing to send is the last one, when fewer files are  *)
(* skipped than a window holds: it is too small to be a full one.             *)
LEMMA EmptyWindowIsLast ==
  ASSUME TypeOK, NEW p \in Pushes, NEW w \in SUBSET unread[p], Window(p, w),
         batch'[p] = {}, UNCHANGED files, FewSkipped(p)'
  PROVE  w = unread[p]
<1>1. PICK shut \in SUBSET (w \ Ignored) : Open(p, w, shut)
  BY DEF Window
<1>2. w \subseteq Skipped(p)'
  BY <1>1 DEF Open, TypeOK, Skipped
<1>3. Skipped(p)' \subseteq Elements
  BY <1>1, PushAssumption DEF Open, TypeOK, Skipped
<1>4. IsFiniteSet(Skipped(p)')
  BY <1>3, FS_Subset, PushAssumption
<1>5. Cardinality(w) \in Nat /\ Cardinality(Skipped(p)') \in Nat
      /\ Cardinality(w) <= Cardinality(Skipped(p)')
  BY <1>2, <1>4, FS_Subset, FS_CardinalityType
<1>6. FDLimit \in Nat /\ Cardinality(Skipped(p)') < FDLimit
  BY PushAssumption DEF FewSkipped
<1> QED
  BY <1>5, <1>6 DEF Window

(* What is to be sent has been sent, is about to be, or is still unread, for  *)
(* as long as the directory is being read.                                    *)
Accounted(p) == files[p] \ Skipped(p) \subseteq sent[p] \cup batch[p] \cup unread[p]

\* What a push that succeeded has sent.
SentAll(p) == outcome[p] = "ok" /\ FewSkipped(p) => files[p] \ Skipped(p) \subseteq sent[p]

PushInv ==
  \A p \in Pushes :
    /\ outcome[p] = "none" => Accounted(p)
    /\ pc[p] \in {"open", "delete"} => sent[p] = {} /\ closed[p] = {}
    /\ pc[p] \in {"open", "delete", "window"} => batch[p] = {}
    /\ pc[p] # "returned" => outcome[p] = "none"
    /\ SentAll(p)

\* What ABRT has been given stays there, until the next push deletes some of it.
StoreInv ==
  \A p \in Pushes :
    /\ sent[p] \ {Volatile} \subseteq remote
    /\ deleter = p => sent[p] \subseteq remote

(* What another push does leaves the accounts of this one as they are.        *)
LEMMA OthersAccount ==
  ASSUME NEW p \in Pushes,
         pc'[p] = pc[p], outcome'[p] = outcome[p], files'[p] = files[p],
         unread'[p] = unread[p], closed'[p] = closed[p], batch'[p] = batch[p],
         sent'[p] = sent[p]
  PROVE  /\ Accounted(p)' <=> Accounted(p)
         /\ SentAll(p)' <=> SentAll(p)
BY DEF Accounted, SentAll, FewSkipped, Skipped

(* A step of one push changes nothing of another one's.                       *)
LEMMA OwnOnly ==
  ASSUME TypeOK, NEW p \in Pushes, NEW q \in Pushes \ {p}, Step(q)
  PROVE  /\ pc'[p] = pc[p] /\ outcome'[p] = outcome[p] /\ files'[p] = files[p]
         /\ unread'[p] = unread[p] /\ closed'[p] = closed[p]
         /\ batch'[p] = batch[p] /\ sent'[p] = sent[p]
<1> USE DEF TypeOK, Goto, Return, reading
<1>1. CASE OpenDirectory(q)
  BY <1>1 DEF OpenDirectory
<1>2. CASE DeleteVolatile(q)
  BY <1>2 DEF DeleteVolatile
<1>3. CASE TakeWindow(q)
  BY <1>3 DEF TakeWindow, Window, Open
<1>4. CASE SaveElements(q)
  BY <1>4 DEF SaveElements, Save, SaveFails
<1> QED
  BY <1>1, <1>2, <1>3, <1>4 DEF Step

(* The accounting is kept by every step.                                      *)
THEOREM Accounting == Spec => []PushInv
<1> DEFINE Kept(p) ==
      /\ outcome[p] = "none" => Accounted(p)
      /\ pc[p] \in {"open", "delete"} => sent[p] = {} /\ closed[p] = {}
      /\ pc[p] \in {"open", "delete", "window"} => batch[p] = {}
      /\ pc[p] # "returned" => outcome[p] = "none"
      /\ SentAll(p)
<1>1. Init => PushInv
  BY DEF Init, PushInv, Accounted, SentAll
<1>2. TypeOK /\ PushInv /\ [Next]_vars => PushInv'
  <2> SUFFICES ASSUME TypeOK, PushInv, [Next]_vars, NEW p \in Pushes PROVE Kept(p)'
    BY DEF PushInv
  <2>0. Kept(p)
    BY DEF PushInv
  <2> USE DEF Goto, Return, reading
  <2>1. CASE OpenDirectory(p)
    BY <2>0, <2>1 DEF OpenDirectory, TypeOK, Accounted, SentAll, FewSkipped, Skipped
  <2>2. CASE DeleteVolatile(p)
    BY <2>0, <2>2 DEF DeleteVolatile, TypeOK, Accounted, SentAll
  <2>3. CASE TakeWindow(p)
    <3>1. PICK w \in SUBSET unread[p] : Window(p, w)
      BY <2>3 DEF TakeWindow
    <3>2. PICK shut \in SUBSET (w \ Ignored) : Open(p, w, shut)
      BY <3>1 DEF Window
    <3>3. /\ pc[p] = "window" /\ outcome[p] = "none" /\ batch[p] = {}
          /\ unread'[p] = unread[p] \ w /\ closed'[p] = closed[p] \cup shut
          /\ batch'[p] = w \ (Ignored \cup shut)
          /\ UNCHANGED <<files, sent>>
      BY <2>0, <2>3, <3>2 DEF TakeWindow, Open, TypeOK
    <3>4. Accounted(p)'
      BY <2>0, <3>3 DEF Accounted, Skipped
    <3>5. CASE pc' = [pc EXCEPT ![p] = "save"] /\ UNCHANGED outcome
      BY <3>3, <3>4, <3>5 DEF TypeOK, SentAll
    <3>6. CASE batch'[p] = {} /\ Return(p, "ok")
      <4>1. ASSUME FewSkipped(p)' PROVE unread'[p] = {}
        BY <3>1, <3>3, <3>6, <4>1, EmptyWindowIsLast
      <4>2. SentAll(p)'
        BY <3>4, <3>6, <4>1 DEF Accounted, SentAll
      <4> QED
        BY <3>3, <3>6, <4>2 DEF TypeOK
    <3>7. CASE Return(p, "dangling")
      BY <3>3, <3>7 DEF TypeOK, SentAll
    <3> QED
      BY <2>3, <3>5, <3>6, <3>7 DEF TakeWindow
  <2>4. CASE SaveElements(p)
    <3>1. pc[p] = "save" /\ outcome[p] = "none" /\ UNCHANGED <<files, unread, closed>>
      BY <2>0, <2>4 DEF SaveElements
    <3>2. CASE Save(p)
      <4>1. Accounted(p)'
        BY <2>0, <3>1, <3>2 DEF Save, TypeOK, Accounted, Skipped
      <4> QED
        BY <3>1, <3>2, <4>1 DEF Save, TypeOK, SentAll
    <3>3. CASE SaveFails(p)
      BY <3>1, <3>3 DEF SaveFails, TypeOK, SentAll
    <3> QED
      BY <2>4, <3>2, <3>3 DEF SaveElements
  <2>5. ASSUME NEW q \in Pushes \ {p}, Step(q) PROVE Kept(p)'
    BY <2>0, <2>5, OwnOnly, OthersAccount
  <2>6. CASE UNCHANGED vars
    BY <2>0, <2>6, OthersAccount DEF vars
  <2> QED
    BY <2>1, <2>2, <2>3, <2>4, <2>5, <2>6 DEF Next, Step
<1> QED
  BY <1>1, <1>2, Typing, PTL DEF Spec

(* The deletion of another push makes that one the deleter; its own comes     *)
(* before anything is sent.                                                   *)
THEOREM Storing == Spec => []StoreInv
<1>1. Init => StoreInv
  BY DEF Init, StoreInv
<1>2. TypeOK /\ PushInv /\ StoreInv /\ [Next]_vars => StoreInv'
  <2> SUFFICES ASSUME TypeOK, PushInv, StoreInv, [Next]_vars PROVE StoreInv'
    OBVIOUS
  <2> USE DEF StoreInv
  <2>1. ASSUME NEW q \in Pushes, OpenDirectory(q) \/ TakeWindow(q) PROVE StoreInv'
    BY <2>1 DEF OpenDirectory, TakeWindow, abrt
  <2>2. ASSUME NEW q \in Pushes, DeleteVolatile(q) PROVE StoreInv'
    <3>1. sent[q] = {} /\ UNCHANGED sent
      BY <2>2 DEF DeleteVolatile, PushInv
    <3>2. CASE UNCHANGED abrt
      BY <3>1, <3>2 DEF abrt
    <3>3. CASE remote' = remote \ {Volatile} /\ deleter' = q
      BY <3>1, <3>3
    <3> QED
      BY <2>2, <3>2, <3>3 DEF DeleteVolatile
  <2>3. ASSUME NEW q \in Pushes, SaveElements(q) PROVE StoreInv'
    <3>1. remote \subseteq remote' /\ deleter' = deleter
      BY <2>3 DEF SaveElements, Save, SaveFails
    <3>2. CASE Save(q)
      <4>1. sent' = [sent EXCEPT ![q] = @ \cup batch[q]] /\ remote' = remote \cup batch[q]
        BY <3>2 DEF Save
      <4> QED
        BY <3>1, <4>1 DEF TypeOK
    <3>3. CASE SaveFails(q)
      BY <3>1, <3>3 DEF SaveFails
    <3> QED
      BY <2>3, <3>2, <3>3 DEF SaveElements
  <2>4. CASE UNCHANGED vars
    BY <2>4 DEF vars
  <2> QED
    BY <2>1, <2>2, <2>3, <2>4 DEF Next, Step
<1> QED
  BY <1>1, <1>2, Typing, Accounting, PTL DEF Spec

(* A push that succeeded has given ABRT every element that is not skipped, if *)
(* fewer are skipped than fit into one call.                                  *)
THEOREM Complete == Spec => []PushIsComplete
<1>1. PushInv /\ StoreInv => PushIsComplete
  BY DEF PushInv, SentAll, StoreInv, PushIsComplete
<1> QED
  BY <1>1, Accounting, Storing, PTL

(* However many pushes of an entry run at once, the volatile element is       *)
(* missing at ABRT only while the last one to delete it is about to send its  *)
(* own, or after that one has told its caller that it failed (lines 468-490). *)
THEOREM Recreated == Spec => []DeletedIsRecreated
<1>1. TypeOK /\ PushInv /\ StoreInv => DeletedIsRecreated
  <2> SUFFICES ASSUME TypeOK, PushInv, StoreInv, NEW p \in Pushes, deleter = p,
                      Volatile \notin remote, FewSkipped(p),
                      Volatile \in files[p] \ Skipped(p)
               PROVE  \/ outcome[p] = "none" /\ Volatile \in unread[p] \cup batch[p]
                      \/ outcome[p] \in {"error", "dangling"}
    BY DEF DeletedIsRecreated
  <2>1. Volatile \notin sent[p]
    BY DEF StoreInv
  <2>2. outcome[p] # "ok"
    BY <2>1 DEF PushInv, SentAll
  <2>3. outcome[p] = "none" => Volatile \in unread[p] \cup batch[p]
    BY <2>1 DEF PushInv, Accounted
  <2> QED
    BY <2>2, <2>3 DEF TypeOK
<1> QED
  BY <1>1, Typing, Accounting, Storing, PTL

-----------------------------------------------------------------------------
(* Why a push comes to its end: what is left to do, counted in steps.         *)

\* What the function's place adds to two steps for every unread file.
Rank == [delete |-> 2, window |-> 1, save |-> 2, returned |-> 0]

Effort(p) ==
  IF pc[p] = "open" THEN 2 * Cardinality(Elements) + 3
  ELSE IF pc[p] = "delete" THEN 2 * Cardinality(Elements) + 2
  ELSE 2 * Cardinality(unread[p]) + Rank[pc[p]]

(* Any set of elements has a natural number of them, and no more than there   *)
(* are; a smaller set has fewer.                                              *)
LEMMA Sizes ==
  ASSUME NEW S \in SUBSET Elements, NEW U \in SUBSET S
  PROVE  /\ Cardinality(S) \in Nat /\ Cardinality(U) \in Nat
         /\ Cardinality(Elements) \in Nat /\ Cardinality(S) <= Cardinality(Elements)
         /\ Cardinality(U) <= Cardinality(S)
         /\ U # S => Cardinality(U) < Cardinality(S)
<1>1. IsFiniteSet(Elements) /\ IsFiniteSet(S)
  BY FS_Subset, PushAssumption
<1> QED
  BY <1>1, FS_Subset, FS_CardinalityType

(* What is left to do can be counted, and is no more than at the start.       *)
LEMMA EffortIsBounded ==
  ASSUME TypeOK, NEW p \in Pushes
  PROVE  Effort(p) \in 0 .. 2 * Cardinality(Elements) + 3
<1>1. /\ Cardinality(unread[p]) \in Nat /\ Cardinality(Elements) \in Nat
      /\ Cardinality(unread[p]) <= Cardinality(Elements)
  BY Sizes DEF TypeOK
<1>2. pc[p] \in {"open", "delete", "window", "save", "returned"}
  BY DEF TypeOK
<1> QED
  BY <1>1, <1>2 DEF Effort, Rank

(* Each step of a push leaves it less to do.                                  *)
LEMMA StepRunsDown ==
  ASSUME TypeOK, NEW p \in Pushes, Step(p)
  PROVE  Effort(p)' < Effort(p)
<1> USE DEF TypeOK, Goto, Return, reading
<1>1. Cardinality(unread[p]) \in Nat /\ Cardinality(Elements) \in Nat
  BY Sizes
<1>2. CASE OpenDirectory(p)
  <2>1. pc[p] = "open" /\ pc'[p] \in {"returned", "delete"} /\ unread' = unread
    BY <1>2 DEF OpenDirectory
  <2>2. /\ Cardinality(unread[p]) <= Cardinality(Elements)
    BY Sizes
  <2> QED
    BY <1>1, <2>1, <2>2 DEF Effort, Rank
<1>3. CASE DeleteVolatile(p)
  <2>1. PICK found \in SUBSET Elements : unread' = [unread EXCEPT ![p] = found]
    BY <1>3 DEF DeleteVolatile
  <2>2. pc[p] = "delete" /\ pc'[p] = "window" /\ unread'[p] = found
    BY <1>3, <2>1 DEF DeleteVolatile
  <2>3. Cardinality(found) \in Nat /\ Cardinality(found) <= Cardinality(Elements)
    BY Sizes
  <2> QED
    BY <1>1, <2>2, <2>3 DEF Effort, Rank
<1>4. CASE TakeWindow(p)
  <2>1. PICK w \in SUBSET unread[p] : \E shut \in SUBSET (w \ Ignored) : Open(p, w, shut)
    BY <1>4 DEF TakeWindow, Window
  <2>2. unread'[p] = unread[p] \ w /\ (batch'[p] # {} => unread'[p] # unread[p])
    BY <2>1 DEF Open
  <2>3. /\ Cardinality(unread'[p]) \in Nat
        /\ Cardinality(unread'[p]) <= Cardinality(unread[p])
        /\ batch'[p] # {} => Cardinality(unread'[p]) < Cardinality(unread[p])
    BY <2>2, Sizes
  <2>4. pc[p] = "window" /\ (pc'[p] = "returned" \/ (pc'[p] = "save" /\ batch'[p] # {}))
    BY <1>4 DEF TakeWindow
  <2> QED
    BY <1>1, <2>3, <2>4 DEF Effort, Rank
<1>5. CASE SaveElements(p)
  <2>1. pc[p] = "save" /\ pc'[p] \in {"returned", "window"} /\ unread' = unread
    BY <1>5 DEF SaveElements, Save, SaveFails
  <2> QED
    BY <1>1, <2>1 DEF Effort, Rank
<1> QED
  BY <1>2, <1>3, <1>4, <1>5 DEF Step

(* The loop of push_problem_directory makes progress with every call: each    *)
(* step of a push leaves it less to do and no step of another one leaves it   *)
(* more, so that it has returned after 2n + 3 steps at most, n being the      *)
(* number of element names.  A limit of zero descriptors, or a window that    *)
(* can be sent without being taken off the directory, would break it.         *)
THEOREM RunsDown ==
  Spec => /\ [](\A p \in Pushes : Effort(p) \in 0 .. 2 * Cardinality(Elements) + 3)
          /\ [][\A p \in Pushes :
                  /\ Step(p) => Effort(p)' < Effort(p)
                  /\ ~Step(p) => Effort(p)' = Effort(p)]_vars
<1> DEFINE Down(p) == /\ Step(p) => Effort(p)' < Effort(p)
                      /\ ~Step(p) => Effort(p)' = Effort(p)
<1>1. TypeOK => \A p \in Pushes : Effort(p) \in 0 .. 2 * Cardinality(Elements) + 3
  BY EffortIsBounded
<1>2. TypeOK /\ [Next]_vars => [\A p \in Pushes : Down(p)]_vars
  <2> SUFFICES ASSUME TypeOK, Next, NEW p \in Pushes PROVE Down(p)
    BY DEF vars
  <2>1. ASSUME ~Step(p) PROVE Effort(p)' = Effort(p)
    <3>1. PICK q \in Pushes \ {p} : Step(q)
      BY <2>1 DEF Next
    <3>2. pc'[p] = pc[p] /\ unread'[p] = unread[p]
      BY <3>1, OwnOnly
    <3> QED
      BY <3>2 DEF Effort
  <2> QED
    BY <2>1, StepRunsDown
<1> QED
  BY <1>1, <1>2, Typing, PTL DEF Spec

(* No push sends an element twice: what is in its next call was not in one    *)
(* that ABRT has confirmed, since each file is read from the directory once.  *)
THEOREM SentOnce == Spec => [](\A p \in Pushes : batch[p] \cap sent[p] = {})
<1> DEFINE Once == \A p \in Pushes : batch[p] \cap sent[p] = {}
<1>1. Init => Once
  BY DEF Init
<1>2. TypeOK /\ Once /\ [Next]_vars => Once'
  <2> SUFFICES ASSUME TypeOK, Once, [Next]_vars, NEW p \in Pushes
               PROVE  batch'[p] \cap sent'[p] = {}
    OBVIOUS
  <2>1. CASE OpenDirectory(p) \/ DeleteVolatile(p)
    BY <2>1 DEF OpenDirectory, DeleteVolatile, reading
  <2>2. CASE TakeWindow(p)
    BY <2>2 DEF TakeWindow, Window, Open, TypeOK
  <2>3. CASE SaveElements(p)
    BY <2>3 DEF SaveElements, Save, SaveFails, TypeOK
  <2>4. ASSUME NEW q \in Pushes \ {p}, Step(q) PROVE batch'[p] \cap sent'[p] = {}
    BY <2>4, OwnOnly
  <2>5. CASE UNCHANGED vars
    BY <2>5 DEF vars
  <2> QED
    BY <2>1, <2>2, <2>3, <2>4, <2>5 DEF Next, Step
<1> HIDE DEF Once
<1>3. Spec => []Once
  BY <1>1, <1>2, Typing, PTL DEF Spec
<1> QED
  BY <1>3 DEF Once
==============================================================================
