------------------------- MODULE DirectoryPull_proofs -------------------------
(* The cached directory of one entry, for any number of callers, elements,    *)
(* descriptors per call, calls and ends of the daemon.                        *)
EXTENDS DirectoryPull, FiniteSetTheorems, TLAPS

(* Sets of elements are finite, and taking elements away makes them no larger. *)
LEMMA Smaller ==
  ASSUME NEW S \in SUBSET Elements, NEW T \in SUBSET S
  PROVE  /\ Cardinality(S) \in Nat /\ Cardinality(T) \in Nat
         /\ Cardinality(T) <= Cardinality(S)
<1>1. IsFiniteSet(S)
  BY FS_Subset, PullAssumption
<1> QED
  BY <1>1, FS_Subset, FS_CardinalityType

(* An answer is emptied, kept, or made smaller by one element.                *)
LEMMA RepliesStaySmall ==
  ASSUME SmallReplies, NEW c \in Callers, NEW r,
         reply' = [reply EXCEPT ![c] = r] \/ reply' = [d \in Callers |-> {}],
         reply \in [Callers -> SUBSET Elements],
         Cardinality(r) <= FDLimit
  PROVE  SmallReplies'
<1> SUFFICES ASSUME NEW d \in Callers PROVE Cardinality(reply'[d]) <= FDLimit
  BY DEF SmallReplies
<1>1. Cardinality({}) <= FDLimit
  BY FS_EmptySet, PullAssumption
<1>2. reply'[d] = reply[d] \/ reply'[d] = r \/ reply'[d] = {}
  OBVIOUS
<1> QED
  BY <1>1, <1>2 DEF SmallReplies

(* Every variable keeps its type, and no answer is larger than a window.      *)
THEOREM Typing == Spec => []TypeOK
<1> USE PullAssumption
<1>0. Cardinality({}) <= FDLimit
  BY FS_EmptySet
<1>1. Init => TypeOK
  <2> SUFFICES ASSUME Init PROVE TypeOK
    OBVIOUS
  <2>1. \A c \in Callers : reply[c] = {}
    BY DEF Init
  <2>2. SmallReplies
    BY <1>0, <2>1 DEF SmallReplies
  <2>3. fillers = {} /\ given \in BOOLEAN
    BY DEF Init
  <2>4. dir \in {"absent", "present"}
    BY DEF Init
  <2>5. file \in [Elements -> Contents] /\ file = Empty /\ mishaps \subseteq Mishaps
    BY DEF Init, Empty, Contents
  <2>6. pulls \in 0 .. MaxPulls /\ stops \in 0 .. MaxStops
    BY DEF Init
  <2>7. /\ pc \in [Callers -> Inside \cup {"idle"}]
        /\ outcome \in [Callers -> {"none", "path", "error"}]
    BY DEF Init
  <2>8. unread \in [Callers -> SUBSET Elements] /\ reply \in [Callers -> SUBSET Elements]
    BY DEF Init
  <2> QED
    BY <2>2, <2>3, <2>4, <2>5, <2>6, <2>7, <2>8 DEF TypeOK
<1>2. TypeOK /\ [Next]_vars => TypeOK'
  <2> SUFFICES ASSUME TypeOK, [Next]_vars PROVE TypeOK'
    OBVIOUS
  <2> USE DEF TypeOK, Inside, Mishaps, Goto, Return, ReturnPath, TakeExisting,
              disk, locals, bounds
  <2>1. ASSUME NEW c \in Callers, Pull(c) PROVE TypeOK'
    <3>1. SmallReplies'
      <4>1. CASE UNCHANGED reply
        BY <4>1 DEF SmallReplies
      <4>2. CASE reply' = [reply EXCEPT ![c] = {}]
        BY <1>0, <4>2, RepliesStaySmall
      <4> QED
        BY <2>1, <4>1, <4>2 DEF Pull
    <3>2. mishaps' \subseteq Mishaps /\ pulls' \in 0 .. MaxPulls
      BY <2>1 DEF Pull
    <3>3. /\ pc' \in [Callers -> Inside \cup {"idle"}]
          /\ outcome' \in [Callers -> {"none", "path", "error"}]
          /\ fillers' \subseteq fillers
          /\ unread' \in [Callers -> SUBSET Elements]
          /\ reply' \in [Callers -> SUBSET Elements]
          /\ given' \in BOOLEAN
      BY <2>1 DEF Pull
    <3> QED
      BY <2>1, <3>1, <3>2, <3>3 DEF Pull
  <2>2. ASSUME NEW c \in Callers, ListElements(c) PROVE TypeOK'
    <3>1. SmallReplies'
      <4>1. CASE UNCHANGED reply
        BY <4>1 DEF SmallReplies
      <4>2. CASE reply' = [reply EXCEPT ![c] = {}]
        BY <1>0, <4>2, RepliesStaySmall
      <4> QED
        BY <2>2, <4>1, <4>2 DEF ListElements
    <3> QED
      BY <2>2, <3>1 DEF ListElements
  <2>3. ASSUME NEW c \in Callers, CreateDirectory(c) PROVE TypeOK'
    <3>1. SmallReplies'
      <4>1. CASE UNCHANGED reply
        BY <4>1 DEF SmallReplies
      <4>2. CASE reply' = [reply EXCEPT ![c] = {}]
        BY <1>0, <4>2, RepliesStaySmall
      <4> QED
        BY <2>3, <4>1, <4>2 DEF CreateDirectory
    <3>2. /\ dir' \in {"absent", "present"} /\ UNCHANGED <<file, given>>
          /\ fillers' \subseteq Callers /\ mishaps' \subseteq Mishaps
          /\ dir' = "present" \/ (file' = Empty /\ fillers' = {})
      BY <2>3 DEF CreateDirectory, Skeleton
    <3>3. /\ pc' \in [Callers -> Inside \cup {"idle"}]
          /\ outcome' \in [Callers -> {"none", "path", "error"}]
          /\ unread' \in [Callers -> SUBSET Elements]
          /\ reply' \in [Callers -> SUBSET Elements]
          /\ UNCHANGED bounds
      BY <2>3 DEF CreateDirectory
    <3> QED
      BY <3>1, <3>2, <3>3
  <2>4. ASSUME NEW c \in Callers, ReadElements(c) PROVE TypeOK'
    <3>1. CASE ReturnPath(c) /\ UNCHANGED <<file, mishaps>>
      <4>1. SmallReplies'
        BY <1>0, <3>1, RepliesStaySmall
      <4> QED
        BY <2>4, <3>1, <4>1 DEF ReadElements
    <3>2. CASE /\ Return(c, "error") /\ mishaps' = mishaps \cup {"read"}
               /\ UNCHANGED <<file, given>>
      <4>1. SmallReplies'
        BY <1>0, <3>2, RepliesStaySmall
      <4> QED
        BY <2>4, <3>2, <4>1 DEF ReadElements
    <3>3. ASSUME NEW w \in SUBSET unread[c], NEW answered \in SUBSET w, Window(c, w),
                 reply' = [reply EXCEPT ![c] = answered], LeaveOut(c, w \ answered),
                 Goto(c, "copy"), UNCHANGED <<given, outcome, fillers, mishaps>>
          PROVE  TypeOK'
      <4>1. Cardinality(answered) <= FDLimit
        <5>1. /\ Cardinality(w) \in Nat /\ Cardinality(answered) \in Nat
              /\ Cardinality(answered) <= Cardinality(w)
          BY Smaller
        <5> QED
          BY <3>3, <5>1 DEF Window
      <4>2. SmallReplies'
        BY <3>3, <4>1, RepliesStaySmall
      <4>3. file' \in [Elements -> Contents] /\ (fillers = {} => file' = file)
        BY <3>3 DEF LeaveOut, Contents
      <4>4. UNCHANGED <<dir, bounds>>
        BY <2>4 DEF ReadElements
      <4> QED
        BY <3>3, <4>2, <4>3, <4>4 DEF Window
    <3> QED
      BY <2>4, <3>1, <3>2, <3>3 DEF ReadElements
  <2>5. ASSUME NEW c \in Callers, CopyElement(c) PROVE TypeOK'
    <3>1. CASE EndOfReply(c)
      <4>1. SmallReplies'
        BY <3>1 DEF EndOfReply, SmallReplies
      <4> QED
        BY <2>5, <3>1, <4>1 DEF CopyElement, EndOfReply
    <3>2. CASE Return(c, "error") /\ mishaps' = mishaps \cup {"read"} /\ UNCHANGED file
      <4>1. SmallReplies'
        BY <1>0, <3>2, RepliesStaySmall
      <4> QED
        BY <2>5, <3>2, <4>1 DEF CopyElement
    <3>3. ASSUME NEW e \in reply[c], NEW copy \in {"pulled", "failed"}, c \in fillers,
                 reply' = [reply EXCEPT ![c] = @ \ {e}],
                 file' = [file EXCEPT ![e] = copy],
                 UNCHANGED <<pc, outcome, fillers, unread, mishaps>>
          PROVE  TypeOK'
      <4>1. Cardinality(reply[c] \ {e}) <= FDLimit
        <5>1. /\ Cardinality(reply[c]) \in Nat /\ Cardinality(reply[c] \ {e}) \in Nat
              /\ Cardinality(reply[c] \ {e}) <= Cardinality(reply[c])
          BY Smaller
        <5> QED
          BY <5>1 DEF SmallReplies
      <4>2. SmallReplies'
        BY <3>3, <4>1, RepliesStaySmall
      <4>3. UNCHANGED <<dir, given, bounds>> /\ e \in Elements /\ dir = "present"
        BY <2>5, <3>3 DEF CopyElement
      <4>4. file' \in [Elements -> Contents]
        BY <3>3 DEF Contents
      <4> QED
        BY <3>3, <4>2, <4>3, <4>4
    <3> QED
      BY <2>5, <3>1, <3>2, <3>3 DEF CopyElement
  <2>6. ASSUME ProcessEnds, UNCHANGED stops \/ stops' \in 0 .. MaxStops,
               mishaps' \subseteq Mishaps
        PROVE  TypeOK'
    <3>1. \A c \in Callers : reply'[c] = {}
      BY <2>6 DEF ProcessEnds
    <3>2. SmallReplies'
      BY <1>0, <3>1 DEF SmallReplies
    <3>3. fillers' = {}
      BY <2>6 DEF ProcessEnds
    <3>4. /\ dir' \in {"absent", "present"} /\ file' \in [Elements -> Contents]
          /\ (dir' = "present" \/ file' = Empty)
          /\ given' \in BOOLEAN
      BY <2>6 DEF ProcessEnds, Empty, Contents
    <3>5. /\ pc' \in [Callers -> Inside \cup {"idle"}]
          /\ outcome' \in [Callers -> {"none", "path", "error"}]
          /\ unread' \in [Callers -> SUBSET Elements]
          /\ reply' \in [Callers -> SUBSET Elements]
          /\ UNCHANGED pulls
      BY <2>6 DEF ProcessEnds
    <3> QED
      BY <2>6, <3>2, <3>3, <3>4, <3>5
  <2>7. ASSUME NEW c \in Callers, CopyToNull(c) PROVE TypeOK'
    BY <2>6, <2>7 DEF CopyToNull
  <2>8. CASE DaemonStops
    BY <2>6, <2>8 DEF DaemonStops
  <2>9. ASSUME NEW e \in Elements, EventWrites(e) PROVE TypeOK'
    <3>1. SmallReplies'
      BY <2>9 DEF EventWrites, SmallReplies
    <3> QED
      BY <2>9, <3>1 DEF EventWrites, Contents
  <2>10. CASE UNCHANGED vars
    BY <2>10 DEF vars, SmallReplies
  <2> QED
    BY <2>1, <2>2, <2>3, <2>4, <2>5, <2>7, <2>8, <2>9, <2>10 DEF Next, CallerStep
<1> QED
  BY <1>1, <1>2, PTL DEF Spec

-----------------------------------------------------------------------------
(* Why a directory is complete: the one thread that made it has every element *)
(* in its window, still to ask for, or has seen to it.                        *)

Spoilt == mishaps \cap {"read", "stop", "null"} # {}

\* There is a directory, or there was none to be had.
MadeOrNot == dir = "present" \/ "create" \in mishaps

\* Where a caller is, and what it still has to do there.
Progress(c) ==
  /\ c \in fillers => pc[c] \in {"read", "copy"}
  /\ pc[c] # "copy" => reply[c] = {}
  /\ pc[c] = "create" => unread[c] = Elements
  /\ pc[c] \in {"read", "copy"} => MadeOrNot
  /\ c \in fillers => Spoilt \/ Elements = cached \cup unread[c] \cup reply[c]
  /\ outcome[c] = "path" => MadeOrNot

FillInv ==
  /\ OneFiller
  /\ \A c \in Callers : Progress(c)
  /\ dir = "present" /\ fillers = {} => Spoilt \/ cached = Elements

(* A caller that does not move makes the same progress, when the directory    *)
(* stays and no element is forgotten.                                         *)
LEMMA OthersProgress ==
  ASSUME NEW c \in Callers, Progress(c), Spoilt => Spoilt', MadeOrNot => MadeOrNot',
         pc'[c] = pc[c], outcome'[c] = outcome[c], unread'[c] = unread[c],
         reply'[c] = reply[c], c \in fillers' <=> c \in fillers,
         cached \subseteq cached', cached' \subseteq Elements
  PROVE  Progress(c)'
BY DEF Progress

(* The strengthened invariant.                                                *)
THEOREM Filling == Spec => []FillInv
<1>1. Init => FillInv
  BY DEF Init, FillInv, Progress, OneFiller
<1>2. TypeOK /\ FillInv /\ [Next]_vars => FillInv'
  <2> SUFFICES ASSUME TypeOK, FillInv, [Next]_vars PROVE FillInv'
    OBVIOUS
  <2>0. cached \subseteq Elements /\ cached' \subseteq Elements
    BY DEF cached
  <2> USE DEF TypeOK, Inside, Goto, Return, disk, locals, bounds
  <2>1. ASSUME NEW c \in Callers, Pull(c) PROVE FillInv'
    <3>1. c \notin fillers /\ fillers' = fillers /\ cached' = cached /\ dir' = dir
      BY <2>1 DEF Pull, TakeExisting, ReturnPath, FillInv, Progress, cached
    <3>2. (Spoilt => Spoilt') /\ (MadeOrNot => MadeOrNot')
      BY <2>1 DEF Pull, Spoilt, MadeOrNot
    <3>3. Progress(c)'
      <4>1. CASE TakeExisting(c)
        BY <2>1, <3>1, <4>1 DEF Pull, TakeExisting, ReturnPath, Progress, MadeOrNot
      <4>2. CASE ~TakeExisting(c)
        BY <2>1, <3>1, <4>2 DEF Pull, FillInv, Progress
      <4> QED
        BY <4>1, <4>2
    <3>4. ASSUME NEW d \in Callers \ {c} PROVE Progress(d)'
      BY <2>0, <2>1, <3>1, <3>2, OthersProgress DEF Pull, TakeExisting, ReturnPath, FillInv
    <3> QED
      BY <3>1, <3>2, <3>3, <3>4 DEF FillInv, OneFiller
  <2>2. ASSUME NEW c \in Callers, ListElements(c) PROVE FillInv'
    <3>1. /\ c \notin fillers /\ fillers' = fillers /\ cached' = cached /\ dir' = dir
          /\ mishaps' = mishaps
      BY <2>2 DEF ListElements, FillInv, Progress, cached
    <3>2. (Spoilt <=> Spoilt') /\ (MadeOrNot <=> MadeOrNot')
      BY <3>1 DEF Spoilt, MadeOrNot
    <3>3. Progress(c)'
      BY <2>2, <3>1, <3>2 DEF ListElements, FillInv, Progress
    <3>4. ASSUME NEW d \in Callers \ {c} PROVE Progress(d)'
      BY <2>0, <2>2, <3>1, <3>2, OthersProgress DEF ListElements, FillInv
    <3> QED
      BY <3>1, <3>2, <3>3, <3>4 DEF FillInv, OneFiller
  <2>3. ASSUME NEW c \in Callers, CreateDirectory(c) PROVE FillInv'
    <3>1. c \notin fillers /\ cached' = cached
      BY <2>3 DEF CreateDirectory, Skeleton, FillInv, Progress, cached
    <3>2. (Spoilt => Spoilt') /\ (MadeOrNot => MadeOrNot')
      BY <2>3 DEF CreateDirectory, Skeleton, Spoilt, MadeOrNot
    <3>3. \/ fillers' = fillers /\ dir' = dir
          \/ fillers = {} /\ fillers' = {c} /\ dir = "absent" /\ dir' = "present"
      <4>1. fillers \ {c} = fillers /\ (dir = "absent" => fillers \cup {c} = {c})
        BY <3>1
      <4> QED
        BY <2>3, <4>1 DEF CreateDirectory, Skeleton
    <3>4. Progress(c)'
      <4>1. CASE Return(c, "error") /\ UNCHANGED <<disk, mishaps>>
        BY <2>3, <3>1, <4>1 DEF CreateDirectory, FillInv, Progress
      <4>2. CASE Skeleton(c) /\ Goto(c, "read") /\ UNCHANGED <<outcome, unread, reply>>
        <5>1. MadeOrNot'
          BY <4>2 DEF Skeleton, MadeOrNot
        <5> QED
          BY <2>0, <2>3, <3>1, <3>3, <4>2, <5>1 DEF CreateDirectory, FillInv, Progress
      <4> QED
        BY <2>3, <4>1, <4>2 DEF CreateDirectory
    <3>5. ASSUME NEW d \in Callers \ {c} PROVE Progress(d)'
      BY <2>0, <2>3, <3>1, <3>2, <3>3, OthersProgress DEF CreateDirectory, FillInv
    <3> QED
      BY <3>1, <3>2, <3>3, <3>4, <3>5 DEF FillInv, OneFiller
  <2>4. ASSUME NEW c \in Callers, ReadElements(c) PROVE FillInv'
    <3>1. dir' = dir /\ cached \subseteq cached'
      BY <2>4 DEF ReadElements, LeaveOut, cached
    <3>2. (Spoilt => Spoilt') /\ (MadeOrNot => MadeOrNot')
      BY <2>4 DEF ReadElements, Spoilt, MadeOrNot
    <3>3. ASSUME NEW d \in Callers \ {c} PROVE Progress(d)'
      BY <2>0, <2>4, <3>1, <3>2, OthersProgress DEF ReadElements, ReturnPath, Window, FillInv
    <3>4. CASE unread[c] = {} /\ ReturnPath(c) /\ UNCHANGED <<file, mishaps>>
      <4>1. /\ MadeOrNot'
            /\ c \in fillers => Spoilt \/ cached = Elements
            /\ cached' = cached
        BY <2>4, <3>2, <3>4 DEF ReadElements, FillInv, Progress, cached
      <4>2. Progress(c)'
        BY <3>4, <4>1 DEF ReturnPath, Progress
      <4> QED
        BY <3>1, <3>2, <3>3, <3>4, <4>1, <4>2 DEF ReturnPath, FillInv, OneFiller
    <3>5. CASE Return(c, "error") /\ mishaps' = mishaps \cup {"read"}
      <4>1. Spoilt'
        BY <3>5 DEF Spoilt
      <4>2. Progress(c)'
        BY <3>1, <3>5, <4>1 DEF Progress
      <4> QED
        BY <3>3, <3>5, <4>1, <4>2 DEF FillInv, OneFiller
    <3>6. ASSUME NEW w \in (SUBSET unread[c]) \ {{}}, NEW answered \in SUBSET w,
                 Window(c, w), reply' = [reply EXCEPT ![c] = answered],
                 LeaveOut(c, w \ answered), Goto(c, "copy"),
                 UNCHANGED <<given, outcome, fillers, mishaps>>
          PROVE  FillInv'
      <4>1. unread' = [unread EXCEPT ![c] = @ \ w] /\ pc[c] = "read"
        BY <2>4, <3>6 DEF Window, ReadElements
      <4>2. c \in fillers => w \ answered \subseteq cached'
        BY <3>6 DEF LeaveOut, cached
      <4>3. Progress(c)'
        BY <2>0, <3>1, <3>2, <3>6, <4>1, <4>2 DEF FillInv, Progress
      <4> QED
        BY <2>0, <3>1, <3>2, <3>3, <3>6, <4>3 DEF FillInv, OneFiller
    <3> QED
      BY <2>4, <3>4, <3>5, <3>6 DEF ReadElements
  <2>5. ASSUME NEW c \in Callers, CopyElement(c) PROVE FillInv'
    <3>1. dir' = dir /\ cached \subseteq cached'
      BY <2>5 DEF CopyElement, EndOfReply, cached
    <3>2. (Spoilt => Spoilt') /\ (MadeOrNot => MadeOrNot')
      BY <2>5 DEF CopyElement, EndOfReply, Spoilt, MadeOrNot
    <3>3. ASSUME NEW d \in Callers \ {c} PROVE Progress(d)'
      BY <2>0, <2>5, <3>1, <3>2, OthersProgress DEF CopyElement, EndOfReply, FillInv
    <3>4. CASE EndOfReply(c)
      <4>1. cached' = cached /\ pc[c] = "copy"
        BY <2>5, <3>4 DEF EndOfReply, cached, CopyElement
      <4>2. Progress(c)'
        BY <3>1, <3>2, <3>4, <4>1 DEF EndOfReply, FillInv, Progress
      <4> QED
        BY <3>1, <3>2, <3>3, <3>4, <4>1, <4>2 DEF EndOfReply, FillInv, OneFiller
    <3>5. CASE Return(c, "error") /\ mishaps' = mishaps \cup {"read"} /\ UNCHANGED file
      <4>1. Spoilt'
        BY <3>5 DEF Spoilt
      <4>2. Progress(c)'
        BY <3>5, <4>1 DEF Progress
      <4> QED
        BY <3>3, <3>5, <4>1, <4>2 DEF FillInv, OneFiller
    <3>6. ASSUME NEW e \in reply[c], NEW copy \in {"pulled", "failed"}, c \in fillers,
                 reply' = [reply EXCEPT ![c] = @ \ {e}],
                 file' = [file EXCEPT ![e] = copy],
                 UNCHANGED <<pc, outcome, fillers, unread, mishaps>>
          PROVE  FillInv'
      <4>1. e \in cached'
        BY <3>6 DEF cached
      <4>2. Progress(c)'
        BY <2>0, <2>5, <3>1, <3>2, <3>6, <4>1 DEF CopyElement, FillInv, Progress
      <4> QED
        BY <3>1, <3>3, <3>6, <4>2 DEF FillInv, OneFiller
    <3> QED
      BY <2>5, <3>4, <3>5, <3>6 DEF CopyElement
  <2>6. ASSUME ProcessEnds, mishaps' = mishaps \cup {"null"} \/ mishaps' = mishaps \cup {"stop"}
        PROVE  FillInv'
    <3>1. Spoilt'
      BY <2>6 DEF Spoilt
    <3> QED
      BY <2>6, <3>1 DEF ProcessEnds, FillInv, Progress, OneFiller
  <2>7. ASSUME NEW c \in Callers, CopyToNull(c) PROVE FillInv'
    BY <2>6, <2>7 DEF CopyToNull
  <2>8. CASE DaemonStops
    BY <2>6, <2>8 DEF DaemonStops
  <2>9. ASSUME NEW e \in Elements, EventWrites(e) PROVE FillInv'
    <3>1. cached \subseteq cached'
      BY <2>9 DEF EventWrites, cached
    <3>2. /\ UNCHANGED <<dir, pc, outcome, fillers, unread, reply>>
          /\ Spoilt' = Spoilt /\ MadeOrNot' = MadeOrNot
      BY <2>9 DEF EventWrites, Spoilt, MadeOrNot
    <3>3. ASSUME NEW c \in Callers PROVE Progress(c)'
      BY <2>0, <3>1, <3>2, OthersProgress DEF FillInv
    <3> QED
      BY <2>0, <3>1, <3>2, <3>3 DEF FillInv, OneFiller
  <2>10. CASE UNCHANGED vars
    BY <2>10 DEF vars, FillInv, Progress, OneFiller, Spoilt, MadeOrNot, cached
  <2> QED
    BY <2>1, <2>2, <2>3, <2>4, <2>5, <2>7, <2>8, <2>9, <2>10 DEF Next, CallerStep
<1> QED
  BY <1>1, <1>2, Typing, PTL DEF Spec

(* At most one thread fills the directory at any moment: mkdir makes it for   *)
(* one of them only, and only that one copies (lines 288-290).                *)
THEOREM SingleFiller == Spec => []OneFiller
<1>1. FillInv => OneFiller
  BY DEF FillInv
<1> QED
  BY <1>1, Filling, PTL

(* A path leads to all elements unless something has gone wrong or the        *)
(* directory is being filled.                                                 *)
THEOREM Complete == Spec => []IncompleteHasReason
<1>1. TypeOK /\ FillInv => IncompleteHasReason
  BY DEF TypeOK, FillInv, Progress, MadeOrNot, IncompleteHasReason, Spoilt
<1> QED
  BY <1>1, Typing, Filling, PTL

-----------------------------------------------------------------------------
(* When a directory is missing: a caller that saw none and finds one was not  *)
(* alone.  When events may run in one that is being filled: somebody else was *)
(* given its path meanwhile, or the caller itself had it before there was one.*)

Mismatch == mishaps \cap {"create", "overlap"} # {}

OverlapInv ==
  /\ \A c, d \in Callers :
       c # d /\ pc[c] # "idle" /\ pc[d] # "idle" => "overlap" \in mishaps
  /\ \A c \in Callers :
       pc[c] \in {"list", "create"} /\ dir = "present" => "overlap" \in mishaps
  /\ \A c \in Callers :
       pc[c] \in {"read", "copy"} /\ c \notin fillers => Mismatch

OutputInv ==
  /\ given => MadeOrNot
  /\ given /\ fillers # {} => Mismatch
  /\ \A e \in Elements : file[e] = "event" => given

(* The strengthened invariants.                                               *)
THEOREM Overlapping == Spec => []OverlapInv
<1>1. Init => OverlapInv
  BY DEF Init, OverlapInv
<1>2. TypeOK /\ OverlapInv /\ [Next]_vars => OverlapInv'
  <2> SUFFICES ASSUME TypeOK, OverlapInv, [Next]_vars PROVE OverlapInv'
    OBVIOUS
  <2> USE DEF TypeOK, OverlapInv, Mismatch, Inside, Goto, Return, ReturnPath, disk, locals, bounds
  <2>1. ASSUME NEW c \in Callers, Pull(c) PROVE OverlapInv'
    BY <2>1 DEF Pull, TakeExisting, Overlaps
  <2>2. ASSUME NEW c \in Callers, ListElements(c) PROVE OverlapInv'
    BY <2>2 DEF ListElements
  <2>3. ASSUME NEW c \in Callers, CreateDirectory(c) PROVE OverlapInv'
    BY <2>3 DEF CreateDirectory, Skeleton
  <2>4. ASSUME NEW c \in Callers, ReadElements(c) PROVE OverlapInv'
    <3>1. pc[c] = "read" /\ dir' = dir /\ mishaps \subseteq mishaps'
      BY <2>4 DEF ReadElements
    <3>2. \/ pc' = [pc EXCEPT ![c] = "idle"] /\ fillers' = fillers \ {c}
          \/ pc' = [pc EXCEPT ![c] = "copy"] /\ fillers' = fillers
      BY <2>4 DEF ReadElements
    <3> QED
      BY <3>1, <3>2
  <2>5. ASSUME NEW c \in Callers, CopyElement(c) PROVE OverlapInv'
    BY <2>5 DEF CopyElement, EndOfReply
  <2>6. ASSUME ProcessEnds PROVE OverlapInv'
    BY <2>6 DEF ProcessEnds
  <2>7. ASSUME NEW e \in Elements, EventWrites(e) PROVE OverlapInv'
    BY <2>7 DEF EventWrites
  <2>8. CASE UNCHANGED vars
    BY <2>8 DEF vars
  <2> QED
    BY <2>1, <2>2, <2>3, <2>4, <2>5, <2>6, <2>7, <2>8
       DEF Next, CallerStep, CopyToNull, DaemonStops
<1> QED
  BY <1>1, <1>2, Typing, PTL DEF Spec

THEOREM Outputs == Spec => []OutputInv
<1>1. Init => OutputInv
  BY DEF Init, OutputInv, Empty
<1>2. TypeOK /\ FillInv /\ OverlapInv /\ OutputInv /\ [Next]_vars => OutputInv'
  <2> SUFFICES ASSUME TypeOK, FillInv, OverlapInv, OutputInv, [Next]_vars PROVE OutputInv'
    OBVIOUS
  <2>0. \A c \in fillers : c \in Callers /\ pc[c] # "idle"
    BY DEF TypeOK, FillInv, Progress
  <2> USE DEF OutputInv, MadeOrNot, Mismatch
  <2>1. ASSUME NEW c \in Callers, Pull(c) PROVE OutputInv'
    <3>1. fillers' = fillers /\ UNCHANGED disk /\ mishaps \subseteq mishaps'
      BY <2>0, <2>1 DEF Pull, TakeExisting, ReturnPath, Return
    <3>2. fillers # {} => "overlap" \in mishaps'
      BY <2>0, <2>1 DEF Pull, Overlaps
    <3>3. given' /\ ~given => dir = "present"
      BY <2>1 DEF Pull, TakeExisting
    <3>4. given => given'
      BY <2>1 DEF Pull, TakeExisting, ReturnPath
    <3> QED
      BY <3>1, <3>2, <3>3, <3>4 DEF disk
  <2>2. ASSUME NEW c \in Callers, ListElements(c) PROVE OutputInv'
    BY <2>2 DEF ListElements, Return, disk, bounds
  <2>3. ASSUME NEW c \in Callers, CreateDirectory(c) PROVE OutputInv'
    <3>1. UNCHANGED <<file, given>> /\ mishaps \subseteq mishaps'
      BY <2>3 DEF CreateDirectory, Skeleton, disk
    <3>2. (dir' = dir /\ fillers' \subseteq fillers) \/ (dir = "absent" /\ dir' = "present")
      BY <2>3 DEF CreateDirectory, Skeleton, Return, disk
    <3> QED
      BY <3>1, <3>2
  <2>4. ASSUME NEW c \in Callers, ReadElements(c) PROVE OutputInv'
    <3>1. dir' = dir /\ fillers' \subseteq fillers /\ mishaps \subseteq mishaps'
      BY <2>4 DEF ReadElements, ReturnPath, Return
    <3>2. given => given'
      BY <2>4 DEF ReadElements, ReturnPath
    <3>3. \A e \in Elements : file'[e] = "event" => file[e] = "event"
      BY <2>4 DEF ReadElements, LeaveOut
    <3>4. given' /\ ~given => fillers' = fillers \ {c} /\ MadeOrNot
      BY <2>4 DEF ReadElements, ReturnPath, Return, FillInv, Progress
    <3>5. given' /\ ~given /\ fillers' # {} => Mismatch
      <4> SUFFICES ASSUME NEW d \in fillers \ {c} PROVE Mismatch
        BY <3>4
      <4> QED
        BY <2>0, <2>4 DEF OverlapInv, ReadElements
    <3> QED
      BY <3>1, <3>2, <3>3, <3>4, <3>5
  <2>5. ASSUME NEW c \in Callers, CopyElement(c) PROVE OutputInv'
    <3>1. /\ UNCHANGED <<dir, given>> /\ fillers' \subseteq fillers
          /\ mishaps \subseteq mishaps'
      BY <2>5 DEF CopyElement, EndOfReply, Return, locals
    <3>2. \A e \in Elements : file'[e] = "event" => file[e] = "event"
      BY <2>5 DEF CopyElement, EndOfReply, TypeOK
    <3> QED
      BY <3>1, <3>2
  <2>6. ASSUME ProcessEnds, mishaps \subseteq mishaps' PROVE OutputInv'
    BY <2>6 DEF ProcessEnds, disk, Empty
  <2>7. ASSUME NEW e \in Elements, EventWrites(e) PROVE OutputInv'
    BY <2>7 DEF EventWrites, TypeOK, locals
  <2>8. CASE UNCHANGED vars
    BY <2>8 DEF vars
  <2> QED
    BY <2>1, <2>2, <2>3, <2>4, <2>5, <2>6, <2>7, <2>8
       DEF Next, CallerStep, CopyToNull, DaemonStops
<1> QED
  BY <1>1, <1>2, Typing, Filling, Overlapping, PTL DEF Spec

(* No call is left with a NULL directory unless calls have overlapped or the  *)
(* directory could not be made.                                               *)
THEOREM MissingDirectory == Spec => []NullNeedsOverlap
<1>1. OverlapInv => NullNeedsOverlap
  BY DEF OverlapInv, Mismatch, NullNeedsOverlap
<1> QED
  BY <1>1, Overlapping, PTL

(* What events have written, no pull overwrites, unless calls have overlapped *)
(* or the directory could not be made (lines 250-259 against 288-290).        *)
THEOREM OutputKept == Spec => OutputIsKept
<1> DEFINE Kept == \A e \in Elements :
                     file[e] = "event" /\ dir' = "present" =>
                       file'[e] = "event" \/ mishaps \cap {"overlap", "create"} # {}
<1>1. TypeOK /\ OutputInv /\ [Next]_vars => [Kept]_vars
  <2> SUFFICES ASSUME TypeOK, OutputInv, [Next]_vars, NEW e \in Elements,
                      file[e] = "event", dir' = "present", ~Mismatch
               PROVE  file'[e] = "event"
    BY DEF Mismatch
  <2>1. fillers = {}
    BY DEF OutputInv
  <2>2. ASSUME NEW c \in Callers, Pull(c) \/ CallerStep(c), ~CopyToNull(c)
        PROVE  file'[e] = "event"
    <3>1. ~(c \in fillers)
      BY <2>1
    <3>2. CASE ReadElements(c)
      BY <3>2 DEF ReadElements, LeaveOut
    <3>3. CASE CopyElement(c)
      BY <3>1, <3>3 DEF CopyElement, EndOfReply
    <3> QED
      BY <2>2, <3>2, <3>3 DEF CallerStep, Pull, ListElements, CreateDirectory, Skeleton, disk
  <2>3. CASE ProcessEnds
    BY <2>3 DEF ProcessEnds, disk
  <2>4. ASSUME NEW f \in Elements, EventWrites(f) PROVE file'[e] = "event"
    BY <2>4 DEF EventWrites, TypeOK
  <2>5. CASE UNCHANGED vars
    BY <2>5 DEF vars
  <2> QED
    BY <2>2, <2>3, <2>4, <2>5 DEF Next, CallerStep, CopyToNull, DaemonStops
<1> QED
  BY <1>1, Typing, Outputs, PTL DEF Spec, OutputIsKept

-----------------------------------------------------------------------------
(* What the callers are given the path of.                                    *)

(* A call that ends leaves the directory as it is, and settles it if nobody   *)
(* else has it open.                                                          *)
LEMMA ReturnSettles ==
  ASSUME TypeOK, UNCHANGED disk, fillers' \subseteq fillers
  PROVE  Cache!Settle \/ UNCHANGED Cache!cacheVars
BY DEF TypeOK, disk, Stage, Cache!Settle, Cache!cacheVars

(* Who has the directory open may leave his traces there.                     *)
LEMMA FillerFills ==
  ASSUME TypeOK, TypeOK', NEW c \in fillers, UNCHANGED <<dir, fillers>>,
         \A e \in Elements : file'[e] \in {file[e], "pulled", "failed"}
  PROVE  Cache!Fill
BY DEF TypeOK, Stage, Contents, Cache!Fill, Cache!SeeTo, Cache!Contents

(* The directory is what CacheDirectory says, whatever the callers do: each   *)
(* step of a call makes the directory, brings an element or gives it up,      *)
(* settles the directory, or leaves it alone; the end of the process settles  *)
(* or removes it, and only events write to it besides.                        *)
THEOREM Implementation == Spec => ImplementsCacheDirectory
<1>1. Init => Cache!Init
  BY DEF Init, Stage, Empty, Cache!Init, Cache!Empty
<1>2. TypeOK /\ TypeOK' /\ [Next]_vars => [Cache!Next]_(Cache!cacheVars)
  <2> SUFFICES ASSUME TypeOK, TypeOK', [Next]_vars PROVE Cache!Next \/ UNCHANGED Cache!cacheVars
    OBVIOUS
  <2> USE DEF Cache!Next
  <2>1. ASSUME NEW c \in Callers, Pull(c) \/ ListElements(c)
        PROVE  Cache!Settle \/ UNCHANGED Cache!cacheVars
    <3>1. UNCHANGED disk /\ fillers' \subseteq fillers
      BY <2>1 DEF Pull, TakeExisting, ReturnPath, ListElements, Return
    <3> QED
      BY <3>1, ReturnSettles
  <2>2. ASSUME NEW c \in Callers, CreateDirectory(c)
        PROVE  Cache!Next \/ UNCHANGED Cache!cacheVars
    <3>1. CASE UNCHANGED disk /\ fillers' \subseteq fillers
      BY <3>1, ReturnSettles
    <3>2. CASE /\ dir = "absent" /\ dir' = "present"
               /\ fillers' = fillers \cup {c} /\ UNCHANGED file
      BY <3>2 DEF Stage, Cache!Make
    <3> QED
      BY <2>2, <3>1, <3>2 DEF CreateDirectory, Skeleton, Return, disk
  <2>3. ASSUME NEW c \in Callers, ReadElements(c)
        PROVE  Cache!Next \/ UNCHANGED Cache!cacheVars
    <3>1. CASE UNCHANGED disk
      <4>1. fillers' \subseteq fillers
        BY <2>3 DEF ReadElements, ReturnPath, Return
      <4> QED
        BY <3>1, <4>1, ReturnSettles
    <3>2. ASSUME NEW S \in SUBSET Elements, LeaveOut(c, S), UNCHANGED <<dir, fillers>>
          PROVE  Cache!Next \/ UNCHANGED Cache!cacheVars
      <4>1. CASE c \in fillers
        <5>1. \A e \in Elements : file'[e] \in {file[e], "pulled", "failed"}
          BY <3>2 DEF LeaveOut
        <5> QED
          BY <3>2, <4>1, <5>1, FillerFills
      <4>2. CASE c \notin fillers
        <5>1. file' = file
          BY <3>2, <4>2 DEF LeaveOut, TypeOK
        <5> QED
          BY <3>2, <5>1, ReturnSettles DEF disk
      <4> QED
        BY <4>1, <4>2
    <3>3. \/ UNCHANGED disk
          \/ \E S \in SUBSET Elements : LeaveOut(c, S) /\ UNCHANGED <<dir, fillers>>
      <4>1. unread[c] \subseteq Elements
        BY DEF TypeOK
      <4> QED
        BY <2>3, <4>1 DEF ReadElements, disk
    <3> QED
      BY <3>1, <3>2, <3>3
  <2>4. ASSUME NEW c \in Callers, CopyElement(c)
        PROVE  Cache!Next \/ UNCHANGED Cache!cacheVars
    <3>1. CASE UNCHANGED file
      <4>1. UNCHANGED disk /\ fillers' \subseteq fillers
        BY <2>4, <3>1 DEF CopyElement, EndOfReply, Return, locals, disk
      <4> QED
        BY <4>1, ReturnSettles
    <3>2. CASE /\ c \in fillers /\ UNCHANGED fillers
               /\ \E e \in reply[c], copy \in {"pulled", "failed"} :
                    file' = [file EXCEPT ![e] = copy]
      <4>1. \A e \in Elements : file'[e] \in {file[e], "pulled", "failed"}
        BY <3>2 DEF TypeOK
      <4>2. UNCHANGED <<dir, fillers>>
        BY <2>4, <3>2 DEF CopyElement
      <4> QED
        BY <3>2, <4>1, <4>2, FillerFills
    <3> QED
      BY <2>4, <3>1, <3>2 DEF CopyElement, EndOfReply
  <2>5. CASE ProcessEnds
    <3>1. CASE UNCHANGED disk
      BY <2>5, <3>1, ReturnSettles DEF ProcessEnds
    <3>2. CASE dir' = "absent" /\ file' = Empty
      BY <3>2 DEF Stage, Empty, Cache!Vanish, Cache!Empty
    <3> QED
      BY <2>5, <3>1, <3>2 DEF ProcessEnds
  <2>6. ASSUME NEW e \in Elements, EventWrites(e) PROVE Cache!RunEvents
    <3>1. \A f \in Elements : file'[f] \in {file[f], "event"}
      BY <2>6 DEF EventWrites, TypeOK
    <3>2. Stage' = Stage /\ Stage # "absent"
      BY <2>6 DEF EventWrites, Stage, locals
    <3> QED
      BY <3>1, <3>2 DEF TypeOK, Contents, Cache!RunEvents, Cache!SeeTo, Cache!Contents
  <2>7. CASE UNCHANGED vars
    BY <2>7 DEF vars, Stage, Cache!cacheVars
  <2> QED
    BY <2>1, <2>2, <2>3, <2>4, <2>5, <2>6, <2>7 DEF Next, CallerStep, CopyToNull, DaemonStops
<1> QED
  BY <1>1, <1>2, Typing, PTL DEF Spec, ImplementsCacheDirectory, Cache!Spec

-----------------------------------------------------------------------------
(* Why a call comes to its end: what a caller has left to do, counted in      *)
(* steps.                                                                     *)

(* Each element costs three: a turn of the outer loop, a turn of the inner    *)
(* one, and the end of that loop.                                             *)
Effort(c) ==
  CASE pc[c] = "list" -> 3 * Cardinality(Elements) + 4
    [] pc[c] = "create" -> 3 * Cardinality(unread[c]) + 3
    [] pc[c] = "read" -> 3 * Cardinality(unread[c]) + 1
    [] pc[c] = "copy" -> 3 * Cardinality(unread[c]) + Cardinality(reply[c]) + 2
    [] pc[c] = "idle" -> 0

RunsDown(c) ==
  /\ CallerStep(c) => Effort(c)' < Effort(c)
  /\ ~CallerStep(c) /\ ~Pull(c) => Effort(c)' <= Effort(c)

(* A caller at work has something left to do; one that has returned has not.  *)
LEMMA EffortIsNatural ==
  ASSUME TypeOK, NEW c \in Callers
  PROVE  Effort(c) \in Nat /\ (pc[c] # "idle" => Effort(c) > 0)
<1>1. /\ Cardinality(Elements) \in Nat
      /\ Cardinality(unread[c]) \in Nat
      /\ Cardinality(reply[c]) \in Nat
  BY Smaller DEF TypeOK
<1>2. pc[c] \in {"list", "create", "read", "copy", "idle"}
  BY DEF TypeOK, Inside
<1> QED
  BY <1>1, <1>2 DEF Effort

(* The sizes of what a window leaves behind.                                  *)
LEMMA WindowShrinks ==
  ASSUME NEW S \in SUBSET Elements, NEW w \in (SUBSET S) \ {{}}
  PROVE  /\ Cardinality(S) \in Nat /\ Cardinality(w) \in Nat \ {0}
         /\ Cardinality(S \ w) = Cardinality(S) - Cardinality(w)
<1>1. IsFiniteSet(S) /\ IsFiniteSet(w)
  BY FS_Subset, PullAssumption
<1>2. Cardinality(S \ w) = Cardinality(S) - Cardinality(S \cap w)
  BY <1>1, FS_Difference
<1>3. S \cap w = w
  OBVIOUS
<1>4. Cardinality(w) # 0
  BY <1>1, FS_EmptySet
<1> QED
  BY <1>1, <1>2, <1>3, <1>4, FS_CardinalityType

(* A step of a call leaves it less to do.                                     *)
LEMMA StepRunsDown ==
  ASSUME TypeOK, NEW c \in Callers, CallerStep(c)
  PROVE  Effort(c)' < Effort(c)
<1> USE DEF TypeOK, Inside, Goto, Return, ReturnPath, locals
<1>1. /\ Cardinality(Elements) \in Nat
      /\ Cardinality(unread[c]) \in Nat
      /\ Cardinality(reply[c]) \in Nat
  BY Smaller
<1>2. ASSUME pc[c] # "idle", pc'[c] = "idle" PROVE Effort(c)' < Effort(c)
  <2>1. Effort(c)' = 0
    BY <1>2 DEF Effort
  <2> QED
    BY <1>2, <2>1, EffortIsNatural
<1>3. CASE ListElements(c)
  <2>1. pc[c] = "list" /\ (pc'[c] = "idle" \/ (pc'[c] = "create" /\ unread'[c] = Elements))
    BY <1>3 DEF ListElements
  <2> QED
    BY <1>1, <1>2, <2>1 DEF Effort
<1>4. CASE CreateDirectory(c)
  <2>1. pc[c] = "create" /\ (pc'[c] = "idle" \/ (pc'[c] = "read" /\ unread'[c] = unread[c]))
    BY <1>4 DEF CreateDirectory
  <2> QED
    BY <1>1, <1>2, <2>1 DEF Effort
<1>5. CASE ReadElements(c)
  <2>1. pc[c] = "read"
    BY <1>5 DEF ReadElements
  <2>2. CASE pc'[c] = "idle"
    BY <1>2, <2>1, <2>2
  <2>3. ASSUME NEW w \in (SUBSET unread[c]) \ {{}}, NEW answered \in SUBSET w,
               Window(c, w), reply' = [reply EXCEPT ![c] = answered], Goto(c, "copy")
        PROVE  Effort(c)' < Effort(c)
    <3>1. unread'[c] = unread[c] \ w /\ reply'[c] = answered /\ pc'[c] = "copy"
      BY <2>3 DEF Window
    <3>2. /\ Cardinality(w) \in Nat \ {0}
          /\ Cardinality(unread[c] \ w) = Cardinality(unread[c]) - Cardinality(w)
      BY WindowShrinks
    <3>3. Cardinality(answered) \in Nat /\ Cardinality(answered) <= Cardinality(w)
      BY Smaller
    <3> QED
      BY <1>1, <2>1, <3>1, <3>2, <3>3 DEF Effort
  <2> QED
    BY <1>5, <2>2, <2>3 DEF ReadElements
<1>6. CASE CopyElement(c)
  <2>1. pc[c] = "copy"
    BY <1>6 DEF CopyElement
  <2>2. CASE pc'[c] = "idle"
    BY <1>2, <2>1, <2>2
  <2>3. CASE reply[c] = {} /\ pc'[c] = "read" /\ unread'[c] = unread[c]
    BY <1>1, <2>1, <2>3 DEF Effort
  <2>4. ASSUME NEW e \in reply[c], reply' = [reply EXCEPT ![c] = @ \ {e}],
               UNCHANGED <<pc, unread>>
        PROVE  Effort(c)' < Effort(c)
    <3>1. Cardinality(reply[c] \ {e}) = Cardinality(reply[c]) - 1
      BY FS_Subset, FS_RemoveElement, PullAssumption
    <3>2. reply'[c] = reply[c] \ {e}
      BY <2>4
    <3> QED
      BY <1>1, <2>1, <2>4, <3>1, <3>2 DEF Effort
  <2> QED
    BY <1>6, <2>2, <2>3, <2>4 DEF CopyElement, EndOfReply
<1>7. CASE CopyToNull(c)
  BY <1>2, <1>7 DEF CopyToNull, ProcessEnds
<1> QED
  BY <1>3, <1>4, <1>5, <1>6, <1>7 DEF CallerStep

(* No step but a new call gives a caller more to do.                          *)
LEMMA OthersLeaveEffort ==
  ASSUME TypeOK, NEW c \in Callers, [Next]_vars, ~Pull(c), ~CallerStep(c)
  PROVE  Effort(c)' <= Effort(c)
<1>1. CASE pc'[c] = pc[c] /\ unread'[c] = unread[c] /\ reply'[c] = reply[c]
  <2>1. Effort(c)' = Effort(c)
    BY <1>1 DEF Effort
  <2> QED
    BY <2>1, EffortIsNatural
<1>2. CASE pc'[c] = "idle"
  <2>1. Effort(c)' = 0
    BY <1>2 DEF Effort
  <2> QED
    BY <2>1, EffortIsNatural
<1>3. ASSUME NEW d \in Callers \ {c}, Pull(d) \/ CallerStep(d)
      PROVE  \/ pc'[c] = "idle"
             \/ pc'[c] = pc[c] /\ unread'[c] = unread[c] /\ reply'[c] = reply[c]
  BY <1>3 DEF TypeOK, CallerStep, Pull, TakeExisting, ListElements, CreateDirectory,
              ReadElements, Window, CopyElement, EndOfReply, CopyToNull, ProcessEnds, Goto,
              Return, ReturnPath, locals
<1>4. CASE DaemonStops
  BY <1>2, <1>4 DEF DaemonStops, ProcessEnds
<1>5. ASSUME NEW e \in Elements, EventWrites(e) PROVE Effort(c)' <= Effort(c)
  BY <1>1, <1>5 DEF EventWrites, locals
<1>6. CASE UNCHANGED vars
  BY <1>1, <1>6 DEF vars
<1> QED
  BY <1>1, <1>2, <1>3, <1>4, <1>5, <1>6 DEF Next

(* The two loops of get_problem_directory make progress whatever the other    *)
(* callers do to the directory: every step of a call leaves it less to do,    *)
(* and no step of another one, and no end of the daemon, gives it more.  So a *)
(* call is over after 3n + 4 steps of its own at most, n being the number of  *)
(* elements.                                                                  *)
THEOREM CallsRunDown ==
  Spec => /\ [](\A c \in Callers : Effort(c) \in Nat)
          /\ [][\A c \in Callers : RunsDown(c)]_vars
<1>1. TypeOK => \A c \in Callers : Effort(c) \in Nat
  BY EffortIsNatural
<1>2. TypeOK /\ [Next]_vars => [\A c \in Callers : RunsDown(c)]_vars
  <2> SUFFICES ASSUME TypeOK, [Next]_vars, NEW c \in Callers PROVE RunsDown(c)
    OBVIOUS
  <2> QED
    BY StepRunsDown, OthersLeaveEffort DEF RunsDown
<1> QED
  BY <1>1, <1>2, Typing, PTL DEF Spec
==============================================================================
