-------------------------- MODULE TaskPrompt_proofs --------------------------
(* The prompt handshake for any number of threads and tasks, and any bounds.  *)
EXTENDS TaskPrompt, FiniteSetTheorems, WellFoundedInduction, TLAPS

(* A prompt's number and path are there while it is exported; the main thread *)
(* has a prompt to work on, and the mutex while it signals.                   *)
Grip ==
  /\ \A t \in Threads : pc[t] # "idle" => serial[t] \in Prompts
  /\ main # "idle" => current.thread \in Threads
  /\ main = "signal" => holder[taskOf[current.thread]] = Main

(* Paths are numbers, zero among them as long as there is a thread.           *)
LEMMA SomePath == Threads # {} => 0 \in Paths
<1> SUFFICES ASSUME NEW t \in Threads PROVE 0 \in Paths
  OBVIOUS
<1>1. Cardinality(Threads) \in Nat
  BY FS_CardinalityType, PromptAssumption
<1>2. Cardinality(Threads) # 0
  BY FS_EmptySet, PromptAssumption
<1> QED
  BY <1>1, <1>2 DEF Paths

(* Every variable keeps its type, and the mutex is held by the one who is     *)
(* inside.                                                                    *)
THEOREM Typing == Spec => [](TypeOK /\ Grip)
<1> USE PromptAssumption
<1>1. Init => TypeOK /\ Grip
  <2> SUFFICES ASSUME Init PROVE TypeOK /\ Grip
    OBVIOUS
  <2>1. path \in [Threads -> Paths]
    BY SomePath DEF Init
  <2> QED
    BY <2>1 DEF Init, TypeOK, Grip, Exported, Waiting, NoPrompt
<1>2. TypeOK /\ Grip /\ [Next]_vars => TypeOK' /\ Grip'
  <2> SUFFICES ASSUME TypeOK, Grip, [Next]_vars PROVE TypeOK' /\ Grip'
    OBVIOUS
  <2> USE DEF TypeOK, Grip, Exported, Waiting, NoPrompt, Prompts, Goto, Lock, Unlock,
              prompts, mainVars, calls
  <2>1. ASSUME NEW t \in Threads, Export(t) PROVE TypeOK' /\ Grip'
    BY <2>1 DEF Export
  <2>2. ASSUME NEW t \in Threads, ConnectAndEmit(t) PROVE TypeOK' /\ Grip'
    BY <2>2 DEF ConnectAndEmit
  <2>3. ASSUME NEW t \in Threads, LockMutex(t) PROVE TypeOK' /\ Grip'
    BY <2>3 DEF LockMutex
  <2>4. ASSUME NEW t \in Threads, CheckHandled(t) PROVE TypeOK' /\ Grip'
    BY <2>4 DEF CheckHandled
  <2>5. ASSUME NEW t \in Threads, LookAndSleep(t) PROVE TypeOK' /\ Grip'
    BY <2>5 DEF LookAndSleep
  <2>6. ASSUME NEW t \in Threads, WaitTimesOut(t) PROVE TypeOK' /\ Grip'
    BY <2>6 DEF WaitTimesOut
  <2>7. ASSUME NEW t \in Threads, Unexport(t) PROVE TypeOK' /\ Grip'
    BY <2>7 DEF Unexport
  <2>8. ASSUME NEW t \in Threads, SendCommit(t) PROVE TypeOK' /\ Grip'
    <3>1. serial[t] \in Prompts /\ path[t] \in Paths
      BY <2>8 DEF SendCommit
    <3>2. sent' \subseteq Calls /\ wire' \subseteq sent'
      BY <2>8, <3>1 DEF SendCommit, Calls
    <3> QED
      BY <2>8, <3>2 DEF SendCommit
  <2>9. CASE DeliverCommit
    <3>1. PICK call \in wire :
            /\ wire' = wire \ {call}
            /\ \/ UNCHANGED mainVars
               \/ \E t \in Reached(call.path) :
                    /\ main' = "mark"
                    /\ current' = [thread |-> t, serial |-> serial[t],
                                   meant |-> call.meant]
      BY <2>9 DEF DeliverCommit
    <3>2. call.meant \in Prompts
      BY DEF Calls
    <3>3. CASE UNCHANGED mainVars
      BY <2>9, <3>1, <3>3 DEF DeliverCommit
    <3>4. ASSUME NEW t \in Reached(call.path), main' = "mark",
                 current' = [thread |-> t, serial |-> serial[t], meant |-> call.meant]
          PROVE  TypeOK' /\ Grip'
      <4>1. t \in Threads /\ serial[t] \in Prompts
        BY DEF Reached
      <4>2. current' \in [thread : Threads, serial : Prompts, meant : Prompts]
            /\ current'.thread = t
        BY <3>2, <3>4, <4>1
      <4> QED
        BY <2>9, <3>1, <3>4, <4>1, <4>2 DEF DeliverCommit
    <3> QED
      BY <3>1, <3>3, <3>4
  <2>10. CASE MarkHandled
    <3>1. current \in [thread : Threads, serial : Prompts, meant : Prompts]
      BY <2>10 DEF MarkHandled
    <3> QED
      BY <2>10, <3>1 DEF MarkHandled
  <2>11. CASE MainLocks
    BY <2>11 DEF MainLocks
  <2>12. CASE SignalAndUnlock
    BY <2>12 DEF SignalAndUnlock, Sleepers
  <2>13. ASSUME NEW k \in Tasks, Cancel(k) PROVE TypeOK' /\ Grip'
    BY <2>13 DEF Cancel
  <2>14. CASE UNCHANGED vars
    BY <2>14 DEF vars
  <2> QED
    BY <2>1, <2>2, <2>3, <2>4, <2>5, <2>6, <2>7, <2>8, <2>9, <2>10, <2>11, <2>12,
       <2>13, <2>14 DEF Next, ThreadStep, MainStep
<1> QED
  BY <1>1, <1>2, PTL DEF Spec

(* Where the wake-up of a marked prompt is: a thread that looked before the   *)
(* mark holds the mutex, so the signal is still to come; and when it has gone *)
(* by, it was another thread of the task, one that has asked, that took it.   *)
WakeUp ==
  \A t \in Threads : handled[t] # NULL =>
    /\ pc[t] = "look" => main = "lock" /\ current.thread = t
    /\ pc[t] = "sleep" =>
         \/ main \in {"lock", "signal"} /\ current.thread = t
         \/ \E u \in Threads \ {t} : taskOf[u] = taskOf[t] /\ serial[u] > 0

(* Every step keeps track of where the wake-up is.                            *)
LEMMA WakeUpStep == TypeOK /\ Grip /\ WakeUp /\ [Next]_vars => WakeUp'
<1> USE PromptAssumption DEF Exported, Waiting, NoPrompt, Prompts, Goto, Lock, Unlock,
                             prompts, mainVars, calls, TypeOK, Grip, WakeUp
<1> SUFFICES ASSUME TypeOK, Grip, WakeUp, [Next]_vars PROVE WakeUp'
  OBVIOUS
<1>1. ASSUME NEW t \in Threads, Export(t) PROVE WakeUp'
  BY <1>1 DEF Export
<1>2. ASSUME NEW t \in Threads, ConnectAndEmit(t) PROVE WakeUp'
  BY <1>2 DEF ConnectAndEmit
<1>3. ASSUME NEW t \in Threads, LockMutex(t) PROVE WakeUp'
  BY <1>3 DEF LockMutex
<1>4. ASSUME NEW t \in Threads, CheckHandled(t) PROVE WakeUp'
  BY <1>4 DEF CheckHandled
<1>5. ASSUME NEW t \in Threads, LookAndSleep(t) PROVE WakeUp'
  BY <1>5 DEF LookAndSleep
<1>6. ASSUME NEW t \in Threads, WaitTimesOut(t) PROVE WakeUp'
  BY <1>6 DEF WaitTimesOut
<1>7. ASSUME NEW t \in Threads, Unexport(t) PROVE WakeUp'
  BY <1>7 DEF Unexport
<1>8. ASSUME NEW t \in Threads, SendCommit(t) PROVE WakeUp'
  BY <1>8 DEF SendCommit
<1>9. CASE DeliverCommit
  <2>1. main = "idle"
    BY <1>9 DEF DeliverCommit
  <2>2. UNCHANGED <<taskOf, pc, serial, handled>>
    BY <1>9 DEF DeliverCommit
  <2> QED
    BY <2>1, <2>2
<1>10. CASE MarkHandled
  BY <1>10 DEF MarkHandled
<1>11. CASE MainLocks
  BY <1>11 DEF MainLocks
<1>12. CASE SignalAndUnlock
  <2> DEFINE k == taskOf[current.thread]
  <2>1. main = "signal" /\ holder[k] = Main
    BY <1>12 DEF SignalAndUnlock
  <2>2. UNCHANGED <<taskOf, serial, handled>>
    BY <1>12 DEF SignalAndUnlock
  <2>3. CASE Sleepers(k) = {} /\ UNCHANGED pc
    BY <2>1, <2>2, <2>3 DEF Sleepers
  <2>4. ASSUME NEW u \in Sleepers(k), Goto(u, "woken") PROVE WakeUp'
    <3>1. u \in Threads /\ taskOf[u] = k /\ serial[u] > 0
      BY DEF Sleepers
    <3> QED
      BY <2>1, <2>2, <2>4, <3>1
  <2> QED
    BY <1>12, <2>3, <2>4 DEF SignalAndUnlock
<1>13. ASSUME NEW k \in Tasks, Cancel(k) PROVE WakeUp'
  BY <1>13 DEF Cancel
<1>14. CASE UNCHANGED vars
  BY <1>14 DEF vars
<1> QED
  BY <1>1, <1>2, <1>3, <1>4, <1>5, <1>6, <1>7, <1>8, <1>9, <1>10, <1>11, <1>12,
     <1>13, <1>14 DEF Next, ThreadStep, MainStep

(* No thread sleeps through its Commit, unless another thread of its task has *)
(* asked as well and may have been woken in its place.                        *)
THEOREM NotLost == Spec => []NoLostWakeup
<1>1. Init => WakeUp
  BY DEF Init, WakeUp
<1>2. WakeUp => NoLostWakeup
  BY DEF WakeUp, NoLostWakeup
<1> QED
  BY Typing, WakeUpStep, <1>1, <1>2, PTL DEF Spec

(* The calls that were sent are counted: a new one is none of them.           *)
Counted ==
  /\ IsFiniteSet(sent)
  /\ \A call \in sent : call.no <= Cardinality(sent)

\* No two prompts have a number in common, no two exported ones a path.
Distinct ==
  \A t \in Threads : \A u \in Threads \ {t} :
    /\ serial[t] = serial[u] => serial[t] = 0
    /\ pc[t] \in Exported /\ pc[u] \in Exported => path[t] # path[u]

\* A Commit that was meant for prompt m has reached the main thread.
Taken(m) == \E call \in sent \ wire : call.meant = m

\* A mark, and one about to be made, comes from such a call.
MarksAreTaken ==
  /\ \A t \in Threads : handled[t] # NULL => Taken(handled[t])
  /\ main # "idle" => Taken(current.meant)

\* What PathsSuffice asks of clients; once broken it is for good.
Quiet == ~Repeated /\ cancelled = {}

\* A call on its way finds the prompt it was meant for at its path.
Addressed ==
  /\ \A call \in wire : \E t \in Threads :
       pc[t] \in Exported /\ serial[t] = call.meant /\ path[t] = call.path
  /\ main # "idle" => current.serial = current.meant
  /\ \A t \in Threads : pc[t] = "unexport" => handled[t] # NULL
  /\ MarkedByItsClient

PathInv == Counted /\ Distinct /\ MarksAreTaken /\ (Quiet => Addressed)

(* A call that is sent was not sent before.                                   *)
LEMMA NewCall ==
  ASSUME TypeOK, Grip, Counted, NEW t \in Threads, SendCommit(t)
  PROVE  /\ Counted'
         /\ \E call \in Calls \ sent :
              /\ call.meant = serial[t] /\ call.path = path[t]
              /\ sent' = sent \cup {call} /\ wire' = wire \cup {call}
<1>1. PICK no \in 1 .. MaxCommits :
        /\ no = Cardinality(sent) + 1
        /\ LET call == [meant |-> serial[t], path |-> path[t], no |-> no]
           IN  sent' = sent \cup {call} /\ wire' = wire \cup {call}
  BY DEF SendCommit
<1> DEFINE call == [meant |-> serial[t], path |-> path[t], no |-> no]
<1>2. call \in Calls
  <2>1. serial[t] \in Prompts /\ path[t] \in Paths
    BY DEF SendCommit, TypeOK, Grip, Exported, Waiting
  <2> QED
    BY <2>1 DEF Calls
<1>3. Cardinality(sent) \in Nat
  BY FS_CardinalityType DEF Counted
<1>4. call \notin sent
  <2>1. call.no = Cardinality(sent) + 1
    BY <1>1
  <2>2. ~(Cardinality(sent) + 1 <= Cardinality(sent))
    BY <1>3
  <2> QED
    BY <2>1, <2>2 DEF Counted
<1>5. IsFiniteSet(sent') /\ Cardinality(sent') = Cardinality(sent) + 1
  BY <1>1, <1>4, FS_AddElement DEF Counted
<1>6. Counted'
  <2> SUFFICES ASSUME NEW d \in sent' PROVE d.no <= Cardinality(sent')
    BY <1>5 DEF Counted
  <2>1. CASE d = call
    BY <1>1, <1>3, <1>5, <2>1
  <2>2. CASE d \in sent
    <3>1. d.no \in Nat /\ d.no <= Cardinality(sent)
      BY <2>2, PromptAssumption DEF TypeOK, Calls, Counted
    <3> QED
      BY <1>3, <1>5, <3>1
  <2> QED
    BY <1>1, <2>1, <2>2
<1> QED
  BY <1>1, <1>2, <1>4, <1>6

(* Clients that were quiet so far go on or stop being so; the calls that were *)
(* taken stay taken.                                                          *)
LEMMA QuietBefore ==
  ASSUME TypeOK, Grip, Counted, [Next]_vars
  PROVE  /\ Quiet' => Quiet
         /\ \A m \in Prompts : Taken(m) => Taken(m)'
<1> USE DEF calls, Quiet, Repeated, Taken
<1>1. CASE UNCHANGED <<sent, wire>> /\ cancelled \subseteq cancelled'
  BY <1>1
<1>2. CASE DeliverCommit
  BY <1>2 DEF DeliverCommit
<1>3. ASSUME NEW t \in Threads, SendCommit(t)
      PROVE  (Quiet' => Quiet) /\ \A m \in Prompts : Taken(m) => Taken(m)'
  <2>1. PICK call \in Calls \ sent :
          sent' = sent \cup {call} /\ wire' = wire \cup {call}
    BY <1>3, NewCall
  <2>2. cancelled' = cancelled
    BY <1>3 DEF SendCommit
  <2> QED
    BY <2>1, <2>2
<1>4. ASSUME NEW t \in Threads, ThreadStep(t)
      PROVE  UNCHANGED <<sent, wire>> /\ cancelled \subseteq cancelled'
  BY <1>4 DEF ThreadStep, Export, ConnectAndEmit, LockMutex, CheckHandled, LookAndSleep,
              WaitTimesOut, Unexport
<1>5. ASSUME MarkHandled \/ MainLocks \/ SignalAndUnlock \/ UNCHANGED vars
      PROVE  UNCHANGED <<sent, wire>> /\ cancelled \subseteq cancelled'
  BY <1>5 DEF MarkHandled, MainLocks, SignalAndUnlock, vars
<1>6. ASSUME NEW k \in Tasks, Cancel(k)
      PROVE  UNCHANGED <<sent, wire>> /\ cancelled \subseteq cancelled'
  BY <1>6 DEF Cancel
<1> QED
  BY <1>1, <1>2, <1>3, <1>4, <1>5, <1>6 DEF Next, MainStep

(* A call is on its way while no other for its prompt has been taken.         *)
LEMMA NotTakenTwice ==
  ASSUME TypeOK, Quiet, NEW call \in wire
  PROVE  ~Taken(call.meant)
  BY DEF Quiet, Repeated, Taken, TypeOK

(* The numbers and the paths stay distinct: a new prompt has the next number  *)
(* and a free path, and no other step changes a number or a path.             *)
LEMMA DistinctStep == TypeOK /\ Distinct /\ [Next]_vars => Distinct'
<1> USE DEF TypeOK, Distinct, Exported, Waiting, Goto, prompts
<1> SUFFICES ASSUME TypeOK, Distinct, [Next]_vars PROVE Distinct'
  OBVIOUS
<1>1. ASSUME NEW t \in Threads, Export(t) PROVE Distinct'
  <2>1. PICK p \in Paths : FreePath(p) /\ path' = [path EXCEPT ![t] = p]
    BY <1>1 DEF Export
  <2>2. \A u \in Threads : pc[u] \in Exported => path[u] # p
    BY <2>1 DEF FreePath, UsedPaths
  <2>3. \A u \in Threads : serial[u] \in Nat /\ serial[u] < made + 1
    BY PromptAssumption
  <2>4. serial' = [serial EXCEPT ![t] = made + 1] /\ pc' = [pc EXCEPT ![t] = "connect"]
    BY <1>1 DEF Export
  <2>5. \A u \in Threads \ {t} : serial'[t] # serial'[u]
    BY <2>3, <2>4
  <2>6. \A u \in Threads \ {t} : pc'[u] \in Exported => path'[u] # path'[t]
    BY <2>1, <2>2, <2>4
  <2> QED
    BY <2>1, <2>4, <2>5, <2>6
<1>2. ASSUME UNCHANGED <<serial, path>>,
             \A t \in Threads : pc'[t] \in Exported => pc[t] \in Exported
      PROVE  Distinct'
  BY <1>2
<1>3. ASSUME NEW t \in Threads, ThreadStep(t), ~Export(t) PROVE Distinct'
  <2>1. /\ UNCHANGED <<serial, path>>
        /\ \A u \in Threads : pc'[u] \in Exported => pc[u] \in Exported
    BY <1>3 DEF ThreadStep, ConnectAndEmit, LockMutex, CheckHandled, LookAndSleep,
                WaitTimesOut, Unexport
  <2> QED
    BY <1>2, <2>1
<1>4. ASSUME \/ \E t \in Threads : SendCommit(t)
             \/ \E k \in Tasks : Cancel(k)
             \/ MainStep \/ UNCHANGED vars
      PROVE  Distinct'
  <2>1. /\ UNCHANGED <<serial, path>>
        /\ \A u \in Threads : pc'[u] \in Exported => pc[u] \in Exported
    BY <1>4 DEF SendCommit, Cancel, MainStep, DeliverCommit, MarkHandled, MainLocks,
                SignalAndUnlock, Sleepers, vars
  <2> QED
    BY <1>2, <2>1
<1> QED
  BY <1>1, <1>3, <1>4 DEF Next

(* Two prompts never have the same path or the same number, whichever threads *)
(* of whichever tasks export and unexport them: a path names one question at  *)
(* a time.                                                                    *)
THEOREM OwnPaths == Spec => []Distinct
<1>1. Init => Distinct
  BY DEF Init, Distinct, Exported, Waiting
<1> QED
  BY <1>1, Typing, DistinctStep, PTL DEF Spec

(* Among paths there is a first one.                                          *)
LEMMA LeastPath ==
  ASSUME NEW S \in SUBSET Paths, S # {}
  PROVE  \E p \in S : \A q \in S : p <= q
<1> DEFINE Below == {0 .. p : p \in S}
<1>1. /\ S \subseteq Nat /\ Below # {}
      /\ \A p \in S : 0 .. p \subseteq Nat /\ IsFiniteSet(0 .. p)
  <2>1. S \subseteq Nat
    BY FS_CardinalityType, PromptAssumption DEF Paths
  <2>2. ASSUME NEW p \in S PROVE 0 .. p \subseteq Nat /\ IsFiniteSet(0 .. p)
    BY <2>1, FS_Interval
  <2> QED
    BY <2>1, <2>2
<1>2. Below \subseteq FiniteSubsetsOf(Nat)
  BY <1>1 DEF FiniteSubsetsOf
<1>3. IsWellFoundedOn(StrictSubsetOrdering(Nat), FiniteSubsetsOf(Nat))
  BY FS_StrictSubsetOrderingWellFounded
<1> HIDE DEF Below
<1>4. PICK X \in Below : \A Y \in Below : <<Y, X>> \notin StrictSubsetOrdering(Nat)
  BY <1>1, <1>2, <1>3, WFMin
<1>5. PICK p \in S : X = 0 .. p
  BY DEF Below
<1>6. ASSUME NEW q \in S PROVE p <= q
  <2>1. <<0 .. q, 0 .. p>> \notin StrictSubsetOrdering(Nat)
    BY <1>4, <1>5 DEF Below
  <2>2. ~(0 .. q \subseteq 0 .. p /\ 0 .. q # 0 .. p)
    BY <1>1, <2>1 DEF StrictSubsetOrdering
  <2>3. q < p => 0 .. q \subseteq 0 .. p /\ p \in 0 .. p /\ p \notin 0 .. q
    BY <1>1
  <2> QED
    BY <1>1, <2>2, <2>3
<1> QED
  BY <1>6

(* Whenever a thread has a question there is a free path for it, so that      *)
(* export_uniquely finds one: no more than n threads ask at a time, and n     *)
(* paths are enough for them.                                                 *)
THEOREM RoomForAQuestion ==
  Spec => [](\A t \in Threads : pc[t] = "idle" => \E p \in Paths : FreePath(p))
<1>1. ASSUME TypeOK, NEW t \in Threads, pc[t] = "idle"
      PROVE  \E p \in Paths : FreePath(p)
  <2> DEFINE Askers == {u \in Threads : pc[u] \in Exported}
             at == [u \in Askers |-> path[u]]
  <2>1. IsFiniteSet(Askers) /\ Cardinality(Askers) < Cardinality(Threads)
    <3>1. Askers \in SUBSET Threads /\ Askers # Threads
      BY <1>1 DEF Exported, Waiting
    <3> HIDE DEF Askers
    <3> QED
      BY <3>1, FS_Subset, FS_CardinalityType, PromptAssumption
  <2>2. at \in Surjection(Askers, UsedPaths)
    BY DEF Surjection, UsedPaths
  <2>3. IsFiniteSet(UsedPaths) /\ Cardinality(UsedPaths) <= Cardinality(Askers)
    BY <2>1, <2>2, FS_Surjection
  <2>4. Cardinality(Paths) = Cardinality(Threads) /\ Cardinality(Threads) \in Nat
    <3>1. Cardinality(Threads) \in Nat \ {0}
      BY FS_CardinalityType, FS_EmptySet, PromptAssumption
    <3> QED
      BY <3>1, FS_Interval DEF Paths
  <2>5. Cardinality(UsedPaths) < Cardinality(Paths)
    BY <2>1, <2>3, <2>4, FS_CardinalityType
  <2>6. Paths \ UsedPaths # {}
    <3>1. Paths \subseteq UsedPaths => Cardinality(Paths) <= Cardinality(UsedPaths)
      BY <2>3, FS_Subset
    <3>2. Cardinality(UsedPaths) \in Nat
      BY <2>3, FS_CardinalityType
    <3> QED
      BY <2>4, <2>5, <3>1, <3>2
  <2>7. PICK p \in Paths \ UsedPaths : \A q \in Paths \ UsedPaths : p <= q
    BY <2>6, LeastPath
  <2>8. ASSUME NEW q \in 0 .. p - 1 PROVE q \in UsedPaths
    <3>1. q \in Paths /\ ~(p <= q)
      BY <2>4, <2>7 DEF Paths
    <3> QED
      BY <2>7, <3>1
  <2> QED
    BY <2>7, <2>8 DEF FreePath
<1>2. TypeOK => \A t \in Threads : pc[t] = "idle" => \E p \in Paths : FreePath(p)
  BY <1>1
<1> QED
  BY <1>2, Typing, PTL

(* A mark is made by a call that was taken when it was delivered.             *)
LEMMA MarksStep ==
  ASSUME TypeOK, Grip, Counted, MarksAreTaken, [Next]_vars
  PROVE  MarksAreTaken'
<1>1. \A m \in Prompts : Taken(m) => Taken(m)'
  BY QuietBefore
<1>2. \A t \in Threads : handled[t] # NULL => handled[t] \in Prompts
  BY DEF TypeOK
<1>3. main # "idle" => current.meant \in Prompts
  BY PromptAssumption DEF TypeOK, Grip, NoPrompt
<1>4. CASE /\ \A t \in Threads : handled'[t] \in {handled[t], NULL}
           /\ main' = "idle" \/ (main # "idle" /\ UNCHANGED current)
  BY <1>1, <1>2, <1>3, <1>4 DEF MarksAreTaken
<1>5. CASE DeliverCommit
  <2>1. PICK call \in wire :
          /\ wire' = wire \ {call}
          /\ \/ UNCHANGED mainVars
             \/ \E t \in Reached(call.path) :
                  current' = [thread |-> t, serial |-> serial[t], meant |-> call.meant]
    BY <1>5 DEF DeliverCommit
  <2>2. UNCHANGED <<handled, sent>> /\ main = "idle"
    BY <1>5 DEF DeliverCommit
  <2>3. (\A t \in Threads : handled[t] # NULL => Taken(handled[t]))'
    BY <1>1, <1>2, <2>2 DEF MarksAreTaken
  <2>4. CASE UNCHANGED mainVars
    BY <2>2, <2>3, <2>4 DEF MarksAreTaken, mainVars
  <2>5. CASE current'.meant = call.meant
    <3>1. call \in (sent \ wire)'
      BY <2>1, <2>2 DEF TypeOK
    <3>2. Taken(current.meant)'
      BY <2>5, <3>1 DEF Taken
    <3> QED
      BY <2>3, <3>2 DEF MarksAreTaken
  <2> QED
    BY <2>1, <2>4, <2>5
<1>6. CASE MarkHandled
  <2>1. \A t \in Threads : handled'[t] \in {handled[t], current.meant}
    BY <1>6 DEF MarkHandled, TypeOK
  <2>2. main # "idle" /\ UNCHANGED current
    BY <1>6 DEF MarkHandled
  <2> QED
    BY <1>1, <1>2, <1>3, <2>1, <2>2 DEF MarksAreTaken
<1>7. ASSUME NEW t \in Threads, ThreadStep(t) \/ SendCommit(t)
      PROVE  /\ \A u \in Threads : handled'[u] \in {handled[u], NULL}
             /\ UNCHANGED <<main, current>>
  BY <1>7 DEF ThreadStep, Export, ConnectAndEmit, LockMutex, CheckHandled, LookAndSleep,
              WaitTimesOut, Unexport, SendCommit, mainVars, TypeOK
<1>8. ASSUME (\E k \in Tasks : Cancel(k)) \/ MainLocks \/ SignalAndUnlock \/ UNCHANGED vars
      PROVE  /\ UNCHANGED handled
             /\ main' = "idle" \/ (main # "idle" /\ UNCHANGED current)
  BY <1>8 DEF Cancel, MainLocks, SignalAndUnlock, mainVars, vars, TypeOK
<1> QED
  BY <1>4, <1>5, <1>6, <1>7, <1>8 DEF Next, MainStep

(* While the clients are quiet, a call on its way keeps its prompt in place:  *)
(* the prompt could only go after a call for it was taken.                    *)
LEMMA AddressedStep ==
  ASSUME TypeOK, Grip, Counted, Distinct, MarksAreTaken, Quiet, cancelled' = {},
         Addressed, [Next]_vars
  PROVE  Addressed'
<1> USE PromptAssumption
<1> USE DEF TypeOK, Grip, Exported, Waiting, NoPrompt, Goto, prompts, mainVars, calls,
            Addressed, MarkedByItsClient
<1>1. ASSUME NEW t \in Threads, Export(t) PROVE Addressed'
  <2>1. /\ pc[t] = "idle" /\ pc' = [pc EXCEPT ![t] = "connect"]
        /\ serial' = [serial EXCEPT ![t] = made + 1]
        /\ \E p \in Paths : path' = [path EXCEPT ![t] = p]
        /\ handled' = [handled EXCEPT ![t] = NULL]
        /\ UNCHANGED <<wire, main, current>>
    BY <1>1 DEF Export
  <2>2. ASSUME NEW call \in wire'
        PROVE  \E u \in Threads :
                 pc'[u] \in Exported /\ serial'[u] = call.meant /\ path'[u] = call.path
    <3>1. PICK u \in Threads :
            pc[u] \in Exported /\ serial[u] = call.meant /\ path[u] = call.path
      BY <2>1, <2>2
    <3>2. u # t
      BY <2>1, <3>1
    <3> QED
      BY <2>1, <3>1, <3>2
  <2>3. \A u \in Threads : pc'[u] = "unexport" => handled'[u] # NULL
    BY <2>1
  <2>4. \A u \in Threads : handled'[u] \in {NULL, serial'[u]}
    BY <2>1
  <2> QED
    BY <2>1, <2>2, <2>3, <2>4
<1>2. ASSUME NEW t \in Threads,
             \/ ConnectAndEmit(t) \/ LockMutex(t) \/ CheckHandled(t) \/ LookAndSleep(t)
             \/ WaitTimesOut(t)
      PROVE  Addressed'
  <2>1. UNCHANGED <<serial, path, handled, wire, main, current>>
    BY <1>2 DEF ConnectAndEmit, LockMutex, CheckHandled, LookAndSleep, WaitTimesOut
  <2>2. \A u \in Threads : pc[u] \in Exported => pc'[u] \in Exported
    BY <1>2 DEF ConnectAndEmit, LockMutex, CheckHandled, LookAndSleep, WaitTimesOut
  <2>3. \A u \in Threads : pc'[u] = "unexport" => pc[u] = "unexport" \/ handled[u] # NULL
    BY <1>2 DEF ConnectAndEmit, LockMutex, CheckHandled, LookAndSleep, WaitTimesOut,
                GivesUp, Quiet
  <2> QED
    BY <2>1, <2>2, <2>3
<1>3. ASSUME NEW t \in Threads, Unexport(t) PROVE Addressed'
  <2>1. /\ pc[t] = "unexport" /\ pc' = [pc EXCEPT ![t] = "idle"]
        /\ handled' = [handled EXCEPT ![t] = NULL]
        /\ UNCHANGED <<serial, path, wire, main, current>>
    BY <1>3 DEF Unexport
  <2>2. Taken(serial[t])
    BY <2>1 DEF MarksAreTaken
  <2>3. ASSUME NEW call \in wire'
        PROVE  \E u \in Threads :
                 pc'[u] \in Exported /\ serial'[u] = call.meant /\ path'[u] = call.path
    <3>1. PICK u \in Threads :
            pc[u] \in Exported /\ serial[u] = call.meant /\ path[u] = call.path
      BY <2>1, <2>3
    <3>2. u # t
      BY <2>1, <2>2, <3>1, NotTakenTwice
    <3> QED
      BY <2>1, <3>1, <3>2
  <2> QED
    BY <2>1, <2>3
<1>4. ASSUME NEW t \in Threads, SendCommit(t) PROVE Addressed'
  <2>1. PICK call \in Calls \ sent :
          /\ call.meant = serial[t] /\ call.path = path[t] /\ wire' = wire \cup {call}
    BY <1>4, NewCall
  <2>2. pc[t] \in Exported /\ UNCHANGED <<pc, serial, path, handled, main, current>>
    BY <1>4 DEF SendCommit
  <2> QED
    BY <2>1, <2>2
<1>5. CASE DeliverCommit
  <2>1. PICK call \in wire :
          /\ wire' = wire \ {call}
          /\ \/ UNCHANGED mainVars
             \/ \E t \in Reached(call.path) :
                  current' = [thread |-> t, serial |-> serial[t], meant |-> call.meant]
    BY <1>5 DEF DeliverCommit
  <2>2. UNCHANGED <<pc, serial, path, handled>> /\ main = "idle"
    BY <1>5 DEF DeliverCommit
  <2>3. \A t \in Reached(call.path) : serial[t] = call.meant
    <3>1. PICK u \in Threads :
            pc[u] \in Exported /\ serial[u] = call.meant /\ path[u] = call.path
      OBVIOUS
    <3>2. \A t \in Reached(call.path) : t = u
      BY <3>1 DEF Reached, Distinct
    <3> QED
      BY <3>1, <3>2
  <2>4. main' # "idle" => current'.serial = current'.meant
    BY <2>1, <2>2, <2>3
  <2> QED
    BY <2>1, <2>2, <2>4
<1>6. CASE MarkHandled
  <2>1. /\ main # "idle" /\ UNCHANGED <<pc, serial, path, wire, current>>
        /\ \A t \in Threads :
             handled'[t] = handled[t]
             \/ (handled'[t] = current.meant /\ serial[t] = current.serial)
        /\ current.meant # NULL
    BY <1>6 DEF MarkHandled, Prompts
  <2> QED
    BY <2>1
<1>7. ASSUME (\E k \in Tasks : Cancel(k)) \/ UNCHANGED vars PROVE Addressed'
  BY <1>7 DEF Cancel, vars
<1>8. ASSUME MainLocks \/ SignalAndUnlock PROVE Addressed'
  <2>1. /\ UNCHANGED <<serial, path, handled, wire>>
        /\ main # "idle" /\ (main' = "idle" \/ UNCHANGED current)
    BY <1>8 DEF MainLocks, SignalAndUnlock
  <2>2. \A u \in Threads :
          /\ pc[u] \in Exported => pc'[u] \in Exported
          /\ pc'[u] = "unexport" => pc[u] = "unexport"
    BY <1>8 DEF MainLocks, SignalAndUnlock, Sleepers
  <2> QED
    BY <2>1, <2>2
<1> QED
  BY <1>1, <1>2, <1>3, <1>4, <1>5, <1>6, <1>7, <1>8 DEF Next, ThreadStep, MainStep

(* As long as no Commit is repeated and no task canceled, the path is enough  *)
(* to tell which prompt a Commit is for.                                      *)
THEOREM PathsAreEnough == Spec => []PathsSuffice
<1>1. Init => PathInv
  <2> SUFFICES ASSUME Init PROVE PathInv
    OBVIOUS
  <2>1. Counted
    BY FS_EmptySet DEF Init, Counted
  <2> QED
    BY <2>1 DEF Init, PathInv, Distinct, MarksAreTaken, Addressed, MarkedByItsClient,
                Exported, Waiting
<1>2. TypeOK /\ Grip /\ PathInv /\ [Next]_vars => PathInv'
  <2> SUFFICES ASSUME TypeOK, Grip, PathInv, [Next]_vars PROVE PathInv'
    OBVIOUS
  <2>1. Counted'
    <3>1. CASE UNCHANGED sent
      BY <3>1 DEF PathInv, Counted
    <3>2. ASSUME NEW t \in Threads, SendCommit(t) PROVE Counted'
      BY <3>2, NewCall DEF PathInv
    <3>3. UNCHANGED sent \/ \E t \in Threads : SendCommit(t)
      BY DEF Next, ThreadStep, Export, ConnectAndEmit, LockMutex, CheckHandled,
             LookAndSleep, WaitTimesOut, Unexport, Cancel, MainStep, DeliverCommit,
             MarkHandled, MainLocks, SignalAndUnlock, calls, vars
    <3> QED
      BY <3>1, <3>2, <3>3
  <2>2. Distinct' /\ MarksAreTaken'
    BY DistinctStep, MarksStep DEF PathInv
  <2>3. Quiet' => Addressed'
    BY QuietBefore, AddressedStep DEF PathInv, Quiet
  <2> QED
    BY <2>1, <2>2, <2>3 DEF PathInv
<1>3. PathInv => PathsSuffice
  BY DEF PathInv, Quiet, Addressed, PathsSuffice
<1> QED
  BY Typing, <1>1, <1>2, <1>3, PTL DEF Spec

(* The handshake implements the prompt that ReportdTask assumes: a thread     *)
(* leaves its loop only when its prompt was marked or its task canceled.      *)
THEOREM Implementation == Spec => ImplementsPrompting
<1> USE PromptAssumption
<1> DEFINE seen == [t \in Threads |-> promptOf(t)]
           gone == {t \in Threads : taskOf[t] \in cancelled}
<1>1. Init => Coarse!Init
  BY DEF Init, Coarse!Init, promptOf, Waiting
<1>2. TypeOK /\ Grip /\ [Next]_vars => [Coarse!Next]_(Coarse!promptVars)
  <2> SUFFICES ASSUME TypeOK, Grip, [Next]_vars
               PROVE  Coarse!Next \/ UNCHANGED Coarse!promptVars
    OBVIOUS
  <2> USE DEF TypeOK, Grip, Exported, Waiting, NoPrompt, Prompts, Goto, Lock, Unlock,
              prompts, mainVars, calls, promptOf
  <2>1. ASSUME NEW t \in Threads, Export(t) PROVE Coarse!Next
    <3>1. seen[t] = "none" /\ seen' = [seen EXCEPT ![t] = "open"]
      <4>1. /\ pc[t] = "idle"
            /\ pc' = [pc EXCEPT ![t] = "connect"]
            /\ handled' = [handled EXCEPT ![t] = NULL]
        BY <2>1 DEF Export
      <4>2. \A u \in Threads : promptOf(u)' = IF u = t THEN "open" ELSE promptOf(u)
        BY <4>1
      <4>3. seen[t] = "none"
        BY <4>1
      <4>4. seen' = [u \in Threads |-> IF u = t THEN "open" ELSE promptOf(u)]
        BY <4>2
      <4> HIDE DEF promptOf
      <4> QED
        BY <4>3, <4>4
    <3>2. gone' = gone
      BY <2>1 DEF Export
    <3> QED
      BY <3>1, <3>2 DEF Coarse!Next, Coarse!Ask
  <2>2. ASSUME NEW t \in Threads,
               \/ ConnectAndEmit(t) \/ LockMutex(t) \/ WaitTimesOut(t)
               \/ Unexport(t) \/ SendCommit(t)
        PROVE  UNCHANGED Coarse!promptVars
    <3>1. seen' = seen
      BY <2>2 DEF ConnectAndEmit, LockMutex, WaitTimesOut, Unexport, SendCommit
    <3>2. gone' = gone
      BY <2>2 DEF ConnectAndEmit, LockMutex, WaitTimesOut, Unexport, SendCommit
    <3> QED
      BY <3>1, <3>2 DEF Coarse!promptVars
  <2>3. ASSUME NEW t \in Threads, CheckHandled(t)
        PROVE  Coarse!Next \/ UNCHANGED Coarse!promptVars
    <3>1. gone' = gone
      BY <2>3 DEF CheckHandled
    <3>2. CASE handled[t] # NULL
      <4>1. seen[t] = "handled" /\ seen' = [seen EXCEPT ![t] = "none"]
        BY <2>3, <3>2 DEF CheckHandled
      <4> QED
        BY <3>1, <4>1 DEF Coarse!Next, Coarse!Return
    <3>3. CASE handled[t] = NULL
      <4>1. seen' = seen
        BY <2>3, <3>3 DEF CheckHandled
      <4> QED
        BY <3>1, <4>1 DEF Coarse!promptVars
    <3> QED
      BY <3>2, <3>3
  <2>4. ASSUME NEW t \in Threads, LookAndSleep(t)
        PROVE  Coarse!Next \/ UNCHANGED Coarse!promptVars
    <3>1. gone' = gone
      BY <2>4 DEF LookAndSleep
    <3>2. CASE GivesUp(t)
      <4>1. t \in gone
        BY <3>2 DEF GivesUp
      <4>2. seen[t] \in {"open", "handled"} /\ seen' = [seen EXCEPT ![t] = "none"]
        BY <2>4, <3>2 DEF LookAndSleep
      <4> QED
        BY <3>1, <4>1, <4>2 DEF Coarse!Next, Coarse!Return
    <3>3. CASE ~GivesUp(t)
      <4>1. seen' = seen
        BY <2>4, <3>3 DEF LookAndSleep
      <4> QED
        BY <3>1, <4>1 DEF Coarse!promptVars
    <3> QED
      BY <3>2, <3>3
  <2>5. CASE DeliverCommit
    <3>1. seen' = seen /\ gone' = gone
      BY <2>5 DEF DeliverCommit
    <3> QED
      BY <3>1 DEF Coarse!promptVars
  <2>6. CASE MarkHandled
    <3> DEFINE t == current.thread
    <3>1. gone' = gone
      BY <2>6 DEF MarkHandled
    <3>2. t \in Threads /\ current.meant \in Prompts /\ current.meant # NULL
      BY <2>6 DEF MarkHandled
    <3>3. CASE seen[t] = "open" /\ serial[t] = current.serial
      <4>1. seen' = [seen EXCEPT ![t] = "handled"]
        BY <2>6, <3>2, <3>3 DEF MarkHandled
      <4> QED
        BY <3>1, <3>2, <3>3, <4>1 DEF Coarse!Next, Coarse!Commit
    <3>4. CASE ~(seen[t] = "open" /\ serial[t] = current.serial)
      <4>1. seen' = seen
        BY <2>6, <3>2, <3>4 DEF MarkHandled
      <4> QED
        BY <3>1, <4>1 DEF Coarse!promptVars
    <3> QED
      BY <3>3, <3>4
  <2>7. CASE MainLocks
    <3>1. seen' = seen /\ gone' = gone
      BY <2>7 DEF MainLocks
    <3> QED
      BY <3>1 DEF Coarse!promptVars
  <2>8. CASE SignalAndUnlock
    <3>1. gone' = gone
      BY <2>8 DEF SignalAndUnlock
    <3>2. seen' = seen
      BY <2>8 DEF SignalAndUnlock, Sleepers
    <3> QED
      BY <3>1, <3>2 DEF Coarse!promptVars
  <2>9. ASSUME NEW k \in Tasks, Cancel(k) PROVE Coarse!Next
    <3>1. seen' = seen
      BY <2>9 DEF Cancel
    <3>2. gone' \in {S \in SUBSET Threads : gone \subseteq S}
      BY <2>9 DEF Cancel
    <3> QED
      BY <3>1, <3>2 DEF Coarse!Next, Coarse!Cancel
  <2>10. CASE UNCHANGED vars
    BY <2>10 DEF vars, Coarse!promptVars
  <2> QED
    BY <2>1, <2>2, <2>3, <2>4, <2>5, <2>6, <2>7, <2>8, <2>9, <2>10
       DEF Next, ThreadStep, MainStep
<1> QED
  BY Typing, <1>1, <1>2, PTL DEF Spec, ImplementsPrompting, Coarse!Spec

-----------------------------------------------------------------------------
(* Why a wait comes to its end.                                               *)

\* Somebody has committed t's prompt, or canceled its task.
Nudged(t) == handled[t] # NULL \/ taskOf[t] \in cancelled

(* How far it is out of the loop.  A thread that looks at the cancellable     *)
(* when only its prompt is marked sleeps one more time.                       *)
WayOut(t) ==
  CASE pc[t] = "connect" -> 7
    [] pc[t] = "look" /\ taskOf[t] \notin cancelled -> 6
    [] pc[t] = "sleep" -> 5
    [] pc[t] \in {"lock", "woken"} -> 4
    [] pc[t] = "check" -> 3
    [] OTHER -> 2

\* A thread that has a reason to leave keeps it and gets closer, or has left.
LeavesSoon(t) ==
  Nudged(t) /\ pc[t] \in Waiting =>
    \/ pc'[t] \notin Waiting
    \/ /\ Nudged(t)'
       /\ IF pc'[t] = pc[t] THEN WayOut(t)' <= WayOut(t) ELSE WayOut(t)' < WayOut(t)

(* The loop of emit_prompt is left within five steps of the thread once its   *)
(* prompt is marked or its task canceled: it does not sleep a second time,    *)
(* and neither a wake-up that went to another thread nor anything the main    *)
(* thread or the other threads do sends it back.                              *)
THEOREM WaitsRunOut == Spec => [][\A t \in Threads : LeavesSoon(t)]_vars
<1>1. TypeOK /\ Grip /\ [Next]_vars => [\A t \in Threads : LeavesSoon(t)]_vars
  <2> SUFFICES ASSUME TypeOK, Grip, Next, NEW t \in Threads PROVE LeavesSoon(t)
    BY DEF vars
  <2> USE DEF TypeOK, Grip, LeavesSoon, Nudged, WayOut, Exported, Waiting, Goto, prompts,
              mainVars, calls
  <2>1. ASSUME UNCHANGED taskOf, cancelled \subseteq cancelled', pc'[t] = pc[t],
               handled'[t] = handled[t] \/ handled'[t] # NULL
        PROVE  LeavesSoon(t)
    BY <2>1
  <2>2. CASE Export(t) \/ ConnectAndEmit(t) \/ LockMutex(t) \/ WaitTimesOut(t) \/ Unexport(t)
    BY <2>2 DEF Export, ConnectAndEmit, LockMutex, WaitTimesOut, Unexport
  <2>3. CASE CheckHandled(t)
    BY <2>3 DEF CheckHandled
  <2>4. CASE LookAndSleep(t)
    BY <2>4 DEF LookAndSleep, GivesUp
  <2>5. ASSUME NEW u \in Threads \ {t}, ThreadStep(u) PROVE LeavesSoon(t)
    BY <2>1, <2>5 DEF ThreadStep, Export, ConnectAndEmit, LockMutex, CheckHandled,
                      LookAndSleep, WaitTimesOut, Unexport
  <2>6. ASSUME NEW u \in Threads, SendCommit(u) PROVE LeavesSoon(t)
    BY <2>1, <2>6 DEF SendCommit
  <2>7. ASSUME NEW k \in Tasks, Cancel(k) PROVE LeavesSoon(t)
    BY <2>1, <2>7 DEF Cancel
  <2>8. CASE DeliverCommit \/ MainLocks
    BY <2>1, <2>8 DEF DeliverCommit, MainLocks
  <2>9. CASE MarkHandled
    <3>1. current.meant # NULL
      BY <2>9, PromptAssumption DEF MarkHandled, NoPrompt, Prompts
    <3> QED
      BY <2>1, <2>9, <3>1 DEF MarkHandled
  <2>10. CASE SignalAndUnlock
    BY <2>10 DEF SignalAndUnlock, Sleepers
  <2> QED
    BY <2>2, <2>3, <2>4, <2>5, <2>6, <2>7, <2>8, <2>9, <2>10 DEF Next, ThreadStep, MainStep
<1> QED
  BY <1>1, Typing, PTL DEF Spec
==============================================================================
