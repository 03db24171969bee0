------------------------- MODULE ReportdTask_proofs -------------------------
(***************************************************************************)
(* What is proved of ReportdTask for every set of Start calls, every       *)
(* workflow and every exit code.                                           *)
(***************************************************************************)
EXTENDS ReportdTask, TLAPS

(* The bounds of the counters are numbers.                                  *)
LEMMA BoundsAreNatural == Len(Chain) \in Nat /\ MaxCommands \in Nat /\ MaxPrompts \in Nat
  BY TaskAssumption

(* Every variable keeps its type, whatever the clients do.                  *)
THEOREM Typing == Spec => []TypeOK
<1> USE TaskAssumption, BoundsAreNatural
<1>1. Init => TypeOK
  <2> SUFFICES ASSUME Init PROVE TypeOK
    OBVIOUS
  <2>1. /\ ev \in [Runs -> 0 .. Len(Chain)]
        /\ cmds \in [Runs -> 0 .. MaxCommands]
        /\ asked \in [Runs -> 0 .. MaxPrompts]
    BY DEF Init
  <2>2. codes \in [Runs -> Seq(ExitCodes)]
    BY DEF Init
  <2>3. QED
    BY <2>1, <2>2 DEF Init, TypeOK, Statuses, Lines
<1>2. TypeOK /\ [Next]_vars => TypeOK'
  <2> SUFFICES ASSUME TypeOK, [Next]_vars PROVE TypeOK'
    OBVIOUS
  <2> USE DEF vars, shared, handler, event, command, question, outcome, history,
              Statuses, Lines, At, Goto, MainIdle
  <2>1. ASSUME NEW r \in Runs, HandleStart(r) PROVE TypeOK'
    BY <2>1 DEF TypeOK, HandleStart
  <2>2. ASSUME NEW r \in Runs, HandleCommit(r) PROVE TypeOK'
    BY <2>2 DEF TypeOK, HandleCommit
  <2>3. ASSUME NEW r \in Runs, OnFinished(r) PROVE TypeOK'
    BY <2>3 DEF TypeOK, OnFinished, FinalStatus
  <2>4. CASE HandleCancel
    BY <2>4 DEF TypeOK, HandleCancel
  <2>5. CASE CancelLoad
    BY <2>5 DEF TypeOK, CancelLoad
  <2>6. CASE CancelTest
    BY <2>6 DEF TypeOK, CancelTest
  <2>7. CASE CancelKill
    <3>1. \/ UNCHANGED child
          \/ child' = [child EXCEPT ![runState] = IF @ = "running" THEN "killed" ELSE @]
      BY <2>7 DEF CancelKill
    <3>2. child' \in [Runs -> {"none", "running", "killed", "exited"}]
      <4>1. child \in [Runs -> {"none", "running", "killed", "exited"}]
        BY DEF TypeOK
      <4>2. QED
        BY ONLY <3>1, <4>1
    <3>3. QED
      BY <2>7, <3>2 DEF TypeOK, CancelKill
  <2>8. ASSUME NEW r \in Runs, FetchDirectory(r) PROVE TypeOK'
    BY <2>8 DEF TypeOK, FetchDirectory
  <2>9. ASSUME NEW r \in Runs, AllocRunState(r) PROVE TypeOK'
    BY <2>9 DEF TypeOK, AllocRunState
  <2>10. ASSUME NEW r \in Runs, Configure(r) PROVE TypeOK'
    BY <2>10 DEF TypeOK, Configure
  <2>11. ASSUME NEW r \in Runs, EntryCheck(r) PROVE TypeOK'
    BY <2>11 DEF TypeOK, EntryCheck, ReturnErrorIfCancelled
  <2>12. ASSUME NEW r \in Runs, BeginChain(r) PROVE TypeOK'
    BY <2>12 DEF TypeOK, BeginChain
  <2>13. ASSUME NEW r \in Runs, NextEvent(r) PROVE TypeOK'
    <3>1. HasNext(r) => ev[r] + 1 \in 0 .. Len(Chain)
      BY DEF TypeOK, HasNext
    <3>2. ev' \in [Runs -> 0 .. Len(Chain)]
      BY <2>13, <3>1 DEF TypeOK, NextEvent
    <3>3. QED
      BY <2>13, <3>2 DEF TypeOK, NextEvent
  <2>14. ASSUME NEW r \in Runs, PrepareCommands(r) PROVE TypeOK'
    BY <2>14 DEF TypeOK, PrepareCommands
  <2>15. ASSUME NEW r \in Runs, SpawnCommand(r) PROVE TypeOK'
    <3>1. cmds[r] < MaxCommands => cmds[r] + 1 \in 0 .. MaxCommands
      BY DEF TypeOK
    <3>2. cmds' \in [Runs -> 0 .. MaxCommands]
      BY <2>15, <3>1 DEF TypeOK, SpawnCommand
    <3>3. child' \in [Runs -> {"none", "running", "killed", "exited"}]
      BY <2>15 DEF TypeOK, SpawnCommand
    <3>4. QED
      BY <2>15, <3>2, <3>3 DEF TypeOK, SpawnCommand
  <2>16. ASSUME NEW r \in Runs, AskPrompt(r) PROVE TypeOK'
    <3>1. asked[r] + 1 \in 0 .. MaxPrompts
      BY <2>16 DEF TypeOK, AskPrompt
    <3>2. asked' \in [Runs -> 0 .. MaxPrompts]
      BY <2>16, <3>1 DEF TypeOK, AskPrompt
    <3>3. QED
      BY <2>16, <3>2 DEF TypeOK, AskPrompt
  <2>17. ASSUME NEW r \in Runs, PromptReturns(r) PROVE TypeOK'
    BY <2>17 DEF TypeOK, PromptReturns
  <2>18. ASSUME NEW r \in Runs, ConsumeOutput(r) PROVE TypeOK'
    <3>1. retval' \in [Runs -> ExitCodes \cup {NULL}]
      BY <2>18 DEF TypeOK, ConsumeOutput
    <3>2. pc' \in [Runs -> Lines]
      BY <2>18 DEF TypeOK, ConsumeOutput
    <3>3. QED
      BY <2>18, <3>1, <3>2 DEF TypeOK, ConsumeOutput
  <2>19. ASSUME NEW r \in Runs, SettleEvent(r) PROVE TypeOK'
    <3>1. Reported(r) \subseteq ExitCodes
      BY DEF TypeOK, Reported
    <3>2. codes' \in [Runs -> Seq(ExitCodes)]
      BY <2>19, <3>1 DEF TypeOK, SettleEvent
    <3>3. QED
      BY <2>19, <3>2 DEF TypeOK, SettleEvent
  <2>20. ASSUME NEW r \in Runs, PushCheck(r) PROVE TypeOK'
    BY <2>20 DEF TypeOK, PushCheck, ReturnErrorIfCancelled
  <2>21. ASSUME NEW r \in Runs, PushDirectory(r) PROVE TypeOK'
    BY <2>21 DEF TypeOK, PushDirectory
  <2>22. ASSUME NEW r \in Runs, Cleanup(r) PROVE TypeOK'
    BY <2>22 DEF TypeOK, Cleanup
  <2>23. ASSUME NEW r \in Runs, WorkerFault(r) PROVE TypeOK'
    BY <2>23 DEF TypeOK, WorkerFault
  <2>24. CASE Crashed \/ UNCHANGED vars
    BY <2>24 DEF TypeOK, Crashed
  <2>25. QED
    BY <2>1, <2>2, <2>3, <2>4, <2>5, <2>6, <2>7, <2>8, <2>9, <2>10, <2>11, <2>12,
       <2>13, <2>14, <2>15, <2>16, <2>17, <2>18, <2>19, <2>20, <2>21, <2>22,
       <2>23, <2>24 DEF Next, MainStep, WorkerStep
<1>3. QED
  BY <1>1, <1>2, PTL DEF Spec

-----------------------------------------------------------------------------
(* A success is earned.                                                     *)

Before == {"unstarted", "fetch", "allocate", "configure", "entry", "begin"}
InEvent == {"prepare", "spawn", "consume", "settle"}
After == {"cleanup", "returned", "done"}

(* SuccessIsEarned does not say where a run stands in its chain.  This does: *)
(* how many codes it has settled at each line, that they all passed as long  *)
(* as it goes on, and that only the push line gives it the result "ok".      *)
Earned(r) ==
  /\ pc[r] \in Before => ev[r] = 0 /\ Len(codes[r]) = 0 /\ r \notin begun
  /\ pc[r] \in {"next", "pushcheck", "push"} => Len(codes[r]) = ev[r]
  /\ pc[r] \in {"pushcheck", "push"} => ev[r] = Len(Chain)
  /\ pc[r] \in InEvent => Len(codes[r]) + 1 = ev[r]
  /\ pc[r] \in Chained => r \in begun
  /\ pc[r] \notin After =>
       /\ r \notin pushed
       /\ result[r] = "none"
       /\ \A i \in 1 .. Len(codes[r]) : EventPassed(r, i)
  /\ pc[r] \in After => result[r] # "none"
  /\ result[r] = "ok" => r \in pushed
  /\ r \in pushed => r \in begun /\ ChainPassed(r)
  /\ pc[r] = "unstarted" <=> reply[r] = "none"
  /\ pc[r] = "done" <=> reply[r] \in {"success", "error"}
  /\ reply[r] = "success" => r \in pushed

EarnedInv == \A r \in Runs : Earned(r)

\* What a step leaves alone of run q, as far as Earned(q) tells.
SameRun(q) ==
  /\ pc'[q] = pc[q] /\ ev'[q] = ev[q] /\ codes'[q] = codes[q]
  /\ result'[q] = result[q] /\ reply'[q] = reply[q]
  /\ q \in pushed' <=> q \in pushed
  /\ q \in begun' <=> q \in begun

(* A step that leaves a run alone leaves what it has earned.                *)
LEMMA SameRunEarned ==
  ASSUME NEW q \in Runs, Earned(q), SameRun(q)
  PROVE  Earned(q)'
BY DEF Earned, SameRun, EventPassed, ChainPassed, Before, InEvent, After, Chained

(* A thread's step leaves the other runs alone.                             *)
LEMMA OthersSame ==
  ASSUME TypeOK, NEW r \in Runs, WorkerStep(r), NEW q \in Runs \ {r}
  PROVE  SameRun(q)
<1> USE DEF TypeOK, SameRun, Goto, shared, handler, event, command, question, outcome,
            history
<1>1. CASE FetchDirectory(r) \/ AllocRunState(r) \/ Configure(r)
  BY <1>1 DEF FetchDirectory, AllocRunState, Configure
<1>2. CASE EntryCheck(r) \/ BeginChain(r) \/ NextEvent(r)
  BY <1>2 DEF EntryCheck, ReturnErrorIfCancelled, BeginChain, NextEvent
<1>3. CASE PrepareCommands(r) \/ SpawnCommand(r) \/ AskPrompt(r) \/ PromptReturns(r)
  BY <1>3 DEF PrepareCommands, SpawnCommand, AskPrompt, PromptReturns
<1>4. CASE ConsumeOutput(r)
  BY <1>4 DEF ConsumeOutput
<1>5. CASE SettleEvent(r)
  BY <1>5 DEF SettleEvent
<1>6. CASE PushCheck(r) \/ PushDirectory(r) \/ Cleanup(r) \/ WorkerFault(r)
  BY <1>6 DEF PushCheck, ReturnErrorIfCancelled, PushDirectory, Cleanup, WorkerFault
<1>7. QED
  BY <1>1, <1>2, <1>3, <1>4, <1>5, <1>6 DEF WorkerStep

(* A thread's step leaves its own run earning what its line says.           *)
LEMMA StepEarned ==
  ASSUME TypeOK, NEW r \in Runs, Earned(r), WorkerStep(r)
  PROVE  Earned(r)'
<1> USE DEF TypeOK, Earned, ChainPassed, EventPassed, Before, InEvent, After, Chained,
            Lines, At, Goto, shared, handler, event, command, question, outcome, history
<1>1. CASE FetchDirectory(r)
  BY <1>1 DEF FetchDirectory
<1>2. CASE AllocRunState(r)
  BY <1>2 DEF AllocRunState
<1>3. CASE Configure(r)
  BY <1>3 DEF Configure
<1>4. CASE EntryCheck(r)
  BY <1>4 DEF EntryCheck, ReturnErrorIfCancelled
<1>5. CASE BeginChain(r)
  BY <1>5 DEF BeginChain
<1>6. CASE NextEvent(r)
  <2>1. /\ pc[r] = "next" /\ UNCHANGED <<codes, reply, pushed, begun>>
        /\ \/ ev[r] >= Len(Chain) /\ Goto(r, "pushcheck") /\ UNCHANGED <<ev, result>>
           \/ /\ Goto(r, "cleanup") /\ result' = [result EXCEPT ![r] = "error"]
              /\ UNCHANGED ev
           \/ /\ ev[r] < Len(Chain) /\ Goto(r, "prepare")
              /\ ev' = [ev EXCEPT ![r] = @ + 1] /\ UNCHANGED result
    BY <1>6, BoundsAreNatural DEF NextEvent, HasNext
  <2>2. CASE ev[r] >= Len(Chain) /\ Goto(r, "pushcheck") /\ UNCHANGED <<ev, result>>
    BY <2>1, <2>2, BoundsAreNatural
  <2>3. CASE Goto(r, "cleanup") /\ result' = [result EXCEPT ![r] = "error"] /\ UNCHANGED ev
    BY <2>1, <2>3
  <2>4. CASE /\ ev[r] < Len(Chain) /\ Goto(r, "prepare")
             /\ ev' = [ev EXCEPT ![r] = @ + 1] /\ UNCHANGED result
    BY <2>1, <2>4, BoundsAreNatural
  <2>5. QED
    BY <2>1, <2>2, <2>3, <2>4
<1>7. CASE PrepareCommands(r)
  BY <1>7 DEF PrepareCommands
<1>8. CASE SpawnCommand(r)
  BY <1>8 DEF SpawnCommand
<1>9. CASE AskPrompt(r)
  BY <1>9 DEF AskPrompt
<1>10. CASE PromptReturns(r)
  BY <1>10 DEF PromptReturns
<1>11. CASE ConsumeOutput(r)
  BY <1>11 DEF ConsumeOutput
<1>12. CASE SettleEvent(r)
  <2>1. PICK code \in Reported(r) :
          /\ codes' = [codes EXCEPT ![r] = Append(@, code)]
          /\ \/ Goto(r, "cleanup") /\ result' = [result EXCEPT ![r] = "error"]
             \/ Passes(r, code) /\ Goto(r, "next") /\ UNCHANGED result
    BY <1>12 DEF SettleEvent
  <2>2. code \in ExitCodes /\ codes[r] \in Seq(ExitCodes)
    BY DEF Reported
  <2>3. codes'[r] = Append(codes[r], code)
    BY <2>1
  <2>4. /\ Len(codes'[r]) = ev[r]
        /\ \A i \in 1 .. Len(codes[r]) : codes'[r][i] = codes[r][i]
        /\ codes'[r][ev[r]] = code
    BY <1>12, <2>2, <2>3 DEF SettleEvent
  <2>5. /\ pc[r] = "settle" /\ ev' = ev /\ reply' = reply /\ pushed' = pushed
        /\ begun' = begun
    BY <1>12 DEF SettleEvent
  <2>6. CASE Goto(r, "cleanup") /\ result' = [result EXCEPT ![r] = "error"]
    BY <2>5, <2>6
  <2>7. CASE Passes(r, code) /\ Goto(r, "next") /\ UNCHANGED result
    <3>1. code = 0 \/ (code = 70 /\ Chain[ev[r]] = "report_uReport")
      BY <2>2, <2>7, TaskAssumption DEF Passes, Corrected
    <3>2. \A i \in 1 .. Len(codes'[r]) : EventPassed(r, i)'
      <4> SUFFICES ASSUME NEW i \in 1 .. Len(codes'[r]) PROVE EventPassed(r, i)'
        OBVIOUS
      <4>1. CASE i = ev[r]
        BY <2>4, <3>1, <4>1
      <4>2. CASE i # ev[r]
        <5>1. i \in 1 .. Len(codes[r])
          BY <2>2, <2>4, <2>5, <4>2
        <5>2. QED
          BY <2>4, <2>5, <5>1
      <4>3. QED
        BY <4>1, <4>2
    <3>3. QED
      BY <2>4, <2>5, <2>7, <3>2
  <2>8. QED
    BY <2>1, <2>6, <2>7
<1>13. CASE PushCheck(r)
  BY <1>13 DEF PushCheck, ReturnErrorIfCancelled
<1>14. CASE PushDirectory(r)
  BY <1>14 DEF PushDirectory
<1>15. CASE Cleanup(r)
  BY <1>15 DEF Cleanup
<1>16. CASE WorkerFault(r)
  BY <1>16 DEF WorkerFault
<1>17. QED
  BY <1>1, <1>2, <1>3, <1>4, <1>5, <1>6, <1>7, <1>8, <1>9, <1>10, <1>11, <1>12,
     <1>13, <1>14, <1>15, <1>16 DEF WorkerStep

(* So does a step of the main thread.                                       *)
LEMMA MainStepEarned ==
  ASSUME TypeOK, EarnedInv, MainStep
  PROVE  EarnedInv'
<1> SUFFICES ASSUME NEW q \in Runs PROVE Earned(q)'
  BY DEF EarnedInv
<1> USE DEF EarnedInv, MainIdle, shared, handler, event, command, question, outcome,
            history
<1>1. ASSUME NEW r \in Runs, HandleStart(r) PROVE Earned(q)'
  <2>1. CASE r # q
    BY <1>1, <2>1, SameRunEarned DEF TypeOK, HandleStart, SameRun
  <2>2. CASE r = q
    <3>1. /\ pc[q] = "unstarted" /\ pc'[q] = "fetch" /\ reply'[q] = "pending"
          /\ UNCHANGED <<ev, codes, result, pushed, begun>>
      BY <1>1, <2>2 DEF TypeOK, HandleStart
    <3>2. Earned(q)
      OBVIOUS
    <3>3. QED
      BY <3>1, <3>2 DEF Earned, EventPassed, ChainPassed, Before, InEvent, After, Chained
  <2>3. QED
    BY <2>1, <2>2
<1>2. ASSUME NEW r \in Runs, HandleCommit(r) PROVE Earned(q)'
  BY <1>2, SameRunEarned DEF HandleCommit, SameRun
<1>3. ASSUME NEW r \in Runs, OnFinished(r) PROVE Earned(q)'
  <2>1. CASE r # q
    BY <1>3, <2>1, SameRunEarned DEF TypeOK, OnFinished, SameRun
  <2>2. CASE r = q
    BY <1>3, <2>2 DEF TypeOK, OnFinished, HadError, Earned, EventPassed, ChainPassed,
                      Before, InEvent, After, Chained, Lines
  <2>3. QED
    BY <2>1, <2>2
<1>4. CASE HandleCancel \/ CancelLoad \/ CancelTest \/ CancelKill
  BY <1>4, SameRunEarned DEF HandleCancel, CancelLoad, CancelTest, CancelKill, SameRun
<1>5. QED
  BY <1>1, <1>2, <1>3, <1>4 DEF MainStep

(* What each run has earned is an invariant.                                *)
THEOREM Earning == Spec => []EarnedInv
<1>1. Init => EarnedInv
  <2> SUFFICES ASSUME Init, NEW r \in Runs PROVE Earned(r)
    BY DEF EarnedInv
  <2>1. ev[r] = 0 /\ codes[r] = << >> /\ pc[r] = "unstarted" /\ r \notin begun
    BY DEF Init
  <2>2. Len(codes[r]) = 0
    BY <2>1
  <2>3. QED
    BY <2>1, <2>2 DEF Init, Earned, EventPassed, InEvent, After, Chained
<1>2. TypeOK /\ EarnedInv /\ [Next]_vars => EarnedInv'
  <2> SUFFICES ASSUME TypeOK, EarnedInv, [Next]_vars PROVE EarnedInv'
    OBVIOUS
  <2>1. CASE MainStep
    BY <2>1, MainStepEarned
  <2>2. ASSUME NEW r \in Runs, WorkerStep(r) PROVE EarnedInv'
    <3> SUFFICES ASSUME NEW q \in Runs PROVE Earned(q)'
      BY DEF EarnedInv
    <3>1. CASE q # r
      BY <2>2, <3>1, OthersSame, SameRunEarned DEF EarnedInv
    <3>2. CASE q = r
      BY <2>2, <3>2, StepEarned DEF EarnedInv
    <3>3. QED
      BY <3>1, <3>2
  <2>3. CASE Crashed \/ UNCHANGED vars
    BY <2>3, SameRunEarned DEF EarnedInv, Crashed, SameRun, vars, event, outcome, history
  <2>4. QED
    BY <2>1, <2>2, <2>3 DEF Next
<1>3. QED
  BY <1>1, <1>2, Typing, PTL DEF Spec

(* A directory is pushed, and Start answered with a success, only by a run   *)
(* that passed every event of its chain (run_event_chain, lines 127-191),    *)
(* however many calls overlap.                                              *)
THEOREM Success == Spec => []SuccessIsEarned
<1>1. TypeOK /\ EarnedInv => SuccessIsEarned
  BY DEF TypeOK, EarnedInv, Earned, SuccessIsEarned
<1>2. QED
  BY <1>1, Typing, Earning, PTL

-----------------------------------------------------------------------------
(* A canceled task goes no further.                                         *)

(* No event is entered, no push begun and no success answered after Cancel   *)
(* (the checks at lines 152, 159, 480 and 494, and GTask's own at 405).      *)
THEOREM CancelStops == Spec => CancelStopsProgress
<1> DEFINE Stops(r) == /\ ev'[r] = ev[r]
                       /\ pc'[r] = "push" => pc[r] = "push"
                       /\ reply'[r] = "success" => reply[r] = "success"
<1>1. TypeOK /\ [Next]_vars => [cancelled => \A r \in Runs : Stops(r)]_vars
  <2> SUFFICES ASSUME TypeOK, cancelled, Next, NEW q \in Runs PROVE Stops(q)
    OBVIOUS
  <2> USE DEF TypeOK, At, Goto, MainIdle, shared, handler, event, command, question,
              outcome, history
  <2>1. ASSUME NEW r \in Runs, HandleStart(r) \/ HandleCommit(r) \/ OnFinished(r)
        PROVE  Stops(q)
    BY <2>1 DEF HandleStart, HandleCommit, OnFinished, HadError
  <2>2. CASE HandleCancel \/ CancelLoad \/ CancelTest \/ CancelKill
    BY <2>2 DEF HandleCancel, CancelLoad, CancelTest, CancelKill
  <2>3. ASSUME NEW r \in Runs, WorkerStep(r) PROVE Stops(q)
    <3>1. CASE FetchDirectory(r) \/ AllocRunState(r) \/ Configure(r)
      BY <3>1 DEF FetchDirectory, AllocRunState, Configure
    <3>2. CASE EntryCheck(r) \/ BeginChain(r) \/ NextEvent(r)
      BY <3>2 DEF EntryCheck, ReturnErrorIfCancelled, BeginChain, NextEvent, StopsChain
    <3>3. CASE PrepareCommands(r) \/ SpawnCommand(r)
      BY <3>3 DEF PrepareCommands, SpawnCommand
    <3>4. CASE AskPrompt(r) \/ PromptReturns(r) \/ ConsumeOutput(r)
      BY <3>4 DEF AskPrompt, PromptReturns, ConsumeOutput
    <3>5. CASE SettleEvent(r)
      BY <3>5 DEF SettleEvent
    <3>6. CASE PushCheck(r) \/ PushDirectory(r) \/ Cleanup(r) \/ WorkerFault(r)
      BY <3>6 DEF PushCheck, ReturnErrorIfCancelled, PushDirectory, Cleanup, WorkerFault
    <3>7. QED
      BY <2>3, <3>1, <3>2, <3>3, <3>4, <3>5, <3>6 DEF WorkerStep
  <2>4. CASE Crashed
    BY <2>4 DEF Crashed, vars
  <2>5. QED
    BY <2>1, <2>2, <2>3, <2>4 DEF Next, MainStep
<1>2. QED
  BY <1>1, Typing, PTL DEF Spec, CancelStopsProgress

-----------------------------------------------------------------------------
(* The task implements TaskApi: what clients can see of it is what TaskApi   *)
(* allows.  The mapping is the identity, and the steps of TaskApi are those  *)
(* of handle_start (515-532), line 485, handle_cancel (534-555) and          *)
(* on_finished (386-434); every other step is a stuttering one.              *)

(* The main thread's steps.                                                 *)
LEMMA MainImplements ==
  ASSUME TypeOK, EarnedInv, MainStep
  PROVE  [Api!Next]_(Api!apiVars)
<1> USE DEF TypeOK, EarnedInv, Earned, After, MainIdle, shared, handler, event, command,
            question, outcome, history, Api!apiVars
<1>1. ASSUME NEW r \in Runs, HandleStart(r) PROVE Api!Start(r)
  BY <1>1 DEF HandleStart, Api!Start
<1>2. ASSUME NEW r \in Runs, HandleCommit(r) PROVE UNCHANGED Api!apiVars
  BY <1>2 DEF HandleCommit
<1>3. ASSUME NEW r \in Runs, OnFinished(r)
      PROVE  Api!Succeed(r) \/ Api!Fail(r) \/ Api!Abandon(r)
  <2>1. reply[r] = "pending"
    BY <1>3 DEF OnFinished
  <2>2. ~HadError(r) => r \in begun /\ ~cancelled
    BY <1>3 DEF OnFinished, HadError
  <2>3. CASE ~HadError(r)
    BY <1>3, <2>1, <2>2, <2>3 DEF OnFinished, FinalStatus, Api!Succeed, Api!Answer
  <2>4. CASE HadError(r) /\ cancelled
    BY <1>3, <2>1, <2>4 DEF OnFinished, FinalStatus, Api!Abandon, Api!Answer
  <2>5. CASE HadError(r) /\ ~cancelled
    BY <1>3, <2>1, <2>5 DEF OnFinished, FinalStatus, Api!Fail, Api!Answer
  <2>6. QED
    BY <2>3, <2>4, <2>5
<1>4. CASE HandleCancel
  BY <1>4 DEF HandleCancel, Api!Cancel, Api!Next
<1>5. CASE CancelLoad \/ CancelTest \/ CancelKill
  BY <1>5 DEF CancelLoad, CancelTest, CancelKill
<1>6. QED
  BY <1>1, <1>2, <1>3, <1>4, <1>5 DEF MainStep, Api!Next

(* The threads' steps.                                                      *)
LEMMA WorkerImplements ==
  ASSUME TypeOK, EarnedInv, NEW r \in Runs, WorkerStep(r)
  PROVE  [Api!Next]_(Api!apiVars)
<1> USE DEF shared, handler, event, command, question, outcome, history, Api!apiVars
<1>1. CASE BeginChain(r)
  <2>1. reply[r] = "pending" /\ r \notin begun
    BY <1>1 DEF BeginChain, At, TypeOK, EarnedInv, Earned, Before
  <2>2. Api!Begin(r)
    BY <1>1, <2>1 DEF BeginChain, Api!Begin
  <2>3. QED
    BY <2>2 DEF Api!Next
<1>2. CASE FetchDirectory(r) \/ AllocRunState(r) \/ Configure(r) \/ EntryCheck(r)
  BY <1>2 DEF FetchDirectory, AllocRunState, Configure, EntryCheck
<1>3. CASE NextEvent(r) \/ PrepareCommands(r) \/ SpawnCommand(r) \/ AskPrompt(r)
  BY <1>3 DEF NextEvent, PrepareCommands, SpawnCommand, AskPrompt
<1>4. CASE PromptReturns(r) \/ ConsumeOutput(r) \/ SettleEvent(r)
  BY <1>4 DEF PromptReturns, ConsumeOutput, SettleEvent
<1>5. CASE PushCheck(r) \/ PushDirectory(r) \/ Cleanup(r) \/ WorkerFault(r)
  BY <1>5 DEF PushCheck, PushDirectory, Cleanup, WorkerFault
<1>6. QED
  BY <1>1, <1>2, <1>3, <1>4, <1>5 DEF WorkerStep

(* However many calls overlap, and whatever the threads do meanwhile, the    *)
(* task's clients see a behaviour of TaskApi.                               *)
THEOREM Implementation == Spec => ImplementsTaskApi
<1>1. Init => Api!Init
  BY DEF Init, Api!Init
<1>2. TypeOK /\ EarnedInv /\ [Next]_vars => [Api!Next]_(Api!apiVars)
  <2> SUFFICES ASSUME TypeOK, EarnedInv, [Next]_vars PROVE [Api!Next]_(Api!apiVars)
    OBVIOUS
  <2>1. CASE MainStep
    BY <2>1, MainImplements
  <2>2. CASE \E r \in Runs : WorkerStep(r)
    BY <2>2, WorkerImplements
  <2>3. CASE Crashed \/ UNCHANGED vars
    BY <2>3 DEF Crashed, vars, shared, outcome, history, Api!apiVars
  <2>4. QED
    BY <2>1, <2>2, <2>3 DEF Next
<1>3. QED
  BY <1>1, <1>2, Typing, Earning, PTL DEF Spec, ImplementsTaskApi, Api!Spec

-----------------------------------------------------------------------------
(* With clients that wait for an answer, self->run_state needs no lock.      *)

(* RunStateOwnership alone is not inductive: that the pointer is NULL when a *)
(* run allocates, and its own when it clears, holds because no two calls are *)
(* unanswered at once; and a command's process runs only at line 114.        *)
OwnerInv ==
  ~Overlap =>
    /\ \A r, s \in Unanswered : r = s
    /\ RunStateOwnership
    /\ fault # "worker"
    /\ StatusTracksRun
    /\ \A r \in Runs : child[r] \in {"running", "killed"} => pc[r] = "consume"

(* A run the others leave the pointer to: everyone else is not under way.    *)
LEMMA Alone ==
  ASSUME TypeOK, EarnedInv, OwnerInv, ~Overlap,
         NEW r \in Runs, pc[r] \notin {"unstarted", "done"},
         NEW q \in Runs \ {r}
  PROVE  pc[q] \in {"unstarted", "done"}
BY DEF TypeOK, EarnedInv, Earned, OwnerInv, Unanswered

(* The threads' steps keep the pointer where it belongs.                     *)
LEMMA WorkerOwner ==
  ASSUME TypeOK, EarnedInv, OwnerInv, NEW r \in Runs, WorkerStep(r)
  PROVE  OwnerInv'
<1> SUFFICES ASSUME ~Overlap PROVE OwnerInv'
  BY DEF OwnerInv
<1> USE DEF TypeOK, OwnerInv, RunStateOwnership, StatusTracksRun,
            Unanswered, Window, Chained, Lines, At, Goto, shared, handler, event,
            command, question, outcome, history
<1>a. \A q \in Runs \ {r} : pc[r] \notin {"unstarted", "done"} => pc[q] \in {"unstarted", "done"}
  BY Alone
<1>b. pc[r] \notin {"unstarted", "done"} => r \in Unanswered
  BY DEF EarnedInv, Earned
<1>1. CASE FetchDirectory(r)
  <2>1. PICK line \in {"allocate", "returned"} : pc' = [pc EXCEPT ![r] = line]
    BY <1>1 DEF FetchDirectory
  <2>2. pc[r] = "fetch" /\ UNCHANGED <<status, runState, live, child, reply, begun, fault>>
    BY <1>1 DEF FetchDirectory
  <2>3. QED
    BY <2>1, <2>2
<1>2. CASE AllocRunState(r)
  <2>1. pc[r] = "allocate" /\ pc' = [pc EXCEPT ![r] = "configure"] /\ runState' = r
        /\ live' = live \cup {r} /\ UNCHANGED <<status, child, reply, begun, fault>>
    BY <1>2 DEF AllocRunState
  <2>2. \A q \in Runs : pc[q] \notin Window
    BY <1>a, <2>1
  <2>3. live' = {q \in Runs : pc'[q] \in Window}
    BY <2>1, <2>2
  <2>4. runState' # NULL => pc'[runState'] \in Window
    BY <2>1
  <2>5. \A q \in Runs : pc'[q] \in Window => runState' = q
    BY <2>1, <2>2
  <2>6. QED
    BY <2>1, <2>3, <2>4, <2>5
<1>3. CASE Configure(r)
  BY <1>3, <1>a DEF Configure
<1>4. CASE EntryCheck(r)
  BY <1>4, <1>a DEF EntryCheck, ReturnErrorIfCancelled
<1>5. CASE BeginChain(r)
  BY <1>5, <1>a, <1>b DEF BeginChain
<1>6. CASE NextEvent(r)
  <2>1. PICK line \in {"pushcheck", "cleanup", "prepare"} : pc' = [pc EXCEPT ![r] = line]
    BY <1>6 DEF NextEvent
  <2>2. pc[r] = "next" /\ UNCHANGED <<status, runState, live, child, reply, begun, fault>>
    BY <1>6 DEF NextEvent
  <2>3. QED
    BY <2>1, <2>2
<1>7. CASE PrepareCommands(r)
  BY <1>7, <1>a DEF PrepareCommands
<1>8. CASE SpawnCommand(r)
  <2>1. CASE child' = [child EXCEPT ![r] = "running"] /\ Goto(r, "consume")
    BY <1>8, <2>1 DEF SpawnCommand
  <2>2. CASE Goto(r, "settle") /\ UNCHANGED child
    BY <1>8, <2>2 DEF SpawnCommand
  <2>3. QED
    BY <1>8, <2>1, <2>2 DEF SpawnCommand
<1>9. CASE AskPrompt(r) \/ PromptReturns(r)
  BY <1>9, <1>a DEF AskPrompt, PromptReturns
<1>10. CASE ConsumeOutput(r)
  BY <1>10, <1>a DEF ConsumeOutput
<1>11. CASE SettleEvent(r)
  <2>1. PICK line \in {"cleanup", "next"} : pc' = [pc EXCEPT ![r] = line]
    BY <1>11 DEF SettleEvent
  <2>2. pc[r] = "settle" /\ UNCHANGED <<status, runState, live, child, reply, begun, fault>>
    BY <1>11 DEF SettleEvent
  <2>3. QED
    BY <1>a, <2>1, <2>2
<1>12. CASE PushCheck(r)
  BY <1>12, <1>a DEF PushCheck, ReturnErrorIfCancelled
<1>13. CASE PushDirectory(r)
  BY <1>13, <1>a DEF PushDirectory
<1>14. CASE Cleanup(r)
  BY <1>14, <1>a DEF Cleanup
<1>15. CASE WorkerFault(r)
  BY <1>15, TaskAssumption DEF WorkerFault
<1>16. QED
  BY <1>1, <1>2, <1>3, <1>4, <1>5, <1>6, <1>7, <1>8, <1>9, <1>10, <1>11, <1>12,
     <1>13, <1>14, <1>15 DEF WorkerStep

(* Cancel's handler only reads the pointer: the main thread's steps keep it. *)
LEMMA MainOwner ==
  ASSUME TypeOK, EarnedInv, OwnerInv, MainStep
  PROVE  OwnerInv'
<1> SUFFICES ASSUME ~Overlap PROVE OwnerInv'
  BY DEF OwnerInv
<1> USE DEF TypeOK, OwnerInv, RunStateOwnership, StatusTracksRun,
            Unanswered, Window, Chained, Lines, MainIdle, shared, handler, event,
            command, question, outcome, history
<1>1. ASSUME NEW r \in Runs, HandleStart(r) PROVE OwnerInv'
  BY <1>1 DEF HandleStart
<1>2. ASSUME NEW r \in Runs, HandleCommit(r) PROVE OwnerInv'
  BY <1>2 DEF HandleCommit
<1>3. ASSUME NEW r \in Runs, OnFinished(r) PROVE OwnerInv'
  <2>1. \A q \in Runs \ {r} : pc[q] \in {"unstarted", "done"}
    BY <1>3, Alone DEF OnFinished
  <2>2. FinalStatus(r) \in {"COMPLETED", "CANCELED", "FAILED"}
    BY DEF FinalStatus
  <2>3. /\ pc[r] = "returned" /\ pc' = [pc EXCEPT ![r] = "done"]
        /\ status' # "RUNNING" /\ reply'[r] # "pending"
        /\ \A q \in Runs \ {r} : reply'[q] = reply[q]
        /\ UNCHANGED <<runState, live, child, fault>>
    BY <1>3, <2>2 DEF OnFinished
  <2>4. RunStateOwnership' /\ fault' # "worker"
    <3>1. \A q \in Runs : pc'[q] \in Window <=> pc[q] \in Window
      BY <2>3
    <3>2. QED
      BY <2>3, <3>1
  <2>5. StatusTracksRun'
    BY <2>1, <2>3
  <2>6. \A q, s \in Unanswered' : q = s
    <3>1. Unanswered' \subseteq Unanswered
      BY <2>3
    <3>2. QED
      BY <3>1
  <2>7. \A q \in Runs : child'[q] \in {"running", "killed"} => pc'[q] = "consume"
    BY <2>3
  <2>8. QED
    BY <2>4, <2>5, <2>6, <2>7
<1>4. CASE HandleCancel
  BY <1>4 DEF HandleCancel
<1>5. CASE CancelLoad
  BY <1>5 DEF CancelLoad
<1>6. CASE CancelTest
  BY <1>6 DEF CancelTest
<1>7. CASE CancelKill
  BY <1>7 DEF CancelKill
<1>8. QED
  BY <1>1, <1>2, <1>3, <1>4, <1>5, <1>6, <1>7 DEF MainStep

(* The ownership of the pointer is an invariant.                             *)
THEOREM Owning == Spec => []OwnerInv
<1>1. Init => OwnerInv
  BY DEF Init, OwnerInv, RunStateOwnership, StatusTracksRun,
         Unanswered, Window, Chained
<1>2. TypeOK /\ EarnedInv /\ OwnerInv /\ [Next]_vars => OwnerInv'
  <2> SUFFICES ASSUME TypeOK, EarnedInv, OwnerInv, [Next]_vars PROVE OwnerInv'
    OBVIOUS
  <2>1. CASE MainStep
    BY <2>1, MainOwner
  <2>2. CASE \E r \in Runs : WorkerStep(r)
    BY <2>2, WorkerOwner
  <2>3. CASE Crashed \/ UNCHANGED vars
    BY <2>3 DEF Crashed, vars, shared, event, command, outcome, history, OwnerInv,
                RunStateOwnership, StatusTracksRun, Unanswered
  <2>4. QED
    BY <2>1, <2>2, <2>3 DEF Next
<1>3. QED
  BY <1>1, <1>2, Typing, Earning, PTL DEF Spec

(* While no two Start calls are unanswered at once, self->run_state is the   *)
(* struct of the run in its window and no other is allocated (lines 463 and  *)
(* 511).                                                                     *)
THEOREM Ownership == Spec => []RunStateOwnership
<1>1. OwnerInv => RunStateOwnership
  BY DEF OwnerInv, RunStateOwnership
<1>2. QED
  BY <1>1, Owning, PTL

-----------------------------------------------------------------------------
(* Under such clients nothing faults but a stray Cancel.                     *)

(* What Cancel's handler knows between its reads of pointer and pid: the     *)
(* struct it has loaded is, or was, that of the one unanswered run, even     *)
(* when the worker has freed it meanwhile, because no new Start is handled   *)
(* before the handler returns; and a command that was started stays known.   *)
HandlerKnowsRun ==
  /\ main \in {"test", "kill"} =>
       loaded \in Unanswered /\ pc[loaded] \in Window \cup {"returned"}
  /\ main = "kill" => loaded \in Spawned

HandlerInv == ~Overlap => HandlerKnowsRun /\ OnlyStrayCancelsFault

(* A worker moves inside its window or leaves it for its return, and forgets *)
(* no process it has started.                                                *)
LEMMA WorkerHandler ==
  ASSUME TypeOK, EarnedInv, OwnerInv, HandlerInv, ~Overlap, NEW r \in Runs, WorkerStep(r)
  PROVE  HandlerKnowsRun' /\ OnlyStrayCancelsFault'
<1> USE DEF TypeOK, At, Goto, shared, handler, event, command, question, outcome, history
<1>1. fault = "none" /\ UNCHANGED <<main, loaded, reply>>
  BY DEF WorkerStep, FetchDirectory, AllocRunState, Configure, EntryCheck, BeginChain,
         NextEvent, PrepareCommands, SpawnCommand, AskPrompt, PromptReturns,
         ConsumeOutput, SettleEvent, PushCheck, PushDirectory, Cleanup, WorkerFault
<1>2. fault' = "none"
  <2>1. OwnerInv' /\ fault' \in {"none", "worker"}
    BY <1>1, WorkerOwner DEF WorkerStep, FetchDirectory, AllocRunState, Configure,
         EntryCheck, BeginChain, NextEvent, PrepareCommands, SpawnCommand, AskPrompt,
         PromptReturns, ConsumeOutput, SettleEvent, PushCheck, PushDirectory, Cleanup,
         WorkerFault
  <2>2. QED
    BY <2>1 DEF OwnerInv
<1>3. \A q \in Runs : pc[q] \in Window \cup {"returned"} => pc'[q] \in Window \cup {"returned"}
  <2> USE DEF Window
  <2>1. CASE FetchDirectory(r) \/ AllocRunState(r) \/ Configure(r)
    BY <2>1 DEF FetchDirectory, AllocRunState, Configure
  <2>2. CASE EntryCheck(r) \/ BeginChain(r) \/ NextEvent(r)
    BY <2>2 DEF EntryCheck, ReturnErrorIfCancelled, BeginChain, NextEvent
  <2>3. CASE PrepareCommands(r) \/ SpawnCommand(r)
    BY <2>3 DEF PrepareCommands, SpawnCommand
  <2>4. CASE AskPrompt(r) \/ PromptReturns(r) \/ ConsumeOutput(r)
    BY <2>4 DEF AskPrompt, PromptReturns, ConsumeOutput
  <2>5. CASE SettleEvent(r)
    BY <2>5 DEF SettleEvent
  <2>6. CASE PushCheck(r) \/ PushDirectory(r) \/ Cleanup(r) \/ WorkerFault(r)
    BY <2>6 DEF PushCheck, ReturnErrorIfCancelled, PushDirectory, Cleanup, WorkerFault
  <2>7. QED
    BY <2>1, <2>2, <2>3, <2>4, <2>5, <2>6 DEF WorkerStep
<1>4. Spawned \subseteq Spawned'
  <2> SUFFICES ASSUME NEW q \in Runs, child[q] # "none" PROVE child'[q] # "none"
    BY DEF Spawned
  <2>1. CASE SpawnCommand(r)
    BY <2>1 DEF SpawnCommand
  <2>2. CASE ConsumeOutput(r)
    BY <2>2 DEF ConsumeOutput
  <2>3. CASE ~SpawnCommand(r) /\ ~ConsumeOutput(r)
    <3>1. child' = child
      BY <2>3 DEF WorkerStep, FetchDirectory, AllocRunState, Configure, EntryCheck,
           BeginChain, NextEvent, PrepareCommands, AskPrompt, PromptReturns, SettleEvent,
           PushCheck, PushDirectory, Cleanup, WorkerFault
    <3>2. QED
      BY <3>1
  <2>4. QED
    BY <2>1, <2>2, <2>3
<1>5. HandlerKnowsRun'
  BY <1>1, <1>3, <1>4 DEF HandlerInv, HandlerKnowsRun, Unanswered
<1>6. QED
  BY <1>2, <1>5 DEF OnlyStrayCancelsFault

(* Cancel's handler meets a bad pointer only when the window is empty.       *)
LEMMA MainHandler ==
  ASSUME TypeOK, EarnedInv, OwnerInv, HandlerInv, ~Overlap, MainStep
  PROVE  HandlerKnowsRun' /\ OnlyStrayCancelsFault'
<1> USE DEF TypeOK, HandlerInv, HandlerKnowsRun, OnlyStrayCancelsFault, MainIdle, shared,
            handler, event, command, question, outcome, history
<1>1. ASSUME NEW r \in Runs, HandleStart(r) \/ HandleCommit(r) \/ OnFinished(r)
      PROVE  HandlerKnowsRun' /\ OnlyStrayCancelsFault'
  BY <1>1 DEF HandleStart, HandleCommit, OnFinished
<1>2. CASE HandleCancel
  BY <1>2 DEF HandleCancel
<1>3. CASE CancelLoad
  <2>1. CASE runState = NULL
    BY <1>3, <2>1, TaskAssumption DEF CancelLoad, OwnerInv, RunStateOwnership
  <2>2. CASE runState # NULL
    <3>1. runState \in Runs /\ pc[runState] \in Window /\ reply[runState] = "pending"
      BY <2>2 DEF OwnerInv, RunStateOwnership, EarnedInv, Earned, Window, Lines
    <3>2. QED
      BY <1>3, <2>2, <3>1 DEF CancelLoad, Unanswered
  <2>3. QED
    BY <2>1, <2>2
<1>4. CASE CancelTest
  <2>1. loaded \in Unanswered /\ pc[loaded] \in Window \cup {"returned"}
    BY <1>4 DEF CancelTest
  <2>2. CASE loaded \notin live
    <3>1. pc[loaded] = "returned"
      BY <2>1, <2>2 DEF OwnerInv, RunStateOwnership, Unanswered
    <3>2. \A q \in Runs : pc[q] \notin Window
      BY <2>1, <3>1, Alone DEF Unanswered, Window
    <3>3. QED
      BY <1>4, <2>2, <3>2 DEF CancelTest, Unanswered, Spawned
  <2>3. CASE loaded \in live
    BY <1>4, <2>1, <2>3 DEF CancelTest, Spawned, Unanswered
  <2>4. QED
    BY <2>2, <2>3
<1>5. CASE CancelKill
  <2>1. loaded \in Unanswered /\ loaded \in Spawned
    BY <1>5 DEF CancelKill
  <2>2. CASE runState \in Spawned
    BY <1>5, <2>2 DEF CancelKill
  <2>3. CASE runState \notin Spawned
    <3>1. runState = NULL
      <4> SUFFICES ASSUME runState # NULL PROVE FALSE
        OBVIOUS
      <4>1. runState \in Unanswered
        BY DEF OwnerInv, RunStateOwnership, EarnedInv, Earned, Window, Lines, Unanswered
      <4>2. QED
        BY <2>1, <2>3, <4>1 DEF OwnerInv
    <3>2. \A q \in Runs : pc[q] \notin Window
      BY <3>1, TaskAssumption DEF OwnerInv, RunStateOwnership
    <3>3. QED
      BY <1>5, <2>3, <3>2 DEF CancelKill, Unanswered, Spawned
  <2>4. QED
    BY <2>2, <2>3
<1>6. QED
  BY <1>1, <1>2, <1>3, <1>4, <1>5 DEF MainStep

(* Under such clients no worker follows a NULL, freed or foreign run_state,  *)
(* and Cancel's handler (lines 534-555) follows a bad pointer only when no   *)
(* run is between the allocation of its struct and its clean-up.             *)
THEOREM StrayCancels == Spec => []OnlyStrayCancelsFault
<1>1. Init => HandlerInv
  BY DEF Init, HandlerInv, HandlerKnowsRun, OnlyStrayCancelsFault
<1>2. TypeOK /\ EarnedInv /\ OwnerInv /\ HandlerInv /\ [Next]_vars => HandlerInv'
  <2> SUFFICES ASSUME TypeOK, EarnedInv, OwnerInv, HandlerInv, [Next]_vars, ~Overlap
               PROVE  HandlerKnowsRun' /\ OnlyStrayCancelsFault'
    BY DEF HandlerInv
  <2>1. CASE MainStep
    BY <2>1, MainHandler
  <2>2. CASE \E r \in Runs : WorkerStep(r)
    BY <2>2, WorkerHandler
  <2>3. CASE Crashed \/ UNCHANGED vars
    BY <2>3 DEF Crashed, vars, handler, event, command, outcome, HandlerInv,
                HandlerKnowsRun, OnlyStrayCancelsFault, Unanswered, Spawned
  <2>4. QED
    BY <2>1, <2>2, <2>3 DEF Next
<1>3. HandlerInv => OnlyStrayCancelsFault
  BY DEF HandlerInv, OnlyStrayCancelsFault
<1>4. QED
  BY <1>1, <1>2, <1>3, Typing, Earning, Owning, PTL DEF Spec

(* Under such clients the Status is that of the latest call.                 *)
THEOREM Tracking == Spec => []StatusTracksRun
<1>1. OwnerInv => StatusTracksRun
  BY DEF OwnerInv, StatusTracksRun
<1>2. QED
  BY <1>1, Owning, PTL

(* A running command is one that Cancel can signal and a caller waits for.   *)
THEOREM Reach == Spec => []CommandsAreReachable
<1>1. TypeOK /\ EarnedInv /\ OwnerInv => CommandsAreReachable
  <2> SUFFICES ASSUME TypeOK, EarnedInv, OwnerInv, ~Overlap,
                      NEW r \in Runs, child[r] \in {"running", "killed"}
               PROVE  runState = r /\ r \in live /\ reply[r] = "pending" /\ status = "RUNNING"
    BY DEF CommandsAreReachable
  <2>1. pc[r] = "consume"
    BY DEF OwnerInv
  <2>2. QED
    BY <2>1 DEF OwnerInv, RunStateOwnership, StatusTracksRun, Window, Chained, TypeOK,
                EarnedInv, Earned
<1>2. QED
  BY <1>1, Typing, Earning, Owning, PTL

(* Under such clients Cancel's handler returns with no command running that  *)
(* it has not signaled, though it reads the pointer twice, and the pid       *)
(* behind it as often, without a lock (lines 547-549): the command it        *)
(* misses, the one of CancelEndsCommands, is always one that is spawned      *)
(* after it has looked.                                                      *)
THEOREM CancelSignalsWhatRuns ==
  Spec => [][~Overlap /\ main # "idle" /\ main' = "idle" =>
               \A r \in Runs : child'[r] # "running"]_vars
<1> DEFINE Signals == ~Overlap /\ main # "idle" /\ main' = "idle" =>
                        \A r \in Runs : child'[r] # "running"
<1>1. TypeOK /\ OwnerInv /\ CommandsAreReachable /\ [Next]_vars => [Signals]_vars
  <2> SUFFICES ASSUME TypeOK, OwnerInv, CommandsAreReachable, Next, ~Overlap,
                      main # "idle", main' = "idle", NEW r \in Runs
               PROVE  child'[r] # "running"
    OBVIOUS
  <2>1. child[r] = "running" => runState = r /\ r \in live
    BY DEF CommandsAreReachable
  <2>2. CASE CancelTest
    <3>1. loaded \in live => runState = loaded
      BY DEF OwnerInv, RunStateOwnership
    <3> QED
      BY <2>1, <2>2, <3>1 DEF CancelTest, Spawned, handler, event, command
  <2>3. CASE CancelKill
    BY <2>1, <2>3 DEF CancelKill, Spawned, handler, TypeOK
  <2>4. CancelTest \/ CancelKill
    BY DEF Next, MainStep, WorkerStep, Crashed, HandleStart, HandleCommit, OnFinished,
           MainIdle, HandleCancel, CancelLoad, FetchDirectory, AllocRunState, Configure,
           EntryCheck, BeginChain, NextEvent, PrepareCommands, SpawnCommand, AskPrompt,
           PromptReturns, ConsumeOutput, SettleEvent, PushCheck, PushDirectory, Cleanup,
           WorkerFault, handler, vars
  <2> QED
    BY <2>2, <2>3, <2>4
<1> QED
  BY <1>1, Typing, Owning, Reach, PTL DEF Spec

-----------------------------------------------------------------------------
(* Every run comes to its end, if it is not kept waiting.                    *)

(* How far run r is from its end: the lines outside the loops are passed     *)
(* once; in the loop over the chain an event is entered at each turn; in     *)
(* that over the commands, one is started; and a command asks a question, is *)
(* answered, and ends.                                                       *)
LinesLeft(r) ==
  CASE pc[r] = "unstarted" -> 11
    [] pc[r] = "fetch"     -> 10
    [] pc[r] = "allocate"  -> 9
    [] pc[r] = "configure" -> 8
    [] pc[r] = "entry"     -> 7
    [] pc[r] = "begin"     -> 6
    [] pc[r] \in {"next", "prepare", "spawn", "consume", "settle"} -> 5
    [] pc[r] = "pushcheck" -> 4
    [] pc[r] = "push"      -> 3
    [] pc[r] = "cleanup"   -> 2
    [] pc[r] = "returned"  -> 1
    [] OTHER               -> 0

EventsLeft(r) == Len(Chain) - ev[r]

EventLinesLeft(r) ==
  CASE pc[r] = "prepare" -> 3
    [] pc[r] \in {"spawn", "consume"} -> 2
    [] pc[r] = "settle"  -> 1
    [] OTHER             -> 0

CommandsLeft(r) == MaxCommands - cmds[r]

QuestionsLeft(r) == MaxPrompts - asked[r]

CommandLinesLeft(r) ==
  (IF pc[r] = "consume" THEN 1 ELSE 0) +
  (IF prompt[r] = "open" THEN 2 ELSE IF prompt[r] = "handled" THEN 1 ELSE 0)

Distance(r) ==
  <<LinesLeft(r), EventsLeft(r), EventLinesLeft(r), CommandsLeft(r), QuestionsLeft(r),
    CommandLinesLeft(r)>>

\* Less in the lexicographic order, in which no sequence of naturals descends
\* for ever.
Below(d, e) == \E i \in 1 .. 6 : d[i] < e[i] /\ \A j \in 1 .. i - 1 : d[j] = e[j]

\* The steps run r takes: its thread's, and the main thread's on its behalf.
StepOf(r) == HandleStart(r) \/ HandleCommit(r) \/ OnFinished(r) \/ WorkerStep(r)

Approaches ==
  [][\A r \in Runs :
       /\ StepOf(r) => Below(Distance(r)', Distance(r)) \/ fault' = "worker"
       /\ ~StepOf(r) => Distance(r)' = Distance(r)]_vars

(* The distance is made of natural numbers, so it descends finitely often.   *)
LEMMA DistanceIsNatural ==
  ASSUME TypeOK, NEW r \in Runs
  PROVE  \A i \in 1 .. 6 : Distance(r)[i] \in Nat
<1>1. EventsLeft(r) \in Nat /\ CommandsLeft(r) \in Nat /\ QuestionsLeft(r) \in Nat
  <2>1. ev[r] \in 0 .. Len(Chain) /\ cmds[r] \in 0 .. MaxCommands /\ asked[r] \in 0 .. MaxPrompts
    BY DEF TypeOK
  <2>2. QED
    BY ONLY <2>1, BoundsAreNatural DEF EventsLeft, CommandsLeft, QuestionsLeft
<1>2. LinesLeft(r) \in Nat /\ EventLinesLeft(r) \in Nat /\ CommandLinesLeft(r) \in Nat
  BY DEF LinesLeft, EventLinesLeft, CommandLinesLeft
<1>3. QED
  BY <1>1, <1>2 DEF Distance

\* The lexicographic order, spelt out for the distance of run r.
Nearer(r) ==
  \/ LinesLeft(r)' < LinesLeft(r)
  \/ /\ LinesLeft(r)' = LinesLeft(r)
     /\ \/ EventsLeft(r)' < EventsLeft(r)
        \/ /\ EventsLeft(r)' = EventsLeft(r)
           /\ \/ EventLinesLeft(r)' < EventLinesLeft(r)
              \/ /\ EventLinesLeft(r)' = EventLinesLeft(r)
                 /\ \/ CommandsLeft(r)' < CommandsLeft(r)
                    \/ /\ CommandsLeft(r)' = CommandsLeft(r)
                       /\ \/ QuestionsLeft(r)' < QuestionsLeft(r)
                          \/ /\ QuestionsLeft(r)' = QuestionsLeft(r)
                             /\ CommandLinesLeft(r)' < CommandLinesLeft(r)

LEMMA NearerIsBelow ==
  ASSUME NEW r \in Runs, Nearer(r)
  PROVE  Below(Distance(r)', Distance(r))
<1> DEFINE d == Distance(r)'
           e == Distance(r)
<1> SUFFICES \E i \in 1 .. 6 : d[i] < e[i] /\ \A j \in 1 .. i - 1 : d[j] = e[j]
  BY DEF Below
<1>1. /\ d[1] = LinesLeft(r)' /\ d[2] = EventsLeft(r)' /\ d[3] = EventLinesLeft(r)'
      /\ d[4] = CommandsLeft(r)' /\ d[5] = QuestionsLeft(r)'
      /\ d[6] = CommandLinesLeft(r)'
  BY DEF Distance
<1>2. /\ e[1] = LinesLeft(r) /\ e[2] = EventsLeft(r) /\ e[3] = EventLinesLeft(r)
      /\ e[4] = CommandsLeft(r) /\ e[5] = QuestionsLeft(r) /\ e[6] = CommandLinesLeft(r)
  BY DEF Distance
<1> HIDE DEF d, e
<1>3. CASE d[1] < e[1]
  BY <1>3
<1>4. CASE d[1] = e[1] /\ d[2] < e[2]
  BY <1>4
<1>5. CASE d[1] = e[1] /\ d[2] = e[2] /\ d[3] < e[3]
  BY <1>5
<1>6. CASE d[1] = e[1] /\ d[2] = e[2] /\ d[3] = e[3] /\ d[4] < e[4]
  BY <1>6
<1>7. CASE d[1] = e[1] /\ d[2] = e[2] /\ d[3] = e[3] /\ d[4] = e[4] /\ d[5] < e[5]
  BY <1>7
<1>8. CASE d[1] = e[1] /\ d[2] = e[2] /\ d[3] = e[3] /\ d[4] = e[4] /\ d[5] = e[5] /\ d[6] < e[6]
  BY <1>8
<1>9. QED
  BY <1>1, <1>2, <1>3, <1>4, <1>5, <1>6, <1>7, <1>8 DEF Nearer

(* Each step of a run takes it nearer to its end.                            *)
LEMMA StepApproaches ==
  ASSUME TypeOK, NEW r \in Runs, StepOf(r)
  PROVE  Nearer(r) \/ fault' = "worker"
<1> USE BoundsAreNatural DEF At, Goto, MainIdle, shared, handler, event, command,
        question, outcome, history, Nearer, LinesLeft
<1>1. /\ ev[r] \in 0 .. Len(Chain) /\ cmds[r] \in 0 .. MaxCommands /\ asked[r] \in 0 .. MaxPrompts
      /\ pc \in [Runs -> Lines] /\ DOMAIN pc = Runs /\ DOMAIN ev = Runs /\ DOMAIN cmds = Runs
      /\ DOMAIN asked = Runs /\ DOMAIN prompt = Runs
  BY DEF TypeOK
<1>2. CASE HandleStart(r) \/ OnFinished(r) \/ FetchDirectory(r) \/ AllocRunState(r)
  BY <1>1, <1>2 DEF HandleStart, OnFinished, FetchDirectory, AllocRunState
<1>3. CASE Configure(r) \/ EntryCheck(r) \/ BeginChain(r)
  BY <1>1, <1>3 DEF Configure, EntryCheck, ReturnErrorIfCancelled, BeginChain
<1>4. CASE PushCheck(r) \/ PushDirectory(r) \/ Cleanup(r)
  BY <1>1, <1>4 DEF PushCheck, ReturnErrorIfCancelled, PushDirectory, Cleanup
<1>5. CASE NextEvent(r)
  <2>1. CASE ~HasNext(r) \/ StopsChain
    BY <1>1, <1>5, <2>1 DEF NextEvent
  <2>2. CASE Goto(r, "prepare") /\ ev' = [ev EXCEPT ![r] = @ + 1]
    <3>1. EventsLeft(r)' < EventsLeft(r)
      BY <1>1, <2>2 DEF EventsLeft
    <3>2. QED
      BY <1>1, <1>5, <2>2, <3>1 DEF NextEvent
  <2>3. QED
    BY <1>5, <2>1, <2>2 DEF NextEvent
<1>6. CASE PrepareCommands(r) \/ SettleEvent(r)
  BY <1>1, <1>6 DEF PrepareCommands, SettleEvent, EventsLeft, EventLinesLeft
<1>7. CASE SpawnCommand(r)
  <2>1. CASE Goto(r, "settle")
    BY <1>1, <1>7, <2>1 DEF SpawnCommand, EventsLeft, EventLinesLeft
  <2>2. CASE Goto(r, "consume") /\ cmds' = [cmds EXCEPT ![r] = @ + 1]
    <3>1. CommandsLeft(r)' < CommandsLeft(r)
      BY <1>1, <2>2 DEF CommandsLeft
    <3>2. QED
      BY <1>1, <1>7, <2>2, <3>1 DEF SpawnCommand, EventsLeft, EventLinesLeft
  <2>3. QED
    BY <1>7, <2>1, <2>2 DEF SpawnCommand
<1>8. CASE AskPrompt(r)
  BY <1>1, <1>8 DEF AskPrompt, EventsLeft, EventLinesLeft, CommandsLeft, QuestionsLeft
<1>9. CASE HandleCommit(r) \/ PromptReturns(r)
  BY <1>1, <1>9 DEF HandleCommit, PromptReturns, PromptOver, EventsLeft, EventLinesLeft,
     CommandsLeft, QuestionsLeft, CommandLinesLeft
<1>10. CASE ConsumeOutput(r)
  <2>1. PICK code \in ExitCodes : Goto(r, IF code = 0 THEN "spawn" ELSE "settle")
    BY <1>10 DEF ConsumeOutput
  <2>2. CASE code = 0
    BY <1>1, <1>10, <2>1, <2>2 DEF ConsumeOutput, EventsLeft, EventLinesLeft, CommandsLeft,
       QuestionsLeft, CommandLinesLeft
  <2>3. CASE code # 0
    BY <1>1, <1>10, <2>1, <2>3 DEF ConsumeOutput, EventsLeft, EventLinesLeft
  <2>4. QED
    BY <2>2, <2>3
<1>11. CASE WorkerFault(r)
  BY <1>11 DEF WorkerFault
<1>12. QED
  BY <1>2, <1>3, <1>4, <1>5, <1>6, <1>7, <1>8, <1>9, <1>10, <1>11 DEF StepOf, WorkerStep

(* A step of one run does not touch how far another is.                      *)
LEMMA StepOfAnother ==
  ASSUME TypeOK, NEW q \in Runs, StepOf(q), NEW r \in Runs \ {q}
  PROVE  Distance(r)' = Distance(r)
<1> USE DEF TypeOK, Goto, shared, handler, event, command, question, outcome, history
<1>1. /\ pc'[r] = pc[r] /\ ev'[r] = ev[r] /\ cmds'[r] = cmds[r] /\ asked'[r] = asked[r]
      /\ prompt'[r] = prompt[r]
  <2>1. CASE HandleStart(q) \/ HandleCommit(q) \/ OnFinished(q)
    BY <2>1 DEF HandleStart, HandleCommit, OnFinished
  <2>2. CASE FetchDirectory(q) \/ AllocRunState(q) \/ Configure(q)
    BY <2>2 DEF FetchDirectory, AllocRunState, Configure
  <2>3. CASE EntryCheck(q) \/ BeginChain(q) \/ NextEvent(q)
    BY <2>3 DEF EntryCheck, ReturnErrorIfCancelled, BeginChain, NextEvent
  <2>4. CASE PrepareCommands(q) \/ SpawnCommand(q) \/ AskPrompt(q) \/ PromptReturns(q)
    BY <2>4 DEF PrepareCommands, SpawnCommand, AskPrompt, PromptReturns
  <2>5. CASE ConsumeOutput(q) \/ SettleEvent(q)
    BY <2>5 DEF ConsumeOutput, SettleEvent
  <2>6. CASE PushCheck(q) \/ PushDirectory(q) \/ Cleanup(q) \/ WorkerFault(q)
    BY <2>6 DEF PushCheck, ReturnErrorIfCancelled, PushDirectory, Cleanup, WorkerFault
  <2>7. QED
    BY <2>1, <2>2, <2>3, <2>4, <2>5, <2>6 DEF StepOf, WorkerStep
<1>2. QED
  BY <1>1 DEF Distance, LinesLeft, EventsLeft, EventLinesLeft, CommandsLeft, QuestionsLeft,
     CommandLinesLeft

(* Whatever the threads and the clients do, a run only ever gets nearer to   *)
(* its end, by every step it takes and by a fixed order of natural numbers:  *)
(* no event or command is run again, and neither loop (lines 112 and 133)    *)
(* goes round without end.  What is left of CancelAnswers and                *)
(* OnlyPromptsBlock is that some step can be taken, and is.                  *)
THEOREM RunsApproachTheirEnd ==
  Spec => Approaches /\ [](\A r \in Runs : \A i \in 1 .. 6 : Distance(r)[i] \in Nat)
<1> DEFINE A == \A r \in Runs :
                  /\ StepOf(r) => Below(Distance(r)', Distance(r)) \/ fault' = "worker"
                  /\ ~StepOf(r) => Distance(r)' = Distance(r)
<1>1. TypeOK /\ [Next]_vars => [A]_vars
  <2> SUFFICES ASSUME TypeOK, Next PROVE A
    OBVIOUS
  <2>1. ASSUME NEW r \in Runs, StepOf(r)
        PROVE  Below(Distance(r)', Distance(r)) \/ fault' = "worker"
    BY <2>1, StepApproaches, NearerIsBelow
  <2>2. ASSUME NEW r \in Runs, ~StepOf(r) PROVE Distance(r)' = Distance(r)
    <3>1. CASE \E q \in Runs : StepOf(q)
      BY <2>2, <3>1, StepOfAnother
    <3>2. CASE HandleCancel \/ CancelLoad \/ CancelTest \/ CancelKill \/ Crashed
      <4>1. UNCHANGED <<pc, ev, cmds, prompt, asked>>
        BY <3>2 DEF HandleCancel, CancelLoad, CancelTest, CancelKill, Crashed, vars, event,
           command, question
      <4>2. QED
        BY <4>1 DEF Distance, LinesLeft, EventsLeft, EventLinesLeft, CommandsLeft,
           QuestionsLeft, CommandLinesLeft
    <3>3. QED
      BY <3>1, <3>2 DEF Next, MainStep, StepOf
  <2>3. QED
    BY <2>1, <2>2
<1>2. TypeOK => \A r \in Runs : \A i \in 1 .. 6 : Distance(r)[i] \in Nat
  BY DistanceIsNatural
<1>3. QED
  BY <1>1, <1>2, Typing, PTL DEF Spec, Approaches

-----------------------------------------------------------------------------
(* The prompts are those of Prompting, which TaskPrompt implements.          *)

(* There is one cancellable, the task's, for all the runs that ask.          *)
Questions == INSTANCE Prompting WITH Threads <- Runs,
                                     cancelled <- IF cancelled THEN Runs ELSE {}

(* A task asks and is answered as Prompting says: so the steps of line 114   *)
(* during which a command waits for the client stand for the handshake of    *)
(* reportd_task_emit_prompt (TaskPrompt), whose Implementation theorem shows *)
(* that it keeps to Prompting.                                               *)
THEOREM AsksAsPrompting == Spec => Questions!Spec
<1>1. Init => Questions!Init
  BY DEF Init, Questions!Init
<1>2. TypeOK /\ [Next]_vars => [Questions!Next]_(Questions!promptVars)
  <2> SUFFICES ASSUME TypeOK, [Next]_vars PROVE [Questions!Next]_(Questions!promptVars)
    OBVIOUS
  <2> USE DEF shared, handler, event, command, question, outcome, history,
              Questions!promptVars
  <2>1. ASSUME NEW r \in Runs, HandleCommit(r) PROVE Questions!Commit(r)
    BY <2>1 DEF HandleCommit, Questions!Commit
  <2>2. ASSUME NEW r \in Runs, AskPrompt(r) PROVE Questions!Ask(r)
    BY <2>2 DEF AskPrompt, Questions!Ask
  <2>3. ASSUME NEW r \in Runs, PromptReturns(r) PROVE Questions!Return(r)
    <3>1. prompt[r] = "handled" \/ (prompt[r] = "open" /\ cancelled)
      BY <2>3 DEF PromptReturns, PromptOver
    <3>2. prompt' = [prompt EXCEPT ![r] = "none"] /\ cancelled' = cancelled
      BY <2>3 DEF PromptReturns
    <3>3. QED
      BY <3>1, <3>2 DEF Questions!Return
  <2>4. CASE HandleCancel
    BY <2>4 DEF HandleCancel, Questions!Cancel, Questions!Next
  <2>5. ASSUME NEW r \in Runs,
               HandleStart(r) \/ OnFinished(r) \/ FetchDirectory(r) \/ AllocRunState(r)
               \/ Configure(r) \/ EntryCheck(r) \/ BeginChain(r) \/ NextEvent(r)
        PROVE  UNCHANGED <<prompt, cancelled>>
    BY <2>5 DEF HandleStart, OnFinished, FetchDirectory, AllocRunState, Configure,
                EntryCheck, BeginChain, NextEvent
  <2>6. ASSUME NEW r \in Runs,
               PrepareCommands(r) \/ SpawnCommand(r) \/ ConsumeOutput(r) \/ SettleEvent(r)
               \/ PushCheck(r) \/ PushDirectory(r) \/ Cleanup(r) \/ WorkerFault(r)
        PROVE  UNCHANGED <<prompt, cancelled>>
    BY <2>6 DEF PrepareCommands, SpawnCommand, ConsumeOutput, SettleEvent, PushCheck,
                PushDirectory, Cleanup, WorkerFault
  <2>7. CASE CancelLoad \/ CancelTest \/ CancelKill \/ Crashed \/ UNCHANGED vars
    BY <2>7 DEF CancelLoad, CancelTest, CancelKill, Crashed, vars
  <2>8. QED
    BY <2>1, <2>2, <2>3, <2>4, <2>5, <2>6, <2>7 DEF Next, MainStep, WorkerStep,
       Questions!Next
<1>3. QED
  BY <1>1, <1>2, Typing, PTL DEF Spec, Questions!Spec
=============================================================================
