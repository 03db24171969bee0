------------------------- MODULE UserSettings_proofs -------------------------
(***************************************************************************)
(* Proofs about UserSettings, for any number of threads and settings.  The *)
(* argument: a setting is what was last said of it wherever it is kept,    *)
(* and a pointer that was not freed still points to the setting in the     *)
(* table; a prompt that is over was committed, or its task canceled.       *)
(***************************************************************************)
EXTENDS UserSettings, TLAPS

USE SettingsAssumption

-----------------------------------------------------------------------------
(* The inductive invariant.                                                 *)

\* The values that may be kept of setting k: none before one was said.
KeptInv ==
  /\ \A k \in Keys : said[k] = "unset" => table[k] = "unset" /\ file[k] = "unset"
  /\ \A k \in Forever : said[k] # "yes"
  /\ mishaps = {} /\ phase = "saved" => file = table
  /\ ForgottenHasReason

\* A pointer that was not freed is still the table's.
PointerInv ==
  \A t \in Threads : pc[t] = "test" =>
    /\ key[t] \in Keys
    /\ t \notin dangling /\ seen[t] # "unset" => seen[t] = table[key[t]]

\* Only a thread that waits has a prompt, and that ends for a reason.
PromptInv ==
  \A t \in Threads :
    /\ prompt[t] # "none" => pc[t] = "wait"
    /\ prompt[t] = "handled" => t \in committed
    /\ pc[t] = "check" => t \in committed \cup cancelled

\* Nobody asks while the daemon is down.
DownInv == phase = "down" => \A t \in Threads : pc[t] = "idle"

IInv == TypeOK /\ KeptInv /\ PointerInv /\ PromptInv /\ DownInv

LEMMA InitInv == Init => IInv
  BY DEF Init, P!Init, IInv, TypeOK, Values, Answers, KeptInv, ForgottenHasReason, Kept,
         PointerInv, PromptInv, DownInv

-----------------------------------------------------------------------------
(* The threads.                                                             *)

(* Looking up, waiting and testing leave the settings alone.                *)
LEMMA AskInv ==
  ASSUME IInv, NEW t \in Threads,
         \/ \E k \in Keys : Look(t, k)
         \/ AskPlain(t) \/ TestSetting(t) \/ TestFreed(t) \/ WaitEnds(t)
  PROVE  IInv'
<1> USE DEF settings, asking, object, Running, Goto, Values, Answers, EmitPrompt
<1>1. KeptInv'
  BY DEF Look, AskPlain, TestSetting, TestFreed, WaitEnds, IInv, KeptInv,
         ForgottenHasReason, Kept
<1>2. ASSUME NEW k \in Keys, Look(t, k) PROVE IInv'
  <2>1. TypeOK'
    BY <1>2 DEF Look, IInv, TypeOK
  <2>2. PointerInv' /\ PromptInv' /\ DownInv'
    BY <1>2 DEF Look, IInv, TypeOK, PointerInv, PromptInv, DownInv
  <2> QED  BY <1>1, <2>1, <2>2 DEF IInv
<1>3. CASE AskPlain(t)
  <2>1. TypeOK'
    BY <1>3 DEF AskPlain, P!Ask, IInv, TypeOK
  <2>2. PointerInv' /\ PromptInv' /\ DownInv'
    BY <1>3 DEF AskPlain, P!Ask, IInv, TypeOK, PointerInv, PromptInv, DownInv
  <2> QED  BY <1>1, <2>1, <2>2 DEF IInv
<1>4. CASE TestSetting(t)
  <2>1. CASE IsSettled(t) /\ Return(t, UnaskedAnswer(t)) /\ UNCHANGED <<prompt, cancelled>>
    <3>1. UnaskedAnswer(t) \in Answers
      BY <2>1 DEF UnaskedAnswer, IsSettled
    <3>2. TypeOK'
      BY <1>4, <2>1, <3>1 DEF TestSetting, Return, IInv, TypeOK
    <3>3. PointerInv' /\ PromptInv' /\ DownInv'
      BY <1>4, <2>1 DEF TestSetting, Return, IInv, TypeOK, PointerInv, PromptInv, DownInv
    <3> QED  BY <1>1, <3>2, <3>3 DEF IInv
  <2>2. CASE EmitPrompt(t) /\ UNCHANGED <<key, seen, answer>>
    <3>1. TypeOK'
      BY <1>4, <2>2 DEF TestSetting, P!Ask, IInv, TypeOK
    <3>2. PointerInv' /\ PromptInv' /\ DownInv'
      BY <1>4, <2>2 DEF TestSetting, P!Ask, IInv, TypeOK, PointerInv, PromptInv, DownInv
    <3> QED  BY <1>1, <3>1, <3>2 DEF IInv
  <2> QED  BY <1>4, <2>1, <2>2 DEF TestSetting
<1>5. CASE TestFreed(t)
  BY <1>1, <1>5 DEF TestFreed, IInv, TypeOK, PointerInv, PromptInv, DownInv
<1>6. CASE WaitEnds(t)
  <2>1. TypeOK'
    BY <1>6 DEF WaitEnds, P!Return, IInv, TypeOK
  <2>2. PointerInv' /\ PromptInv' /\ DownInv'
    BY <1>6 DEF WaitEnds, P!Return, IInv, TypeOK, PointerInv, PromptInv, DownInv
  <2> QED  BY <1>1, <2>1, <2>2 DEF IInv
<1> QED  BY <1>2, <1>3, <1>4, <1>5, <1>6

(* An answer is stored where it was said, and frees the pointers to what it *)
(* replaces; after the save it is a mishap.                                 *)
LEMMA AnswerInv == ASSUME IInv, NEW t \in Threads, TakeAnswer(t) PROVE IInv'
<1> USE DEF settings, Goto, Values, Answers
<1>1. /\ Running /\ pc[t] = "check" /\ prompt[t] = "none"
      /\ UNCHANGED <<phase, prompt, cancelled, fault, file>>
      /\ response[t] \in Answers
  BY DEF TakeAnswer, IInv, TypeOK, PromptInv
<1>2. PICK value \in Answers \cup {"canceled"} : Return(t, value)
  BY <1>1 DEF TakeAnswer
<1>3. CASE UNCHANGED <<table, said, mishaps, dangling>>
  <2>1. TypeOK'
    BY <1>1, <1>2, <1>3 DEF Return, IInv, TypeOK
  <2>2. KeptInv'
    BY <1>1, <1>3 DEF IInv, KeptInv, ForgottenHasReason, Kept
  <2>3. PointerInv' /\ PromptInv' /\ DownInv'
    BY <1>1, <1>2, <1>3 DEF Return, IInv, TypeOK, PointerInv, PromptInv, DownInv
  <2> QED  BY <2>1, <2>2, <2>3 DEF IInv
<1>4. CASE /\ Stores(t) /\ Store(t)
           /\ said' = [said EXCEPT ![key[t]] = response[t]]
  <2>1. /\ key[t] \in Keys
        /\ table' = [table EXCEPT ![key[t]] = response[t]]
        /\ key[t] \in Forever => response[t] = "no"
    BY <1>4 DEF Stores, Store, IInv, TypeOK
  <2>2. TypeOK'
    BY <1>1, <1>2, <1>4, <2>1 DEF Return, Store, IInv, TypeOK
  <2>3. KeptInv'
    <3>1. \A k \in Keys : k # key[t] => table'[k] = table[k] /\ said'[k] = said[k]
      BY <1>4, <2>1 DEF IInv, TypeOK
    <3>2. table'[key[t]] = response[t] /\ said'[key[t]] = response[t]
      BY <1>4, <2>1 DEF IInv, TypeOK
    <3>3. mishaps \subseteq mishaps' /\ (phase = "saved" => mishaps' # {})
      BY <1>4 DEF Store
    <3>4. phase # "down"
      BY <1>1 DEF Running
    <3>5. ForgottenHasReason'
      BY <1>1, <3>1, <3>2, <3>3, <3>4 DEF IInv, KeptInv, ForgottenHasReason, Kept
    <3> QED
      BY <1>1, <2>1, <3>1, <3>2, <3>3, <3>5 DEF IInv, KeptInv
  <2>4. PointerInv'
    <3> SUFFICES ASSUME NEW u \in Threads, pc'[u] = "test"
                 PROVE  /\ key'[u] \in Keys
                        /\ u \notin dangling' /\ seen'[u] # "unset" =>
                             seen'[u] = table'[key'[u]]
      BY DEF PointerInv
    <3>1. u # t /\ pc[u] = "test" /\ key'[u] = key[u] /\ seen'[u] = seen[u]
      BY <1>1, <1>2 DEF Return, IInv, TypeOK
    <3>2. u \notin dangling' /\ seen[u] # "unset" =>
            u \notin dangling /\ key[u] # key[t]
      BY <1>4, <3>1 DEF Store
    <3> QED  BY <2>1, <3>1, <3>2 DEF IInv, TypeOK, PointerInv
  <2>5. PromptInv' /\ DownInv'
    BY <1>1, <1>2 DEF Return, IInv, TypeOK, PromptInv, DownInv
  <2> QED  BY <2>2, <2>3, <2>4, <2>5 DEF IInv
<1> QED
  BY <1>3, <1>4 DEF TakeAnswer, Stores

-----------------------------------------------------------------------------
(* The clients and the main thread.                                         *)

LEMMA ClientInv == IInv /\ ClientStep => IInv'
<1> SUFFICES ASSUME IInv, ClientStep PROVE IInv'
  OBVIOUS
<1> USE DEF settings, asking, object, Serving, Values, Answers
<1>1. ASSUME HandleCancel PROVE IInv'
  BY <1>1 DEF HandleCancel, P!Cancel, IInv, TypeOK, KeptInv, ForgottenHasReason, Kept,
              PointerInv, PromptInv, DownInv
<1>2. ASSUME NEW t \in Threads, SetProperties(t) PROVE IInv'
  BY <1>2 DEF SetProperties, IInv, TypeOK, KeptInv, ForgottenHasReason, Kept,
              PointerInv, PromptInv, DownInv
<1>3. ASSUME NEW t \in Threads, HandleCommit(t) PROVE IInv'
  <2>1. TypeOK' /\ PromptInv'
    BY <1>3 DEF HandleCommit, P!Commit, IInv, TypeOK, PromptInv
  <2>2. KeptInv' /\ PointerInv' /\ DownInv'
    BY <1>3 DEF HandleCommit, P!Commit, IInv, KeptInv, ForgottenHasReason, Kept,
                PointerInv, DownInv
  <2> QED  BY <2>1, <2>2 DEF IInv
<1> QED  BY <1>1, <1>2, <1>3 DEF ClientStep

(* What is saved is what was said, and what is loaded is what was saved.    *)
LEMMA MainInv == IInv /\ MainStep => IInv'
<1> SUFFICES ASSUME IInv, MainStep PROVE IInv'
  OBVIOUS
<1> USE DEF settings, asking, object, Running, Serving, Idle, Values, Answers
<1>1. CASE LoopEnds
  BY <1>1 DEF LoopEnds, IInv, TypeOK, KeptInv, ForgottenHasReason, Kept,
              PointerInv, PromptInv, DownInv
<1>2. CASE SaveSettings
  <2>1. TypeOK' /\ KeptInv'
    BY <1>2 DEF SaveSettings, IInv, TypeOK, KeptInv, ForgottenHasReason, Kept
  <2>2. PointerInv' /\ PromptInv' /\ DownInv'
    BY <1>2 DEF SaveSettings, IInv, PointerInv, PromptInv, DownInv
  <2> QED  BY <2>1, <2>2 DEF IInv
<1>3. CASE End
  <2>1. TypeOK'
    BY <1>3 DEF End, IInv, TypeOK
  <2>2. KeptInv'
    BY <1>3 DEF End, IInv, TypeOK, KeptInv, ForgottenHasReason, Kept
  <2>3. PointerInv' /\ PromptInv' /\ DownInv'
    BY <1>3 DEF End, PointerInv, PromptInv, DownInv
  <2> QED  BY <2>1, <2>2, <2>3 DEF IInv
<1>4. CASE StartAgain
  <2>1. TypeOK' /\ KeptInv'
    BY <1>4 DEF StartAgain, IInv, TypeOK, KeptInv, ForgottenHasReason, Kept
  <2>2. PointerInv' /\ PromptInv' /\ DownInv'
    BY <1>4 DEF StartAgain, IInv, PointerInv, PromptInv, DownInv
  <2> QED  BY <2>1, <2>2 DEF IInv
<1> QED  BY <1>1, <1>2, <1>3, <1>4 DEF MainStep

LEMMA NextInv == IInv /\ [Next]_vars => IInv'
<1>1. IInv /\ UNCHANGED vars => IInv'
  BY DEF vars, settings, asking, object, IInv, TypeOK, KeptInv, ForgottenHasReason, Kept,
         PointerInv, PromptInv, DownInv
<1>2. ASSUME NEW t \in Threads, IInv, ThreadStep(t) PROVE IInv'
  BY <1>2, AskInv, AnswerInv DEF ThreadStep
<1> QED
  BY <1>1, <1>2, ClientInv, MainInv DEF Next

(* The invariant holds throughout.                                          *)
THEOREM Invariance == Spec => []IInv
  BY InitInv, NextInv, PTL DEF Spec

-----------------------------------------------------------------------------

(* The variables keep their types.                                          *)
THEOREM Typing == Spec => []TypeOK
<1>1. IInv => TypeOK
  BY DEF IInv
<1> QED  BY <1>1, Invariance, PTL

(* What was said is kept through every end that is not a crash, unless it   *)
(* is stored after the save.                                                *)
THEOREM NothingForgotten == Spec => []ForgottenHasReason
<1>1. IInv => ForgottenHasReason
  BY DEF IInv, KeptInv
<1> QED  BY <1>1, Invariance, PTL

(* Steps that are no thread's own return from no callback.                  *)
LEMMA OnlyThreadsReturn ==
  ASSUME TypeOK, [Next]_vars, phase' # "down", NEW t \in Threads, pc'[t] # pc[t]
  PROVE  ThreadStep(t)
<1>1. ASSUME NEW u \in Threads, u # t, ThreadStep(u) PROVE pc'[t] = pc[t]
  BY <1>1 DEF ThreadStep, Look, AskPlain, TestSetting, TestFreed, WaitEnds, TakeAnswer,
              EmitPrompt, Return, Goto, TypeOK
<1>2. ASSUME ClientStep \/ MainStep PROVE pc' = pc
  BY <1>2 DEF ClientStep, HandleCancel, SetProperties, HandleCommit,
              MainStep, LoopEnds, SaveSettings, End, StartAgain, Idle
<1> QED  BY <1>1, <1>2 DEF Next, vars

(* An answer that was not asked for is one that a user has said.            *)
THEOREM Unasked == Spec => UnaskedWasRemembered
<1>1. ASSUME IInv, [Next]_vars, NEW t \in Threads,
             pc[t] = "test" /\ pc'[t] = "idle" /\ phase' # "down"
      PROVE  /\ said[key[t]] # "unset"
             /\ key[t] \in Forever => said[key[t]] = "no" /\ answer'[t] = "yes"
             /\ key[t] \notin Forever /\ mishaps = {} => answer'[t] = said[key[t]]
  <2>1. ThreadStep(t)
    BY <1>1, OnlyThreadsReturn DEF IInv
  <2>2. TestSetting(t)
    BY <1>1, <2>1 DEF ThreadStep, Look, AskPlain, TestFreed, WaitEnds, TakeAnswer, Goto,
                      IInv, TypeOK
  <2>3. IsSettled(t) /\ Return(t, UnaskedAnswer(t)) /\ t \notin dangling /\ phase # "down"
    BY <1>1, <2>2 DEF TestSetting, EmitPrompt, Goto, Running, IInv, TypeOK
  <2>4. answer'[t] = UnaskedAnswer(t)
    BY <1>1, <2>3 DEF Return, IInv, TypeOK
  <2>5. key[t] \in Keys /\ seen[t] = table[key[t]] /\ seen[t] # "unset"
    BY <1>1, <2>3 DEF IInv, PointerInv, IsSettled
  <2>6. said[key[t]] # "unset"
    BY <1>1, <2>5 DEF IInv, KeptInv
  <2>7. mishaps = {} => table[key[t]] = said[key[t]]
    BY <1>1, <2>3, <2>5 DEF IInv, KeptInv, ForgottenHasReason, Kept
  <2>8. key[t] \in Forever => said[key[t]] = "no"
    BY <1>1, <2>5, <2>6 DEF IInv, KeptInv, TypeOK, Values, Answers
  <2> QED  BY <2>4, <2>5, <2>6, <2>7, <2>8 DEF UnaskedAnswer
<1>2. IInv /\ [Next]_vars =>
        [\A t \in Threads :
           pc[t] = "test" /\ pc'[t] = "idle" /\ phase' # "down" =>
             /\ said[key[t]] # "unset"
             /\ key[t] \in Forever => said[key[t]] = "no" /\ answer'[t] = "yes"
             /\ key[t] \notin Forever /\ mishaps = {} => answer'[t] = said[key[t]]]_vars
  BY <1>1
<1> QED  BY <1>2, Invariance, PTL DEF Spec, UnaskedWasRemembered

(* An answer that was asked for comes from a prompt that a client has          *)
(* committed, in a task that nobody has canceled.                            *)
THEOREM Committed == Spec => AnswersAreCommitted
<1> DEFINE Answered(t) == IF t \in cancelled
                            THEN answer'[t] = "canceled" /\ UNCHANGED settings
                            ELSE t \in committed /\ answer'[t] # "canceled"
<1>1. ASSUME IInv, [Next]_vars, NEW t \in Threads,
             pc[t] = "check" /\ pc'[t] = "idle" /\ phase' # "down"
      PROVE  Answered(t)
  <2>1. ThreadStep(t)
    BY <1>1, OnlyThreadsReturn DEF IInv
  <2>2. TakeAnswer(t)
    BY <1>1, <2>1 DEF ThreadStep, Look, AskPlain, TestSetting, TestFreed, WaitEnds, Goto,
                      IInv, TypeOK
  <2>3. CASE t \in cancelled
    BY <1>1, <2>2, <2>3 DEF TakeAnswer, GivenUp, Return, IInv, TypeOK
  <2>4. CASE t \notin cancelled
    <3>1. t \in committed
      BY <1>1, <2>4 DEF IInv, PromptInv
    <3>2. answer'[t] = response[t] /\ response[t] # "canceled"
      BY <1>1, <2>2, <2>4 DEF TakeAnswer, GivenUp, Return, IInv, TypeOK, Answers
    <3> QED  BY <2>4, <3>1, <3>2
  <2> QED  BY <2>3, <2>4
<1>2. IInv /\ [Next]_vars =>
        [\A t \in Threads :
           pc[t] = "check" /\ pc'[t] = "idle" /\ phase' # "down" => Answered(t)]_vars
  BY <1>1
<1> QED  BY <1>2, Invariance, PTL DEF Spec, AnswersAreCommitted
==============================================================================
