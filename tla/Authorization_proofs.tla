------------------------- MODULE Authorization_proofs -------------------------
(***************************************************************************)
(* Proofs about Authorization, for any number of invocations, rounds and   *)
(* signals.  The argument: the verdicts that wait are on the latest round, *)
(* and so is whoever waits for one, unless a round was started while a     *)
(* verdict waited.                                                         *)
(***************************************************************************)
EXTENDS Authorization, SequenceTheorems, TLAPS

USE AuthorizationAssumption

-----------------------------------------------------------------------------
(* The inductive invariant.                                                 *)

\* Answers are only sent to those who wait, as long as no call fails.
ReplyInv ==
  /\ main = "noproxy" \/ result = "failed" => "failed" \in mishaps
  /\ main \in {"proxy", "authorize", "answered"} => reply[serving] = "waiting"
  /\ "failed" \notin mishaps => \A i \in handlers : reply[i] = "waiting"
  /\ \A i \in Invocations : verdict[i] # 0 => reply[i] \in {"success", "error"}
  /\ AnsweredOnce

\* A verdict on the latest round is to be dispatched, or will never come.
VerdictComes == session = "pending" \/ VerdictWaits \/ proxy = "stale"

\* Those who wait for a signal wait for the latest round's.
RoundInv ==
  "crossed" \notin mishaps =>
    /\ \A j \in DOMAIN signals : IsVerdict(signals[j]) => signals[j].round = round
    /\ \A i \in handlers :
         reply[i] = "waiting" /\ (i # serving \/ result = "asking") =>
           asked[i] = round /\ VerdictComes

IInv == TypeOK /\ ReplyInv /\ RoundInv /\ OwnVerdict

LEMMA InitInv == Init => IInv
  BY DEF Init, IInv, TypeOK, ReplyInv, RoundInv, OwnVerdict, AnsweredOnce, Results,
         Statuses

-----------------------------------------------------------------------------
(* The signals that wait.                                                   *)

(* A verdict that is sent comes after those that wait, and waits as well.   *)
LEMMA SendVerdict ==
  ASSUME TypeOK, NEW status \in Statuses, Send(status)
  PROVE  /\ signals' \in Seq([status : Statuses, round : 0..MaxRounds])
         /\ \A j \in DOMAIN signals' :
              \/ j \in DOMAIN signals /\ signals'[j] = signals[j]
              \/ signals'[j] = [status |-> status, round |-> round]
         /\ VerdictWaits => VerdictWaits'
         /\ status # "going" => VerdictWaits'
<1> DEFINE new == [status |-> status, round |-> round]
<1>1. new \in [status : Statuses, round : 0..MaxRounds]
  BY DEF TypeOK
<1>2. /\ signals' \in Seq([status : Statuses, round : 0..MaxRounds])
      /\ Len(signals) \in Nat
      /\ DOMAIN signals = 1..Len(signals)
      /\ DOMAIN signals' = 1..(Len(signals) + 1)
      /\ \A j \in 1..Len(signals) : signals'[j] = signals[j]
      /\ signals'[Len(signals) + 1] = new
  BY <1>1 DEF Send, TypeOK
<1>3. VerdictWaits => VerdictWaits'
  BY <1>2 DEF VerdictWaits, IsVerdict
<1>4. status # "going" => VerdictWaits'
  <2> SUFFICES ASSUME status # "going" PROVE VerdictWaits'
    OBVIOUS
  <2>1. Len(signals) + 1 \in DOMAIN signals' /\ IsVerdict(new)
    BY <1>2 DEF IsVerdict
  <2> QED  BY <2>1, <1>2 DEF VerdictWaits, IsVerdict
<1> QED  BY <1>2, <1>3, <1>4

(* The first signal is taken off, the others move up.                       *)
LEMMA TakeSignal ==
  ASSUME TypeOK, signals # << >>, signals' = Tail(signals)
  PROVE  /\ Head(signals) \in [status : Statuses, round : 0..MaxRounds]
         /\ signals' \in Seq([status : Statuses, round : 0..MaxRounds])
         /\ 1 \in DOMAIN signals /\ Head(signals) = signals[1]
         /\ \A j \in DOMAIN signals' :
              j + 1 \in DOMAIN signals /\ signals'[j] = signals[j + 1]
         /\ VerdictWaits /\ ~IsVerdict(Head(signals)) => VerdictWaits'
<1>1. /\ Head(signals) \in [status : Statuses, round : 0..MaxRounds]
      /\ signals' \in Seq([status : Statuses, round : 0..MaxRounds])
      /\ Len(signals) \in Nat /\ Len(signals) > 0
      /\ DOMAIN signals = 1..Len(signals)
      /\ DOMAIN signals' = 1..(Len(signals) - 1)
      /\ Head(signals) = signals[1]
      /\ \A j \in 1..(Len(signals) - 1) : signals'[j] = signals[j + 1]
  <2> DEFINE S == [status : Statuses, round : 0..MaxRounds]
  <2>1. signals \in Seq(S) /\ Len(signals) \in Nat /\ DOMAIN signals = 1..Len(signals)
    BY LenProperties DEF TypeOK
  <2>2. /\ Head(signals) \in S /\ Tail(signals) \in Seq(S)
        /\ Len(Tail(signals)) = Len(signals) - 1
        /\ \A j \in 1..Len(Tail(signals)) : Tail(signals)[j] = signals[j + 1]
    BY <2>1, HeadTailProperties
  <2>3. DOMAIN Tail(signals) = 1..Len(Tail(signals))
    BY <2>2, LenProperties
  <2>4. Len(signals) > 0 /\ Head(signals) = signals[1]
    BY <2>1, EmptySeq
  <2> QED  BY <2>1, <2>2, <2>3, <2>4
<1>2. ASSUME VerdictWaits, ~IsVerdict(signals[1]) PROVE VerdictWaits'
  <2>1. PICK j \in DOMAIN signals : IsVerdict(signals[j])
    BY <1>2 DEF VerdictWaits
  <2>2. j # 1
    BY <1>2, <2>1
  <2>3. j - 1 \in DOMAIN signals' /\ signals'[j - 1] = signals[j]
    BY <1>1, <2>2
  <2> QED  BY <2>1, <2>3 DEF VerdictWaits, IsVerdict
<1> QED  BY <1>1, <1>2

-----------------------------------------------------------------------------
(* ABRT's steps.                                                            *)

(* Notices, verdicts and losses are on the latest round.                    *)
LEMMA SendInv == IInv /\ (StillAsking \/ Decide \/ Lose) => IInv'
<1> SUFFICES ASSUME IInv, StillAsking \/ Decide \/ Lose PROVE IInv'
  OBVIOUS
<1>1. PICK status \in Statuses :
        /\ Send(status) /\ Elsewhere
        /\ session' \in {"idle", "pending", "authorized"}
        /\ session' = "pending" \/ status # "going"
  BY DEF StillAsking, Decide, Lose, Statuses
<1>2. /\ signals' \in Seq([status : Statuses, round : 0..MaxRounds])
      /\ \A j \in DOMAIN signals' :
           \/ j \in DOMAIN signals /\ signals'[j] = signals[j]
           \/ signals'[j] = [status |-> status, round |-> round]
      /\ VerdictWaits => VerdictWaits'
      /\ status # "going" => VerdictWaits'
  BY <1>1, SendVerdict DEF IInv
<1>3. TypeOK'
  BY <1>1, <1>2 DEF Elsewhere, client, IInv, TypeOK
<1>4. ReplyInv' /\ OwnVerdict'
  BY <1>1 DEF Elsewhere, client, IInv, ReplyInv, OwnVerdict, AnsweredOnce
<1>5. VerdictComes'
  BY <1>1, <1>2 DEF VerdictComes
<1>6. RoundInv'
  <2> SUFFICES ASSUME "crossed" \notin mishaps PROVE RoundInv'
    BY <1>1 DEF Elsewhere, RoundInv
  <2>1. \A j \in DOMAIN signals' : IsVerdict(signals'[j]) => signals'[j].round = round'
    BY <1>1, <1>2 DEF Elsewhere, IInv, RoundInv
  <2>2. \A i \in handlers' :
          reply'[i] = "waiting" /\ (i # serving' \/ result' = "asking") =>
            asked'[i] = round'
    BY <1>1 DEF Elsewhere, client, IInv, RoundInv
  <2> QED  BY <2>1, <2>2, <1>5 DEF RoundInv, IsVerdict
<1> QED  BY <1>3, <1>4, <1>6 DEF IInv

(* After a restart nothing more is said.                                    *)
LEMMA RestartInv == IInv /\ Restart => IInv'
<1> SUFFICES ASSUME IInv, Restart PROVE IInv'
  OBVIOUS
<1>1. TypeOK'
  BY DEF Restart, client, IInv, TypeOK
<1>2. ReplyInv' /\ OwnVerdict'
  BY DEF Restart, client, IInv, ReplyInv, OwnVerdict, AnsweredOnce
<1>3. RoundInv'
  BY DEF Restart, client, IInv, RoundInv, VerdictComes, IsVerdict
<1> QED  BY <1>1, <1>2, <1>3 DEF IInv

-----------------------------------------------------------------------------
(* The main thread's steps.                                                 *)

(* A call is taken up; its invocation does not wait for a signal yet.       *)
LEMMA EntryInv ==
  IInv /\ ((\E i \in Invocations : HandleAuthorize(i)) \/ GetSessionProxy
           \/ NoSessionProxy \/ GoOnWithoutProxy) => IInv'
<1> SUFFICES ASSUME IInv PROVE
      ((\E i \in Invocations : HandleAuthorize(i)) \/ GetSessionProxy
       \/ NoSessionProxy \/ GoOnWithoutProxy) => IInv'
  OBVIOUS
<1> USE DEF abrt, client, VerdictComes, VerdictWaits, IsVerdict
<1>1. ASSUME NEW i \in Invocations, HandleAuthorize(i) PROVE IInv'
  <2>1. TypeOK'
    BY <1>1 DEF HandleAuthorize, IInv, TypeOK
  <2>2. ReplyInv' /\ OwnVerdict'
    BY <1>1 DEF HandleAuthorize, IInv, TypeOK, ReplyInv, OwnVerdict, AnsweredOnce
  <2>3. RoundInv'
    BY <1>1 DEF HandleAuthorize, IInv, TypeOK, RoundInv
  <2> QED  BY <2>1, <2>2, <2>3 DEF IInv
<1>2. ASSUME GetSessionProxy PROVE IInv'
  <2>1. TypeOK'
    BY <1>2 DEF GetSessionProxy, IInv, TypeOK, ReplyInv
  <2>2. ReplyInv' /\ OwnVerdict'
    BY <1>2 DEF GetSessionProxy, IInv, TypeOK, ReplyInv, OwnVerdict, AnsweredOnce
  <2>3. RoundInv'
    BY <1>2 DEF GetSessionProxy, IInv, TypeOK, RoundInv
  <2> QED  BY <2>1, <2>2, <2>3 DEF IInv
<1>3. ASSUME NoSessionProxy PROVE IInv'
  <2>1. TypeOK'
    BY <1>3 DEF NoSessionProxy, IInv, TypeOK, ReplyInv
  <2>2. ReplyInv' /\ OwnVerdict'
    BY <1>3 DEF NoSessionProxy, IInv, TypeOK, ReplyInv, OwnVerdict, AnsweredOnce
  <2>3. RoundInv'
    BY <1>3 DEF NoSessionProxy, IInv, TypeOK, RoundInv
  <2> QED  BY <2>1, <2>2, <2>3 DEF IInv
<1>4. ASSUME GoOnWithoutProxy PROVE IInv'
  BY <1>4 DEF GoOnWithoutProxy, IInv, TypeOK, ReplyInv, RoundInv, OwnVerdict, AnsweredOnce
<1> QED  BY <1>1, <1>2, <1>3, <1>4

(* Nobody else waits when a round is started and no verdict waits.          *)
LEMMA NobodyElseWaits ==
  ASSUME IInv, session = "idle", ~VerdictWaits, "crossed" \notin mishaps,
         proxy = "current",
         NEW i \in handlers, i # serving
  PROVE  reply[i] # "waiting"
  BY DEF IInv, RoundInv, VerdictComes

(* What ABRT answers, and what it may have done when the call fails.        *)
LEMMA AnswerInv == IInv /\ (Authorize \/ AuthorizeFails) => IInv'
<1> SUFFICES ASSUME IInv, Authorize \/ AuthorizeFails PROVE IInv'
  OBVIOUS
<1>1. /\ main = "authorize" /\ main' = "answered"
      /\ serving \in handlers /\ serving \in Invocations
      /\ result' \in Results /\ result = "none"
      /\ UNCHANGED <<signals, proxy, serving, handlers, reply, verdict, fault>>
  BY DEF Authorize, AuthorizeFails, client, Results, IInv, TypeOK
<1>2. /\ mishaps \subseteq mishaps'
      /\ mishaps' \subseteq {"failed", "unknown", "restart", "crossed"}
      /\ result' = "failed" => "failed" \in mishaps'
  BY DEF Authorize, AuthorizeFails, StartRound, IInv, TypeOK
<1>3. \/ UNCHANGED <<session, round, asked>> /\ result' # "asking"
      \/ /\ proxy = "current" /\ session = "idle" /\ session' = "pending"
         /\ round' = round + 1 /\ round < MaxRounds
         /\ VerdictWaits => "crossed" \in mishaps'
         /\ \/ asked' = [asked EXCEPT ![serving] = round + 1]
            \/ UNCHANGED asked /\ result' # "asking"
  BY DEF Authorize, AuthorizeFails, StartRound, client
<1>4. TypeOK'
  BY <1>1, <1>2, <1>3 DEF IInv, TypeOK, Results
<1>5. ReplyInv'
  BY <1>1, <1>2 DEF IInv, ReplyInv, AnsweredOnce
<1>6. OwnVerdict'
  <2>1. verdict[serving] = 0
    BY <1>1 DEF IInv, ReplyInv
  <2>2. \A i \in Invocations : i # serving => asked'[i] = asked[i]
    BY <1>3 DEF IInv, TypeOK
  <2> QED  BY <2>1, <2>2, <1>1, <1>2 DEF IInv, OwnVerdict
<1>7. RoundInv'
  <2> SUFFICES ASSUME "crossed" \notin mishaps' PROVE RoundInv'
    BY DEF RoundInv
  <2>1. "crossed" \notin mishaps
    BY <1>2
  <2>2. CASE UNCHANGED <<session, round, asked>> /\ result' # "asking"
    BY <1>1, <2>1, <2>2 DEF IInv, RoundInv, VerdictComes, VerdictWaits, IsVerdict
  <2>3. CASE /\ proxy = "current" /\ session = "idle" /\ session' = "pending"
             /\ round' = round + 1 /\ round < MaxRounds
             /\ VerdictWaits => "crossed" \in mishaps'
             /\ \/ asked' = [asked EXCEPT ![serving] = round + 1]
                \/ UNCHANGED asked /\ result' # "asking"
    <3>1. ~VerdictWaits
      BY <2>3
    <3>2. \A j \in DOMAIN signals' : ~IsVerdict(signals'[j])
      BY <3>1, <1>1 DEF VerdictWaits
    <3>3. \A i \in handlers' : i # serving' => reply'[i] # "waiting"
      BY <3>1, <2>1, <2>3, <1>1, NobodyElseWaits
    <3>4. result' = "asking" => asked'[serving'] = round'
      BY <2>3, <1>1 DEF IInv, TypeOK
    <3>5. VerdictComes'
      BY <2>3 DEF VerdictComes
    <3> QED  BY <3>2, <3>3, <3>4, <3>5 DEF RoundInv, IsVerdict
  <2> QED  BY <2>2, <2>3, <1>3
<1> QED  BY <1>4, <1>5, <1>6, <1>7 DEF IInv

(* The handler returns; who waits now has started the latest round.         *)
LEMMA ReturnInv == IInv /\ AuthorizeReturns => IInv'
<1> SUFFICES ASSUME IInv, AuthorizeReturns PROVE IInv'
  OBVIOUS
<1> USE DEF AuthorizeReturns, abrt
<1>1. /\ serving \in Invocations /\ serving \in handlers /\ reply[serving] = "waiting"
      /\ ReplyAfterCall \in {"waiting", "success", "error"}
      /\ \A i \in Invocations :
           reply'[i] = IF i = serving THEN ReplyAfterCall ELSE reply[i]
  BY DEF IInv, TypeOK, ReplyInv, ReplyAfterCall
<1>2. /\ handlers' \subseteq handlers
      /\ serving \in handlers' => Waits \/ result = "failed"
      /\ Waits => ReplyAfterCall = "waiting"
      /\ result = "failed" => ReplyAfterCall = "error"
  BY DEF ConnectedAfterCall, ReplyAfterCall, Waits
<1>3. TypeOK'
  BY <1>1, <1>2 DEF IInv, TypeOK
<1>4. ReplyInv'
  BY <1>1, <1>2 DEF IInv, TypeOK, ReplyInv, AnsweredOnce
<1>5. OwnVerdict'
  BY DEF IInv, OwnVerdict
<1>6. RoundInv'
  <2>1. \A i \in handlers' : i # serving \/ Waits \/ reply'[i] = "error"
    BY <1>1, <1>2
  <2>2. VerdictComes' <=> VerdictComes
    BY DEF VerdictComes, VerdictWaits, IsVerdict
  <2> SUFFICES ASSUME "crossed" \notin mishaps PROVE RoundInv'
    BY DEF RoundInv
  <2>3. ASSUME NEW i \in handlers', reply'[i] = "waiting"
        PROVE  asked'[i] = round' /\ VerdictComes
    <3>1. i \in handlers /\ i \in Invocations /\ reply[i] = "waiting"
      BY <1>1, <1>2, <2>3 DEF IInv, TypeOK
    <3> QED  BY <3>1, <2>1, <2>3 DEF IInv, RoundInv, Waits
  <2> QED  BY <2>2, <2>3 DEF IInv, RoundInv, IsVerdict
<1> QED  BY <1>3, <1>4, <1>5, <1>6 DEF IInv

(* A verdict answers those who have started its round, and no one twice.    *)
LEMMA SignalInv == IInv /\ OnSignal => IInv'
<1> SUFFICES ASSUME IInv, OnSignal PROVE IInv'
  OBVIOUS
<1> DEFINE signal == Head(signals)
           answered == {i \in handlers : reply[i] = "waiting"}
<1>1. /\ main = "idle" /\ serving = NULL /\ signals # << >>
      /\ signals' = Tail(signals)
      /\ UNCHANGED <<session, round, proxy, main, serving, result, mishaps>>
      /\ UNCHANGED asked
  BY DEF OnSignal, client, IInv, TypeOK
<1>2. /\ signal \in [status : Statuses, round : 0..MaxRounds]
      /\ signals' \in Seq([status : Statuses, round : 0..MaxRounds])
      /\ 1 \in DOMAIN signals /\ signal = signals[1]
      /\ \A j \in DOMAIN signals' :
           j + 1 \in DOMAIN signals /\ signals'[j] = signals[j + 1]
      /\ VerdictWaits /\ ~IsVerdict(signal) => VerdictWaits'
  BY <1>1, TakeSignal DEF IInv
<1>3. "crossed" \notin mishaps =>
        \A j \in DOMAIN signals' : IsVerdict(signals'[j]) => signals'[j].round = round'
  BY <1>1, <1>2 DEF IInv, RoundInv
<1>4. CASE ~IsVerdict(signal) /\ UNCHANGED <<client, fault>>
  <2>1. TypeOK'
    BY <1>1, <1>2, <1>4 DEF IInv, TypeOK, client
  <2>2. ReplyInv' /\ OwnVerdict'
    BY <1>1, <1>4 DEF IInv, ReplyInv, OwnVerdict, AnsweredOnce, client
  <2>3. VerdictComes => VerdictComes'
    BY <1>1, <1>2, <1>4 DEF VerdictComes
  <2>4. RoundInv'
    BY <1>1, <1>3, <1>4, <2>3 DEF IInv, RoundInv, IsVerdict, client
  <2> QED  BY <2>1, <2>2, <2>4 DEF IInv
<1>5. CASE IsVerdict(signal) /\ ~(~IsVerdict(signal) /\ UNCHANGED <<client, fault>>)
  <2>1. /\ fault' = IF handlers \subseteq answered THEN fault ELSE "twice"
        /\ reply' = [i \in Invocations |->
                       IF i \notin answered THEN reply[i]
                       ELSE IF signal.status = "granted" THEN "success" ELSE "error"]
        /\ verdict' = [i \in Invocations |->
                         IF i \in answered THEN signal.round ELSE verdict[i]]
        /\ handlers' = {}
    BY <1>5 DEF OnSignal, ConnectedAfterVerdict
  <2>2. TypeOK'
    BY <1>1, <1>2, <2>1 DEF IInv, TypeOK
  <2>3. ReplyInv'
    BY <1>1, <2>1 DEF IInv, TypeOK, ReplyInv, AnsweredOnce
  <2>4. RoundInv'
    BY <1>3, <2>1, <1>1 DEF RoundInv, IsVerdict
  <2>5. OwnVerdict'
    <3> SUFFICES ASSUME NEW i \in Invocations, "crossed" \notin mishaps,
                        verdict'[i] # 0
                 PROVE  verdict'[i] = asked[i]
      BY <1>1 DEF OwnVerdict
    <3>1. signal.round = round
      BY <1>2, <1>5 DEF IInv, RoundInv
    <3>2. CASE i \in answered
      BY <3>1, <3>2, <1>1, <2>1 DEF IInv, TypeOK, RoundInv
    <3>3. CASE i \notin answered
      BY <3>3, <2>1 DEF IInv, OwnVerdict
    <3> QED  BY <3>2, <3>3
  <2> QED  BY <2>2, <2>3, <2>4, <2>5 DEF IInv
<1> QED  BY <1>4, <1>5 DEF OnSignal

LEMMA NextInv == IInv /\ [Next]_vars => IInv'
<1>1. IInv /\ UNCHANGED vars => IInv'
  BY DEF vars, IInv, TypeOK, ReplyInv, RoundInv, OwnVerdict, AnsweredOnce,
         VerdictComes, VerdictWaits, IsVerdict
<1> QED
  BY <1>1, SendInv, RestartInv, EntryInv, AnswerInv, ReturnInv, SignalInv
     DEF Next, MainStep, AbrtStep

(* The invariant holds throughout.                                          *)
THEOREM Invariance == Spec => []IInv
  BY InitInv, NextInv, PTL DEF Spec

-----------------------------------------------------------------------------

(* The variables keep their types.                                          *)
THEOREM Typing == Spec => []TypeOK
<1>1. IInv => TypeOK
  BY DEF IInv
<1> QED  BY <1>1, Invariance, PTL

(* No invocation is answered twice unless a call to ABRT has failed.        *)
THEOREM NoSecondAnswer == Spec => []AnsweredOnce
<1>1. IInv => AnsweredOnce
  BY DEF IInv, ReplyInv
<1> QED  BY <1>1, Invariance, PTL

(* A verdict reaches the call it is on, unless rounds have crossed.         *)
THEOREM VerdictsAreOwn == Spec => []OwnVerdict
<1>1. IInv => OwnVerdict
  BY DEF IInv
<1> QED  BY <1>1, Invariance, PTL

-----------------------------------------------------------------------------
(* No verdict is missed.                                                     *)

(* VerdictIsComing speaks of those whose handler has returned.  It is        *)
(* inductive with the one whose question ABRT has just taken: between the    *)
(* answer of Authorize and the return of the handler the user may decide.    *)
ComingInv ==
  /\ result = "unknown" => "unknown" \in mishaps
  /\ \A i \in Invocations :
       /\ reply[i] = "waiting"
       /\ i # serving \/ result = "asking"
       /\ mishaps \cap {"unknown", "restart"} = {}
       => i \in handlers /\ (session = "pending" \/ VerdictWaits)

(* ABRT asks, decides and loses the session: a verdict that is not pending   *)
(* any more has been sent.                                                   *)
LEMMA AbrtComing == IInv /\ ComingInv /\ AbrtStep => ComingInv'
<1> SUFFICES ASSUME IInv, ComingInv, AbrtStep PROVE ComingInv'
  OBVIOUS
<1>1. CASE StillAsking \/ Decide \/ Lose
  <2>1. PICK status \in Statuses :
          /\ Send(status) /\ Elsewhere
          /\ session' = "pending" \/ status # "going"
    BY <1>1 DEF StillAsking, Decide, Lose, Statuses
  <2>2. /\ VerdictWaits => VerdictWaits'
        /\ status # "going" => VerdictWaits'
    BY <2>1, SendVerdict DEF IInv
  <2> QED  BY <2>1, <2>2 DEF Elsewhere, client, ComingInv
<1>2. CASE Restart
  BY <1>2 DEF Restart, client, ComingInv
<1> QED  BY <1>1, <1>2 DEF AbrtStep

(* The handler, from the call to its return: it connects before it asks, and *)
(* keeps who waits connected.                                                *)
LEMMA HandlerComing ==
  IInv /\ ComingInv
    /\ (\/ \E i \in Invocations : HandleAuthorize(i)
        \/ GetSessionProxy \/ NoSessionProxy \/ GoOnWithoutProxy
        \/ Authorize \/ AuthorizeFails \/ AuthorizeReturns)
  => ComingInv'
<1> SUFFICES ASSUME IInv, ComingInv PROVE
      (\/ \E i \in Invocations : HandleAuthorize(i)
       \/ GetSessionProxy \/ NoSessionProxy \/ GoOnWithoutProxy
       \/ Authorize \/ AuthorizeFails \/ AuthorizeReturns)
      => ComingInv'
  OBVIOUS
<1> USE DEF abrt, client, VerdictWaits, IsVerdict
<1>1. ASSUME NEW i \in Invocations, HandleAuthorize(i) PROVE ComingInv'
  BY <1>1 DEF HandleAuthorize, IInv, TypeOK, ComingInv
<1>2. ASSUME GetSessionProxy PROVE ComingInv'
  BY <1>2 DEF GetSessionProxy, IInv, TypeOK, ComingInv
<1>3. ASSUME NoSessionProxy \/ GoOnWithoutProxy PROVE ComingInv'
  BY <1>3 DEF NoSessionProxy, GoOnWithoutProxy, IInv, TypeOK, ComingInv
<1>4. ASSUME Authorize PROVE ComingInv'
  <2>1. /\ serving \in handlers /\ mishaps \subseteq mishaps'
        /\ result' = "asking" => session' = "pending"
        /\ session' = session \/ session' = "pending"
        /\ result' = "unknown" => "unknown" \in mishaps'
        /\ UNCHANGED <<signals, serving, handlers, reply>>
    BY <1>4 DEF Authorize, StartRound, IInv, TypeOK
  <2>2. VerdictWaits' <=> VerdictWaits
    BY <2>1
  <2>3. ASSUME NEW i \in Invocations, reply'[i] = "waiting",
               i # serving' \/ result' = "asking",
               mishaps' \cap {"unknown", "restart"} = {}
        PROVE  i \in handlers' /\ (session' = "pending" \/ VerdictWaits)
    <3>1. CASE i # serving
      BY <2>1, <2>3, <3>1 DEF ComingInv
    <3>2. CASE i = serving
      BY <2>1, <2>3, <3>2
    <3> QED  BY <3>1, <3>2
  <2> QED  BY <2>1, <2>2, <2>3 DEF ComingInv
<1>5. ASSUME AuthorizeFails PROVE ComingInv'
  <2>1. /\ mishaps \subseteq mishaps'
        /\ result' = "failed"
        /\ session' = session \/ session' = "pending"
        /\ UNCHANGED <<signals, serving, handlers, reply>>
    BY <1>5 DEF AuthorizeFails, StartRound
  <2> QED  BY <2>1 DEF ComingInv
<1>6. ASSUME AuthorizeReturns PROVE ComingInv'
  <2>1. /\ \A i \in Invocations :
             reply'[i] = IF i = serving THEN ReplyAfterCall ELSE reply[i]
        /\ reply[serving] = "waiting"
        /\ ReplyAfterCall = "waiting" => result \in {"asking", "unknown"}
        /\ \A i \in handlers \ handlers' : i = serving /\ ~Waits /\ result # "failed"
        /\ UNCHANGED <<session, signals, mishaps>> /\ result' = "none"
    BY <1>6 DEF AuthorizeReturns, ReplyAfterCall, ConnectedAfterCall, Waits, IInv, TypeOK,
                ReplyInv
  <2> QED  BY <2>1 DEF ComingInv, Waits
<1> QED  BY <1>1, <1>2, <1>3, <1>4, <1>5, <1>6

(* A verdict that is dispatched answers everyone who is connected.           *)
LEMMA SignalComing == IInv /\ ComingInv /\ OnSignal => ComingInv'
<1> SUFFICES ASSUME IInv, ComingInv, OnSignal PROVE ComingInv'
  OBVIOUS
<1> DEFINE answered == {i \in handlers : reply[i] = "waiting"}
<1>1. /\ serving = NULL /\ signals # << >> /\ signals' = Tail(signals)
      /\ UNCHANGED <<session, serving, result, mishaps>>
  BY DEF OnSignal, IInv, TypeOK
<1>2. CASE ~IsVerdict(Head(signals)) /\ UNCHANGED <<client, fault>>
  <2>1. VerdictWaits => VerdictWaits'
    BY <1>1, <1>2, TakeSignal DEF IInv
  <2> QED  BY <1>1, <1>2, <2>1 DEF client, ComingInv
<1>3. CASE reply' = [i \in Invocations |->
                       IF i \notin answered THEN reply[i]
                       ELSE IF Head(signals).status = "granted" THEN "success" ELSE "error"]
  <2>1. \A i \in Invocations : reply'[i] = "waiting" => reply[i] = "waiting" /\ i \notin handlers
    BY <1>3
  <2> QED  BY <1>1, <2>1 DEF ComingInv
<1> QED  BY <1>2, <1>3 DEF OnSignal

(* Whoever waits for a verdict will be reached by one, as long as ABRT is    *)
(* not restarted and answers with a number reportd knows                     *)
(* (reportd_service_handle_authorize_problems_session, lines 316-375).  What *)
(* is left of PendingIsAnswered is that the user decides and signals are     *)
(* dispatched.                                                               *)
THEOREM NoVerdictIsMissed == Spec => []VerdictIsComing
<1>1. Init => ComingInv
  BY DEF Init, ComingInv
<1>2. IInv /\ ComingInv /\ [Next]_vars => ComingInv'
  <2>1. ComingInv /\ UNCHANGED vars => ComingInv'
    BY DEF vars, ComingInv, VerdictWaits, IsVerdict
  <2> QED
    BY <2>1, AbrtComing, HandlerComing, SignalComing DEF Next, MainStep
<1>3. ComingInv => VerdictIsComing
  BY DEF ComingInv, VerdictIsComing
<1> QED  BY <1>1, <1>2, <1>3, Invariance, PTL DEF Spec
==============================================================================
