---------------------------- MODULE Authorization ----------------------------
(***************************************************************************)
(* AuthorizeProblemsSession (src/reportd-service.c): reportd has one       *)
(* session with ABRT, for all its clients, and asks ABRT to authorize it.  *)
(* ABRT answers at once, or says that the user is being asked; the verdict *)
(* is then a signal, which every handler on the session's proxy gets.      *)
(*                                                                         *)
(* The calls to ABRT block the main thread: no signal is dispatched before *)
(* the handler has returned, however early ABRT sent it.                   *)
(*                                                                         *)
(* Bounds: MaxRounds on how often ABRT asks the user, MaxSignals on the    *)
(* signals that say it still does.                                         *)
(***************************************************************************)
EXTENDS Naturals, Sequences

CONSTANTS
  Invocations,  \* the calls of AuthorizeProblemsSession, from any client
  MaxRounds,    \* how many times ABRT asks the user
  MaxSignals,   \* no more notices are sent when so many signals wait
  NULL          \* no invocation

ASSUME AuthorizationAssumption ==
  MaxRounds \in Nat /\ MaxSignals \in Nat /\ NULL \notin Invocations

VARIABLES
  session,   \* ABRT's session
  round,     \* how often the user was asked
  signals,   \* AuthorizationChanged signals to dispatch, with their round
  proxy,     \* self->session_proxy: not there, good, or of an ABRT that is gone
  main,      \* where the main thread is
  serving,   \* the invocation it handles
  result,    \* what ABRT answered to Authorize
  handlers,  \* the invocations with a g-signal handler on the proxy
  reply,     \* reply[i]: how invocation i was answered
  asked,     \* asked[i]: the round that i's Authorize has started, or 0
  verdict,   \* verdict[i]: the round of the signal that answered i, or 0
  mishaps,   \* what went wrong outside, or in an unlucky order
  fault      \* was an invocation answered that had been answered?

vars == <<session, round, signals, proxy, main, serving, result, handlers, reply,
          asked, verdict, mishaps, fault>>
abrt == <<session, round, signals>>
client == <<handlers, reply, asked, verdict>>

Statuses == {"granted", "refused", "going"}
Results == {"failed", "authorized", "asking", "pending", "refused", "unknown"}

TypeOK ==
  /\ session \in {"idle", "pending", "authorized"}
  /\ round \in 0..MaxRounds
  /\ signals \in Seq([status : Statuses, round : 0..MaxRounds])
  /\ proxy \in {"none", "current", "stale"}
  /\ main \in {"idle", "proxy", "noproxy", "authorize", "answered"}
  /\ serving \in Invocations \cup {NULL}
  /\ result \in Results \cup {"none"}
  /\ handlers \subseteq Invocations
  /\ reply \in [Invocations -> {"none", "waiting", "success", "error"}]
  /\ asked \in [Invocations -> 0..MaxRounds]
  /\ verdict \in [Invocations -> 0..MaxRounds]
  /\ mishaps \subseteq {"failed", "unknown", "restart", "crossed"}
  /\ fault \in {"none", "twice"}
  /\ main = "idle" <=> serving = NULL
  /\ main = "answered" <=> result # "none"
  /\ main \in {"authorize", "answered"} => serving \in handlers
  /\ \A i \in handlers : reply[i] # "none"

Init ==
  /\ session = "idle" /\ round = 0 /\ signals = << >>
  /\ proxy = "none"
  /\ main = "idle" /\ serving = NULL /\ result = "none"
  /\ handlers = {}
  /\ reply = [i \in Invocations |-> "none"]
  /\ asked = [i \in Invocations |-> 0]
  /\ verdict = [i \in Invocations |-> 0]
  /\ mishaps = {} /\ fault = "none"

IsVerdict(signal) == signal.status # "going"

\* There is a verdict that was not dispatched yet.
VerdictWaits == \E j \in DOMAIN signals : IsVerdict(signals[j])

-----------------------------------------------------------------------------
(* ABRT, which is not part of this program.                                 *)

Send(status) == signals' = Append(signals, [status |-> status, round |-> round])

Elsewhere == UNCHANGED <<round, proxy, main, serving, result, client, mishaps, fault>>

StillAsking ==
  /\ fault = "none" /\ session = "pending" /\ Len(signals) < MaxSignals
  /\ Send("going")
  /\ Elsewhere /\ UNCHANGED session

Decide ==
  /\ fault = "none" /\ session = "pending"
  /\ \/ session' = "authorized" /\ Send("granted")
     \/ session' = "idle" /\ Send("refused")
  /\ Elsewhere

Lose ==
  /\ fault = "none" /\ session = "authorized"
  /\ session' = "idle" /\ Send("refused")
  /\ Elsewhere

(* ABRT is started again: the path of the session means nothing any more,   *)
(* and no verdict comes.                                                    *)
Restart ==
  /\ fault = "none" /\ proxy = "current"
  /\ proxy' = "stale" /\ session' = "idle"
  /\ mishaps' = mishaps \cup {"restart"}
  /\ UNCHANGED <<round, signals, main, serving, result, client, fault>>

(* The user is asked anew; a verdict on an earlier round may still wait.     *)
StartRound(trouble) ==
  /\ session = "idle" /\ round < MaxRounds
  /\ session' = "pending" /\ round' = round + 1
  /\ mishaps' = mishaps \cup trouble \cup (IF VerdictWaits THEN {"crossed"} ELSE {})

-----------------------------------------------------------------------------
(* The handler of the call, on the main thread.                             *)

HandleAuthorize(i) ==
  /\ fault = "none" /\ main = "idle" /\ reply[i] = "none"
  /\ main' = "proxy" /\ serving' = i
  /\ reply' = [reply EXCEPT ![i] = "waiting"]
  /\ UNCHANGED <<abrt, proxy, result, handlers, asked, verdict, mishaps, fault>>

(* reportd_service_get_session_proxy: the proxy is made once, and kept.     *)
(* Then the invocation is connected to its signals, before ABRT is asked.   *)
GetSessionProxy ==
  /\ fault = "none" /\ main = "proxy"
  /\ proxy' = IF proxy = "none" THEN "current" ELSE proxy
  /\ main' = "authorize"
  /\ handlers' = handlers \cup {serving}
  /\ UNCHANGED <<abrt, serving, result, reply, asked, verdict, mishaps, fault>>

(* One of the three calls it takes fails, and the client is told.           *)
NoSessionProxy ==
  /\ fault = "none" /\ main = "proxy" /\ proxy = "none"
  /\ main' = "noproxy"
  /\ reply' = [reply EXCEPT ![serving] = "error"]
  /\ mishaps' = mishaps \cup {"failed"}
  /\ UNCHANGED <<abrt, proxy, serving, result, handlers, asked, verdict, fault>>

(* The handler does not return there: the call through no proxy fails too,  *)
(* and the same invocation is answered again.                               *)
GoOnWithoutProxy ==
  /\ fault = "none" /\ main = "noproxy"
  /\ fault' = "twice"
  /\ UNCHANGED <<abrt, proxy, main, serving, result, client, mishaps>>

(* ABRT takes the Authorize call and answers it.                            *)
Authorize ==
  /\ fault = "none" /\ main = "authorize" /\ proxy = "current"
  /\ main' = "answered"
  /\ \/ session = "authorized" /\ result' = "authorized"
        /\ UNCHANGED <<session, round, asked, mishaps>>
     \/ session = "pending" /\ result' = "pending"
        /\ UNCHANGED <<session, round, asked, mishaps>>
     \/ session = "idle" /\ result' = "refused"
        /\ UNCHANGED <<session, round, asked, mishaps>>
     \/ StartRound({}) /\ result' = "asking"
        /\ asked' = [asked EXCEPT ![serving] = round + 1]
     \/ result' = "unknown" /\ mishaps' = mishaps \cup {"unknown"}
        /\ UNCHANGED <<session, round, asked>>
  /\ UNCHANGED <<signals, proxy, serving, handlers, reply, verdict, fault>>

(* The call fails: always through a proxy of an ABRT that is gone, and      *)
(* otherwise before or after ABRT has taken it.                             *)
AuthorizeFails ==
  /\ fault = "none" /\ main = "authorize"
  /\ main' = "answered" /\ result' = "failed"
  /\ \/ mishaps' = mishaps \cup {"failed"} /\ UNCHANGED <<session, round>>
     \/ proxy = "current" /\ StartRound({"failed"})
  /\ UNCHANGED <<signals, proxy, serving, client, fault>>

\* Mutant: a client whose call finds the session pending waits as well.
WaitsWhenPending == result \in {"asking", "pending"}

\* The verdict is to come in a signal.
Waits == result = "asking"

\* Mutant: the handler is disconnected although a verdict is to come.
DisconnectedAnyway == IF result = "failed" THEN handlers ELSE handlers \ {serving}

\* A failed call leaves the handler connected to an answered invocation.
ConnectedAfterCall ==
  IF Waits \/ result = "failed" THEN handlers ELSE handlers \ {serving}

\* A result that is not known answers nothing.
ReplyAfterCall ==
  IF result = "authorized" THEN "success"
  ELSE IF Waits \/ result = "unknown" THEN "waiting" ELSE "error"

(* The rest of reportd_service_handle_authorize_problems_session.           *)
AuthorizeReturns ==
  /\ fault = "none" /\ main = "answered"
  /\ main' = "idle" /\ serving' = NULL /\ result' = "none"
  /\ reply' = [reply EXCEPT ![serving] = ReplyAfterCall]
  /\ handlers' = ConnectedAfterCall
  /\ UNCHANGED <<abrt, proxy, asked, verdict, mishaps, fault>>

-----------------------------------------------------------------------------
(* reportd_service_on_session_proxy_g_signal, for every handler.            *)

\* Mutant: the handlers stay connected.
StillConnected == handlers

\* A verdict disconnects the handlers it answers.
ConnectedAfterVerdict == {}

OnSignal ==
  /\ fault = "none" /\ main = "idle" /\ signals # << >>
  /\ signals' = Tail(signals)
  /\ LET signal == Head(signals)
         answered == {i \in handlers : reply[i] = "waiting"}
     IN
     \/ ~IsVerdict(signal) /\ UNCHANGED <<client, fault>>
     \/ /\ IsVerdict(signal)
        /\ fault' = IF handlers \subseteq answered THEN fault ELSE "twice"
        /\ reply' = [i \in Invocations |->
                       IF i \notin answered THEN reply[i]
                       ELSE IF signal.status = "granted" THEN "success" ELSE "error"]
        /\ verdict' = [i \in Invocations |->
                         IF i \in answered THEN signal.round ELSE verdict[i]]
        /\ handlers' = ConnectedAfterVerdict
        /\ UNCHANGED asked
  /\ UNCHANGED <<session, round, proxy, main, serving, result, mishaps>>

MainStep ==
  \/ GetSessionProxy \/ NoSessionProxy \/ GoOnWithoutProxy
  \/ Authorize \/ AuthorizeFails \/ AuthorizeReturns \/ OnSignal

AbrtStep == StillAsking \/ Decide \/ Lose \/ Restart

Next == MainStep \/ AbrtStep \/ \E i \in Invocations : HandleAuthorize(i)

Spec == Init /\ [][Next]_vars

(* The main thread goes on, and dispatches signals when it has nothing else *)
(* to do; the user answers ABRT's question some time.  No client has to     *)
(* call.                                                                    *)
FairSpec == Spec /\ WF_vars(MainStep) /\ SF_vars(OnSignal) /\ WF_vars(Decide)

-----------------------------------------------------------------------------
(* Safety.                                                                  *)

(* As long as no call to ABRT fails, no invocation is answered twice: not   *)
(* by the verdicts of later rounds, and not by a verdict that comes while   *)
(* the answer of Authorize is looked at.  An answered invocation is freed.  *)
AnsweredOnce == fault # "none" => "failed" \in mishaps

(* A client gets the verdict on the question its own call made ABRT ask;    *)
(* the only way to another's is a round started before the verdict on the   *)
(* one before it was dispatched.                                            *)
OwnVerdict ==
  \A i \in Invocations :
    verdict[i] # 0 /\ "crossed" \notin mishaps => verdict[i] = asked[i]

(* No verdict is missed: whoever waits after its handler has returned is    *)
(* connected to the signal, and ABRT is still asking the user or has sent   *)
(* a verdict that was not dispatched yet; even a verdict on another round.  *)
(* The order matters: connect first, ask then (reportd-service.c:316, 320). *)
VerdictIsComing ==
  \A i \in Invocations :
    reply[i] = "waiting" /\ i # serving /\ mishaps \cap {"unknown", "restart"} = {} =>
      i \in handlers /\ (session = "pending" \/ VerdictWaits)

-----------------------------------------------------------------------------
(* Liveness.                                                                *)

(* Every call is answered, the ones that wait for a verdict too; not when   *)
(* ABRT answers with a number reportd does not know, or is restarted.       *)
PendingIsAnswered ==
  \A i \in Invocations :
    reply[i] = "waiting" ~>
      \/ reply[i] # "waiting" \/ fault # "none"
      \/ mishaps \cap {"unknown", "restart"} # {}
==============================================================================
