---------------------------- MODULE PolicyQuery ----------------------------
(***************************************************************************)
(* One query through an executor with a retry policy (createPolicyQuery,   *)
(* src/core/retry-executor.ts): a proxy that may be awaited by several     *)
(* subscribers, cancelled at any moment, and that runs on an SDK query     *)
(* which has a retry loop of its own (external).                           *)
(***************************************************************************)
EXTENDS RetryPolicy

CONSTANT Subscriber   \* the .then()s on the query

VARIABLES
  marked,     \* markedIdempotent
  cancelled,  \* the operation signal: user's, policy's or .cancel()
  pc,         \* where the shared execution is
  attempt,    \* attempt of runWithRetry
  failure,    \* what the SDK attempt failed with
  made,       \* calls that reached the database
  effects,    \* calls that took effect there
  settled,    \* the shared promise
  heard       \* what each subscriber was told

queryVars == <<marked, cancelled, pc, attempt, failure, made, effects, settled, heard>>

Outcome == {"ok"} \cup Kind
Nothing == "nothing"

QueryTypeOK ==
  /\ marked \in {"unset", "yes", "no"}
  /\ cancelled \in BOOLEAN
  /\ pc \in {"built", "next", "call", "sdk.wait", "sleep", "done"}
  /\ attempt \in 0..MaxAttempts
  /\ failure \in Kind \cup {Nothing}
  /\ made \in Nat /\ effects \in Nat
  /\ settled \in Outcome \cup {"pending", Nothing}
  /\ heard \in [Subscriber -> Outcome \cup {"waits", Nothing}]

QueryInit ==
  /\ marked = "unset" /\ cancelled = FALSE
  /\ pc = "built" /\ attempt = 0 /\ failure = Nothing
  /\ made = 0 /\ effects = 0
  /\ settled = Nothing
  /\ heard = [s \in Subscriber |-> Nothing]

-----------------------------------------------------------------------------
(* The builder and its users. *)

(* After the first .then() it throws. *)
Idempotent(flag) ==
  /\ pc = "built"
  /\ marked' = IF flag THEN "yes" ELSE "no"
  /\ UNCHANGED <<cancelled, pc, attempt, failure, made, effects, settled, heard>>

Cancel ==
  /\ ~cancelled
  /\ cancelled' = TRUE
  /\ UNCHANGED <<marked, pc, attempt, failure, made, effects, settled, heard>>

(* The first subscriber starts the execution, the others join it. *)
Then(s) ==
  /\ heard[s] = Nothing
  /\ heard' = [heard EXCEPT ![s] = "waits"]
  /\ IF settled = Nothing
       THEN settled' = "pending" /\ pc' = "next" /\ attempt' = 1
       ELSE UNCHANGED <<settled, pc, attempt>>
  /\ UNCHANGED <<marked, cancelled, failure, made, effects>>

Deliver(s) ==
  /\ heard[s] = "waits" /\ settled \in Outcome
  /\ heard' = [heard EXCEPT ![s] = settled]
  /\ UNCHANGED <<marked, cancelled, pc, attempt, failure, made, effects, settled>>

-----------------------------------------------------------------------------
(* The execution. *)

Settle(outcome) == settled' = outcome /\ pc' = "done" /\ UNCHANGED attempt

(* Mutant: the policy retries unmarked queries as well. *)
AttemptEndedIgnoringMark(e) ==
  IF TriesAgain(e, attempt)
    THEN pc' = "sleep" /\ UNCHANGED <<settled, attempt>>
    ELSE Settle(e)

(* An attempt ended in e: runWithRetry decides for a marked query; any other *)
(* had its one attempt.                                                     *)
AttemptEnded(e) ==
  IF marked = "yes" /\ TriesAgain(e, attempt)
    THEN pc' = "sleep" /\ UNCHANGED <<settled, attempt>>
    ELSE Settle(e)

(* Mutant: an aborted operation is dropped without an answer. *)
RefuseSilently ==
  /\ pc = "next" /\ cancelled
  /\ pc' = "done"
  /\ UNCHANGED <<marked, cancelled, attempt, failure, made, effects, settled, heard>>

(* The signal is looked at before every attempt. *)
Refuse ==
  /\ pc = "next" /\ cancelled
  /\ Settle("abort")
  /\ UNCHANGED <<marked, cancelled, failure, made, effects, heard>>

CallDatabase ==
  /\ pc = "next" /\ ~cancelled
  /\ pc' = "call"
  /\ failure' = Nothing
  /\ made' = made + 1
  /\ UNCHANGED <<marked, cancelled, attempt, effects, settled, heard>>

CallSucceeds ==
  /\ pc = "call"
  /\ effects' = effects + 1
  /\ Settle("ok")
  /\ UNCHANGED <<marked, cancelled, failure, made, heard>>

(* The call fails, having taken effect or not; the SDK lays errors it would *)
(* retry aside until its own delay is over.                                 *)
CallFails(e) ==
  /\ pc = "call"
  /\ e = "abort" => cancelled
  /\ effects' \in {effects, effects + 1}
  /\ failure' = e
  /\ IF SdkRetries(e) THEN pc' = "sdk.wait" /\ UNCHANGED <<settled, attempt>>
                      ELSE AttemptEnded(e)
  /\ UNCHANGED <<marked, cancelled, made, heard>>

(* Mutants: the SDK is left to call again; its abort is taken for the error. *)
OnSdkRetryLetsGo ==
  /\ pc = "sdk.wait"
  /\ pc' = "call" /\ made' = made + 1
  /\ UNCHANGED <<marked, cancelled, attempt, failure, effects, settled, heard>>

OnSdkRetryUncaptured ==
  /\ pc = "sdk.wait"
  /\ AttemptEnded("abort")
  /\ UNCHANGED <<marked, cancelled, failure, made, effects, heard>>

(* The SDK announces its next attempt; the proxy captures the error and     *)
(* aborts the attempt, so the SDK throws before it calls again.             *)
OnSdkRetry ==
  /\ pc = "sdk.wait"
  /\ AttemptEnded(failure)
  /\ UNCHANGED <<marked, cancelled, failure, made, effects, heard>>

(* Cancelled during the SDK's delay: nothing was captured. *)
SdkWaitCancelled ==
  /\ pc = "sdk.wait" /\ cancelled
  /\ AttemptEnded("abort")
  /\ UNCHANGED <<marked, cancelled, failure, made, effects, heard>>

SleepOver ==
  /\ pc = "sleep"
  /\ attempt' = attempt + 1
  /\ pc' = "next"
  /\ UNCHANGED <<marked, cancelled, failure, made, effects, settled, heard>>

SleepCancelled ==
  /\ pc = "sleep" /\ cancelled
  /\ Settle("abort")
  /\ UNCHANGED <<marked, cancelled, failure, made, effects, heard>>

Step ==
  \/ Refuse \/ CallDatabase \/ CallSucceeds \/ (\E e \in Kind : CallFails(e))
  \/ OnSdkRetry \/ SdkWaitCancelled \/ SleepOver \/ SleepCancelled

QueryNext ==
  \/ \E flag \in BOOLEAN : Idempotent(flag)
  \/ Cancel
  \/ \E s \in Subscriber : Then(s) \/ Deliver(s)
  \/ Step

QuerySpec == QueryInit /\ [][QueryNext]_queryVars

(* The database answers, timers fire and promises are delivered. *)
FairQuerySpec ==
  QuerySpec /\ WF_queryVars(Step) /\ \A s \in Subscriber : WF_queryVars(Deliver(s))

-----------------------------------------------------------------------------
(* A query not marked idempotent reaches the database once at most, whoever *)
(* awaits it and whatever the SDK would like: its effect is not doubled.    *)
UnmarkedOnce == marked # "yes" => made <= 1 /\ effects <= 1

(* The two retry loops do not multiply. *)
CallsBounded == made <= MaxAttempts

(* After a cancellation, or once it is settled, a query makes no new call. *)
NoLateCall == [][cancelled \/ settled \in Outcome => made' = made]_queryVars

(* What the caller is told is what happened: success only with an effect,   *)
(* `aborted` only if someone cancelled (never because the proxy aborted the *)
(* SDK's own retry), and an error as the last attempt gave it.              *)
HonestOutcome ==
  settled \in Outcome =>
    /\ settled = "ok" => effects > 0
    /\ settled = "abort" => cancelled
    /\ settled \in Kind \ {"abort"} => settled = failure

(* All subscribers hear one outcome. *)
OneOutcome ==
  \A s, t \in Subscriber :
    heard[s] \in Outcome /\ heard[t] \in Outcome => heard[s] = heard[t]

(* Whoever awaits the query hears of it. *)
EveryoneHears == \A s \in Subscriber : heard[s] = "waits" ~> heard[s] \in Outcome
=============================================================================
