---------------------------- MODULE RetryPolicy ----------------------------
(***************************************************************************)
(* The retry policy (src/core/retry.ts): which errors it retries and how   *)
(* the loop of runWithRetry goes on after one.  Errors are kinds:          *)
(*   "transient"  ABORTED, UNAVAILABLE, OVERLOADED                         *)
(*   "session"    statuses only the SDK retries by itself (BAD_SESSION...) *)
(*   "fatal"      everything else: application errors, wrapped errors      *)
(*   "abort"      the reason of an abort signal                            *)
(***************************************************************************)
EXTENDS Naturals

CONSTANTS
  MaxAttempts,  \* maxAttempts of the policy
  Retried       \* the kinds shouldRetry accepts; by default {"transient"}

Kind == {"transient", "session", "fatal", "abort"}

ASSUME AttemptsAssumption == MaxAttempts \in Nat \ {0}
ASSUME RetriedAssumption  == Retried \subseteq Kind

(* The SDK retries by itself, without asking, what it holds retryable.      *)
SdkRetries(e) == e \in {"transient", "session"}

(* runWithRetry, after an attempt ended in e: again, or throw e.            *)
TriesAgain(e, attempt) == e \in Retried /\ attempt # MaxAttempts


=============================================================================
