------------------------- MODULE TransactionManager -------------------------
(***************************************************************************)
(* YdbTransactionManager.runInTransaction and the transaction context      *)
(* (src/transaction/): asynchronous tasks call it on several databases,    *)
(* nested in each other, with and without the retry policy; the context    *)
(* travels with a task (AsyncLocalStorage) and into the tasks it starts.   *)
(*                                                                         *)
(* The SDK's transaction().execute(body) is external: it opens a session   *)
(* and a transaction, invokes the body, commits, and on an error it holds  *)
(* retryable invokes the body again in a new transaction.                  *)
(***************************************************************************)
EXTENDS RetryPolicy, Sequences

CONSTANTS
  Task,      \* asynchronous tasks
  Root,      \* those that nobody started: requests, jobs
  Db,        \* identities of the logical executors
  MaxTrx,    \* bound on the transactions ever opened
  MaxDepth   \* bound on the nesting of calls, of each task

ASSUME RootAssumption == Root \subseteq Task
ASSUME BoundsAssumption == MaxTrx \in Nat /\ MaxDepth \in [Task -> Nat]

VARIABLES
  trxs,    \* the transactions opened so far: database, chain of tasks, state
  calls,   \* the runInTransaction() calls each task is in, innermost last
  base,    \* the context a task was started with
  chain    \* the task it descends from

vars == <<trxs, calls, base, chain>>

NoContext == [trx |-> 0]
NoFailure == [from |-> 0]

Context == [trx : 1..MaxTrx, db : Db, ambient : BOOLEAN]
Failure == [from : 1..MaxAttempts, kind : Kind]

(* `own`: the call opened its transaction, it did not join one.            *)
CallRecord ==
  [own : BOOLEAN, db : Db, policy : BOOLEAN, ambient : BOOLEAN,
   phase : {"open", "body", "commit", "again"},
   attempt : 1..MaxAttempts, runs : Nat, trx : 0..MaxTrx,
   last : Failure \cup {NoFailure}]

TypeOK ==
  /\ trxs \in Seq([db : Db, chain : Task, state : {"open", "committed", "rolled back"}])
  /\ Len(trxs) <= MaxTrx
  /\ calls \in [Task -> Seq(CallRecord)]
  /\ base \in [Task -> Context \cup {NoContext}]
  /\ chain \in [Task -> Task]

Init ==
  /\ trxs  = <<>>
  /\ calls = [t \in Task |-> <<>>]
  /\ base  = [t \in Task |-> NoContext]
  /\ chain = [t \in Task |-> t]

-----------------------------------------------------------------------------
(* The context. *)

In(t)    == Len(calls[t])
Call(t)  == calls[t][In(t)]

(* User code of the task runs, outside of any call or in a body.           *)
Running(t) == IF In(t) > 0 THEN Call(t).phase = "body"
                           ELSE t \in Root \/ base[t] # NoContext

ActiveTransaction(t) ==
  IF In(t) = 0 THEN base[t]
  ELSE [trx |-> Call(t).trx, db |-> Call(t).db, ambient |-> Call(t).ambient]

(* resolveOperationExecutor: what an operation of an entity of database d, *)
(* given the explicit transaction x or none (0), is sent to.               *)
ResolveOperationExecutor(t, x, d) ==
  LET active  == ActiveTransaction(t)
      ambient == active # NoContext /\ active.ambient
  IN  IF x # 0 THEN IF ambient /\ active.trx # x THEN [refused |-> TRUE] ELSE [trx |-> x]
      ELSE IF ambient THEN [trx |-> active.trx]
      ELSE [pool |-> d]

-----------------------------------------------------------------------------
(* Calls. *)

Push(t, c)   == calls' = [calls EXCEPT ![t] = Append(@, c)]
Change(t, c) == calls' = [calls EXCEPT ![t][In(t)] = c]
Pop(t)       == calls' = [calls EXCEPT ![t] = SubSeq(@, 1, In(t) - 1)]

(* A call on the database of the active transaction that may not join it   *)
(* throws; any other opens a transaction of its own.                       *)
RunInTransaction(t, d, policy, ambient) ==
  /\ Running(t) /\ In(t) < MaxDepth[t]
  /\ LET active == ActiveTransaction(t) IN active # NoContext => active.db # d
  /\ Push(t, [own |-> TRUE, db |-> d, policy |-> policy, ambient |-> ambient,
              phase |-> "open", attempt |-> 1, runs |-> 0, trx |-> 0,
              last |-> NoFailure])
  /\ UNCHANGED <<trxs, base, chain>>

(* { reuse: true }: the callback runs in the active transaction, made      *)
(* ambient on request.                                                     *)
Join(t, ambient) ==
  /\ Running(t) /\ In(t) < MaxDepth[t]
  /\ LET active == ActiveTransaction(t)
     IN  /\ active # NoContext
         /\ Push(t, [own |-> FALSE, db |-> active.db, policy |-> FALSE,
                     ambient |-> active.ambient \/ ambient,
                     phase |-> "body", attempt |-> 1, runs |-> 1,
                     trx |-> active.trx, last |-> NoFailure])
  /\ UNCHANGED <<trxs, base, chain>>

(* Mutant: the joined transaction is committed by the call that joined it. *)
LeaveCommits(t) ==
  /\ In(t) > 0 /\ Call(t).phase = "body" /\ ~Call(t).own
  /\ trxs' = [trxs EXCEPT ![Call(t).trx].state = "committed"]
  /\ Pop(t)
  /\ UNCHANGED <<base, chain>>

(* The callback of a joined transaction returned or threw. *)
Leave(t) ==
  /\ In(t) > 0 /\ Call(t).phase = "body" /\ ~Call(t).own
  /\ Pop(t)
  /\ UNCHANGED <<trxs, base, chain>>

(* The transaction function is left with error e: thrown to the caller, or  *)
(* the policy's loop opens the next one, with a failure of its own to keep. *)
Ended(t, e) ==
  IF Call(t).policy /\ TriesAgain(e, Call(t).attempt)
    THEN Change(t, [Call(t) EXCEPT !.phase = "open", !.attempt = @ + 1,
                                   !.trx = 0, !.last = NoFailure])
    ELSE Pop(t)

Close(x, state) == trxs' = [trxs EXCEPT ![x].state = state]

(* Mutant: the context of the first attempt is kept. *)
InvokeBodyInOldContext(t) ==
  /\ Len(trxs) < MaxTrx
  /\ trxs' = Append(trxs, [db |-> Call(t).db, chain |-> chain[t], state |-> "open"])
  /\ Change(t, [Call(t) EXCEPT !.phase = "body", !.runs = @ + 1,
                               !.trx = IF @ = 0 THEN Len(trxs) + 1 ELSE @])

InvokeBody(t) ==
  /\ Len(trxs) < MaxTrx
  /\ trxs' = Append(trxs, [db |-> Call(t).db, chain |-> chain[t], state |-> "open"])
  /\ Change(t, [Call(t) EXCEPT !.phase = "body", !.runs = @ + 1, !.trx = Len(trxs) + 1])

Begin(t) ==
  /\ In(t) > 0 /\ Call(t).phase = "open"
  /\ InvokeBody(t)
  /\ UNCHANGED <<base, chain>>

(* No session to be had: the SDK gives up. *)
OpenFails(t, e) ==
  /\ In(t) > 0 /\ Call(t).phase \in {"open", "again"}
  /\ Ended(t, e)
  /\ UNCHANGED <<trxs, base, chain>>

BodyReturns(t) ==
  /\ In(t) > 0 /\ Call(t).phase = "body" /\ Call(t).own
  /\ Change(t, [Call(t) EXCEPT !.phase = "commit"])
  /\ UNCHANGED <<trxs, base, chain>>

(* The SDK rolls back; it wraps what it does not retry, and to the policy   *)
(* a wrapped error is fatal.                                                *)
BodyThrows(t, e) ==
  /\ In(t) > 0 /\ Call(t).phase = "body" /\ Call(t).own
  /\ Close(Call(t).trx, "rolled back")
  /\ IF SdkRetries(e)
       THEN Change(t, [Call(t) EXCEPT
              !.phase = "again",
              !.last = IF Call(t).policy
                         THEN [kind |-> e, from |-> Call(t).attempt] ELSE @])
       ELSE Ended(t, "fatal")
  /\ UNCHANGED <<base, chain>>

Commit(t) ==
  /\ In(t) > 0 /\ Call(t).phase = "commit"
  /\ Close(Call(t).trx, "committed")
  /\ Pop(t)
  /\ UNCHANGED <<base, chain>>

(* The commit failed, with effect or without; the SDK retries the body or   *)
(* rejects with the commit's error.                                         *)
CommitFails(t, e) ==
  /\ In(t) > 0 /\ Call(t).phase = "commit"
  /\ \E state \in {"committed", "rolled back"} : Close(Call(t).trx, state)
  /\ \/ SdkRetries(e) /\ Change(t, [Call(t) EXCEPT !.phase = "again"])
     \/ Ended(t, e)
  /\ UNCHANGED <<base, chain>>

(* Mutant: the policy does not stand in the way of the SDK's own retry.    *)
InvokeAgainAlways(t) ==
  /\ In(t) > 0 /\ Call(t).phase = "again"
  /\ InvokeBody(t)
  /\ UNCHANGED <<base, chain>>

(* The SDK invokes the body again: under a policy the body throws at once,  *)
(* and the failure it kept comes out, if it kept any.                       *)
InvokeAgain(t) ==
  /\ In(t) > 0 /\ Call(t).phase = "again"
  /\ IF Call(t).policy
       THEN /\ Ended(t, IF Call(t).last = NoFailure THEN "fatal" ELSE Call(t).last.kind)
            /\ UNCHANGED trxs
       ELSE InvokeBody(t)
  /\ UNCHANGED <<base, chain>>

-----------------------------------------------------------------------------
(* Tasks. *)

(* A body or a task starts another task, awaited or not: it inherits.      *)
Spawn(t, u) ==
  /\ Running(t) /\ ActiveTransaction(t) # NoContext
  /\ u \notin Root /\ base[u] = NoContext
  /\ base'  = [base EXCEPT ![u] = ActiveTransaction(t)]
  /\ chain' = [chain EXCEPT ![u] = chain[t]]
  /\ UNCHANGED <<trxs, calls>>

TaskEnds(u) ==
  /\ In(u) = 0 /\ base[u] # NoContext
  /\ base'  = [base EXCEPT ![u] = NoContext]
  /\ chain' = [chain EXCEPT ![u] = u]
  /\ UNCHANGED <<trxs, calls>>

Next ==
  \E t \in Task :
    \/ \E d \in Db : \E policy, ambient \in BOOLEAN : RunInTransaction(t, d, policy, ambient)
    \/ \E ambient \in BOOLEAN : Join(t, ambient)
    \/ Leave(t) \/ Begin(t) \/ BodyReturns(t) \/ Commit(t) \/ InvokeAgain(t)
    \/ \E e \in Kind : OpenFails(t, e) \/ BodyThrows(t, e) \/ CommitFails(t, e)
    \/ \E u \in Task \ {t} : Spawn(t, u)
    \/ TaskEnds(t)

Spec == Init /\ [][Next]_vars

-----------------------------------------------------------------------------
CallsOf(t) == {calls[t][k] : k \in DOMAIN calls[t]}

(* "Attempts never multiply": under a policy the callback runs at most once *)
(* per attempt, however often the SDK would like to invoke it, and the      *)
(* failure that may come out of an attempt is that attempt's own.           *)
OneRunPerAttempt ==
  \A t \in Task : \A c \in CallsOf(t) :
    /\ c.policy => c.runs <= c.attempt
    /\ c.last # NoFailure => c.last.from = c.attempt

(* In the callback of a call that opened its transaction or of one that     *)
(* joined it, operations go to the transaction of the running attempt, which *)
(* is open: never to that of an attempt before.                             *)
Opened(t) == {c.trx : c \in {d \in CallsOf(t) : d.own}}

AttemptIsolated ==
  \A t \in Task : In(t) > 0 /\ Running(t) /\ Call(t).trx \in Opened(t) =>
    /\ trxs[Call(t).trx].state = "open"
    /\ \A d \in Db :
         /\ ResolveOperationExecutor(t, Call(t).trx, d) = [trx |-> Call(t).trx]
         /\ Call(t).ambient => ResolveOperationExecutor(t, 0, d) = [trx |-> Call(t).trx]

(* Commit and rollback belong to the call that opened the transaction, once *)
(* the callbacks of the calls it made have returned: joining ends nothing.  *)
EndsWithItsCall ==
  [][\A x \in DOMAIN trxs :
       trxs[x].state = "open" /\ trxs'[x].state # "open" =>
         \E t \in Task : In(t) > 0 /\ Call(t).own /\ Call(t).trx = x]_vars

(* Parallel transactions do not leak into each other: a task only sees a    *)
(* transaction opened by the tasks it descends from, or by itself.          *)
NoLeak ==
  \A t \in Task : Running(t) /\ ActiveTransaction(t) # NoContext =>
    trxs[ActiveTransaction(t).trx].chain = chain[t]

(* Whatever runs at the same time, an operation reaches the transaction it  *)
(* is written in and no other.                                             *)
ContextsIsolated == AttemptIsolated /\ NoLeak

(* An operation without an explicit transaction runs on the database of its *)
(* entity's own configuration.                                              *)
OwnDatabase ==
  \A t \in Task : Running(t) =>
    \A d \in Db :
      LET e == ResolveOperationExecutor(t, 0, d)
      IN  e = [pool |-> d] \/ trxs[e.trx].db = d

(* A task never has two transactions open on one database: the call that   *)
(* would open the second one throws.                                       *)
NoSecondTransaction ==
  \A t \in Task : \A c, d \in CallsOf(t) :
    c.own /\ d.own /\ c.phase = "body" /\ d.phase = "body" /\ c.db = d.db => c = d
=============================================================================
