------------------------------ MODULE RetryProofs ------------------------------
(* What retrying promises, to the two users of the retry policy: a query   *)
(* that is run by itself, for every number of attempts, every set of       *)
(* retried errors and any number of subscribers; and the calls of a task   *)
(* in transactions, for any tasks, databases and policies, and for any     *)
(* bounds on the transactions and on the nesting of the calls.             *)
EXTENDS PolicyQuery, TransactionManager, SequenceTheorems, TLAPS

-----------------------------------------------------------------------------
(* A query (PolicyQuery). *)

(* What the execution has done so far, by where it is.                     *)
Progress ==
  /\ pc = "built" => attempt = 0 /\ made = 0 /\ effects = 0
  /\ pc = "next"  => made = attempt - 1 /\ effects <= made
  /\ pc = "call"  => made = attempt /\ effects < made
  /\ pc \in {"sdk.wait", "sleep"} => made = attempt /\ effects <= made
  /\ pc = "done"  => made <= attempt /\ effects <= made
  /\ pc # "built" => attempt >= 1
  /\ pc = "sleep" => marked = "yes" /\ attempt # MaxAttempts
  /\ marked # "yes" => attempt <= 1

(* The shared promise and where the execution is.                          *)
Shared ==
  /\ pc = "built" <=> settled = Nothing
  /\ pc = "done"  <=> settled \in Outcome

(* What an error says.                                                     *)
Told ==
  /\ pc = "sdk.wait" => SdkRetries(failure)
  /\ failure = "abort" => cancelled
  /\ HonestOutcome

Heard == \A s \in Subscriber : heard[s] \in Outcome => heard[s] = settled

QueryIInv == QueryTypeOK /\ Progress /\ Shared /\ Told /\ Heard

-----------------------------------------------------------------------------
(* The initial state satisfies the invariant. *)
LEMMA QueryInitIInv == QueryInit => QueryIInv
<1> SUFFICES ASSUME QueryInit PROVE QueryIInv
  OBVIOUS
<1>1. QueryTypeOK
  <2>1. 0 \in 0..MaxAttempts
    BY AttemptsAssumption
  <2>2. heard \in [Subscriber -> Outcome \cup {"waits", Nothing}]
    BY DEF QueryInit
  <2>3. QED BY <2>1, <2>2 DEF QueryInit, QueryTypeOK
<1>2. Progress
  BY DEF QueryInit, Progress
<1>3. Shared /\ Told
  BY DEF QueryInit, Shared, Told, HonestOutcome, Outcome, Kind, Nothing
<1>4. Heard
  BY DEF QueryInit, Heard, Outcome, Kind, Nothing
<1>5. QED BY <1>1, <1>2, <1>3, <1>4 DEF QueryIInv

(* The parts of the invariant a step of the builder, of a user or of the    *)
(* execution must keep.                                                    *)
LEMMA QueryStepIInv == QueryIInv /\ [QueryNext]_queryVars => QueryIInv'
<1> SUFFICES ASSUME QueryIInv, [QueryNext]_queryVars PROVE QueryIInv'
  OBVIOUS
<1> USE AttemptsAssumption, RetriedAssumption DEF QueryIInv, QueryTypeOK, Outcome, Kind, Nothing
<1>1. ASSUME NEW flag \in BOOLEAN, Idempotent(flag) PROVE QueryIInv'
  BY <1>1 DEF Idempotent, Progress, Shared, Told, HonestOutcome, Heard, SdkRetries
<1>2. CASE Cancel
  BY <1>2 DEF Cancel, Progress, Shared, Told, HonestOutcome, Heard, SdkRetries
<1>3. ASSUME NEW s \in Subscriber, Then(s) PROVE QueryIInv'
  <2>1. QueryTypeOK'
    BY <1>3 DEF Then, Shared
  <2>2. Progress' /\ Shared' /\ Told'
    BY <1>3 DEF Then, Progress, Shared, Told, HonestOutcome, SdkRetries
  <2>3. Heard'
    BY <1>3 DEF Then, Heard, Shared
  <2>4. QED BY <2>1, <2>2, <2>3
<1>4. ASSUME NEW s \in Subscriber, Deliver(s) PROVE QueryIInv'
  BY <1>4 DEF Deliver, Progress, Shared, Told, HonestOutcome, Heard, SdkRetries
<1>5. CASE Refuse
  BY <1>5 DEF Refuse, Settle, Progress, Shared, Told, HonestOutcome, Heard, SdkRetries
<1>6. CASE CallDatabase
  BY <1>6 DEF CallDatabase, Progress, Shared, Told, HonestOutcome, Heard, SdkRetries
<1>7. CASE CallSucceeds
  BY <1>7 DEF CallSucceeds, Settle, Progress, Shared, Told, HonestOutcome, Heard, SdkRetries
<1>8. ASSUME NEW e \in Kind, CallFails(e) PROVE QueryIInv'
  <2>1. CASE SdkRetries(e)
    BY <1>8, <2>1
    DEF CallFails, Progress, Shared, Told, HonestOutcome, Heard, SdkRetries
  <2>2. CASE ~SdkRetries(e)
    BY <1>8, <2>2
    DEF CallFails, AttemptEnded, Settle, TriesAgain, Progress, Shared, Told, HonestOutcome,
        Heard, SdkRetries
  <2>3. QED BY <2>1, <2>2
<1>9. CASE OnSdkRetry
  BY <1>9
  DEF OnSdkRetry, AttemptEnded, Settle, TriesAgain, Progress, Shared, Told, HonestOutcome,
      Heard, SdkRetries
<1>10. CASE SdkWaitCancelled
  BY <1>10
  DEF SdkWaitCancelled, AttemptEnded, Settle, TriesAgain, Progress, Shared, Told,
      HonestOutcome, Heard, SdkRetries
<1>11. CASE SleepOver
  BY <1>11 DEF SleepOver, Progress, Shared, Told, HonestOutcome, Heard, SdkRetries
<1>12. CASE SleepCancelled
  BY <1>12 DEF SleepCancelled, Settle, Progress, Shared, Told, HonestOutcome, Heard,
               SdkRetries
<1>13. CASE UNCHANGED queryVars
  BY <1>13 DEF queryVars, Progress, Shared, Told, HonestOutcome, Heard, SdkRetries
<1>14. QED
  BY <1>1, <1>2, <1>3, <1>4, <1>5, <1>6, <1>7, <1>8, <1>9, <1>10, <1>11, <1>12, <1>13
  DEF QueryNext, Step

LEMMA QueryInvariance == QuerySpec => []QueryIInv
  BY QueryInitIInv, QueryStepIInv, PTL DEF QuerySpec

-----------------------------------------------------------------------------
(* The proxy's variables keep their types, at any number of attempts.      *)
THEOREM QueryTypeCorrect == QuerySpec => []QueryTypeOK
  BY QueryInvariance, PTL DEF QueryIInv

(* A query that was not marked reaches the database once at most.          *)
THEOREM FailSafe == QuerySpec => []UnmarkedOnce
<1>1. QueryIInv => UnmarkedOnce
  BY DEF QueryIInv, QueryTypeOK, Progress, UnmarkedOnce
<1>2. QED BY <1>1, QueryInvariance, PTL

(* Attempts do not multiply: maxAttempts bounds the calls.                 *)
THEOREM AttemptsDoNotMultiply == QuerySpec => []CallsBounded
<1>1. QueryIInv => CallsBounded
  BY AttemptsAssumption DEF QueryIInv, QueryTypeOK, Progress, CallsBounded
<1>2. QED BY <1>1, QueryInvariance, PTL

(* The outcome told is the outcome had.                                    *)
THEOREM Honesty == QuerySpec => []HonestOutcome
  BY QueryInvariance, PTL DEF QueryIInv, Told

(* All subscribers hear the same.                                          *)
THEOREM SharedOutcome == QuerySpec => []OneOutcome
<1>1. QueryIInv => OneOutcome
  BY DEF QueryIInv, Heard, OneOutcome
<1>2. QED BY <1>1, QueryInvariance, PTL

(* Neither a cancelled nor a settled query calls the database.             *)
THEOREM NoCallAfterEnd == QuerySpec => NoLateCall
<1>1. QueryIInv /\ [QueryNext]_queryVars => [cancelled \/ settled \in Outcome => made' = made]_queryVars
  <2> SUFFICES ASSUME QueryIInv, QueryNext, cancelled \/ settled \in Outcome PROVE made' = made
    BY DEF queryVars
  <2>1. CASE CallDatabase
    BY <2>1 DEF QueryIInv, Shared, CallDatabase
  <2>2. CASE ~CallDatabase
    BY <2>2
    DEF QueryNext, Step, Idempotent, Cancel, Then, Deliver, Refuse, CallSucceeds, CallFails,
        OnSdkRetry, SdkWaitCancelled, SleepOver, SleepCancelled
  <2>3. QED BY <2>1, <2>2
<1>2. QED BY <1>1, QueryInvariance, PTL DEF QuerySpec, NoLateCall

-----------------------------------------------------------------------------
(* Transactions (TransactionManager). *)

Transaction == [db : Db, chain : Task, state : {"open", "committed", "rolled back"}]

(* The call has its transaction open in the SDK. *)
Holds(c) == c.own /\ c.phase \in {"body", "commit"}

Good(t, c) ==
  /\ ~c.own => c.phase = "body" /\ ~c.policy /\ c.last = NoFailure
  /\ c.phase \in {"body", "commit"} =>
       /\ c.trx \in 1..Len(trxs)
       /\ trxs[c.trx].chain = chain[t]
       /\ c.own => trxs[c.trx].state = "open"
  /\ c.policy => c.runs <= c.attempt /\ (c.phase = "open" => c.runs < c.attempt)
  /\ c.last # NoFailure => c.last.from = c.attempt

(* Only the innermost call of a task can be outside its body.              *)
Stacked == \A t \in Task : \A k \in 1..In(t) :
  /\ Good(t, calls[t][k])
  /\ k < In(t) => calls[t][k].phase = "body"

(* No two calls have one transaction open. *)
Sole == \A t, u \in Task : \A k \in 1..In(t), m \in 1..In(u) :
  Holds(calls[t][k]) /\ Holds(calls[u][m]) /\ calls[t][k].trx = calls[u][m].trx =>
    t = u /\ k = m

(* What a task inherited is of its own chain; a task that was not started  *)
(* makes no calls.                                                         *)
Inherited == \A t \in Task :
  /\ base[t] # NoContext => /\ base[t].trx \in 1..Len(trxs)
                            /\ trxs[base[t].trx].chain = chain[t]
  /\ t \in Root \/ base[t] # NoContext \/ In(t) = 0

IInv == TypeOK /\ Stacked /\ Sole /\ Inherited

-----------------------------------------------------------------------------
(* The calls of a task as a stack. *)

LEMMA Stack ==
  ASSUME TypeOK, NEW t \in Task
  PROVE  /\ In(t) \in Nat
         /\ \A k \in 1..In(t) : calls[t][k] \in CallRecord
         /\ In(t) > 0 => In(t) \in 1..In(t) /\ Call(t) \in CallRecord
<1>1. calls[t] \in Seq(CallRecord)
  BY DEF TypeOK
<1> QED
  BY <1>1, ElementOfSeq, LenProperties DEF In, Call

LEMMA Pushed ==
  ASSUME TypeOK, NEW t \in Task, NEW c \in CallRecord, Push(t, c)
  PROVE  /\ calls' \in [Task -> Seq(CallRecord)]
         /\ \A u \in Task : u # t => calls'[u] = calls[u]
         /\ In(t)' = In(t) + 1
         /\ \A k \in 1..In(t) : calls'[t][k] = calls[t][k]
         /\ calls'[t][In(t) + 1] = c
<1> DEFINE longer == Append(calls[t], c)
<1>1. calls[t] \in Seq(CallRecord) /\ calls' = [calls EXCEPT ![t] = longer]
  BY DEF TypeOK, Push
<1>2. /\ longer \in Seq(CallRecord) /\ Len(longer) = Len(calls[t]) + 1
      /\ \A k \in 1..Len(calls[t]) : longer[k] = calls[t][k]
      /\ longer[Len(calls[t]) + 1] = c
  BY <1>1, AppendProperties
<1> HIDE DEF longer
<1> QED
  BY <1>1, <1>2 DEF TypeOK, In

LEMMA Changed ==
  ASSUME TypeOK, NEW t \in Task, In(t) > 0, NEW c \in CallRecord, Change(t, c)
  PROVE  /\ calls' \in [Task -> Seq(CallRecord)]
         /\ \A u \in Task : u # t => calls'[u] = calls[u]
         /\ In(t)' = In(t)
         /\ \A k \in 1..In(t) : calls'[t][k] = IF k = In(t) THEN c ELSE calls[t][k]
<1> DEFINE changed == [calls[t] EXCEPT ![In(t)] = c]
<1>1. calls[t] \in Seq(CallRecord) /\ calls' = [calls EXCEPT ![t] = changed]
  BY DEF TypeOK, Change
<1>2. In(t) \in 1..Len(calls[t])
  BY Stack DEF In
<1>3. /\ changed \in Seq(CallRecord) /\ Len(changed) = Len(calls[t])
      /\ \A k \in 1..Len(calls[t]) : changed[k] = IF k = In(t) THEN c ELSE calls[t][k]
  BY <1>1, <1>2, ExceptSeq
<1> HIDE DEF changed
<1> QED
  BY <1>1, <1>3 DEF TypeOK, In

LEMMA Popped ==
  ASSUME TypeOK, NEW t \in Task, In(t) > 0, Pop(t)
  PROVE  /\ calls' \in [Task -> Seq(CallRecord)]
         /\ \A u \in Task : u # t => calls'[u] = calls[u]
         /\ In(t)' = In(t) - 1
         /\ \A k \in 1..(In(t) - 1) : calls'[t][k] = calls[t][k]
<1> DEFINE rest == SubSeq(calls[t], 1, In(t) - 1)
<1>1. calls' = [calls EXCEPT ![t] = rest] /\ In(t) \in Nat
  BY Stack DEF Pop
<1>2. \A k \in 1..(In(t) - 1) : calls[t][k] \in CallRecord
  BY Stack
<1>3. /\ rest \in Seq(CallRecord)
      /\ Len(rest) = IF 1 <= In(t) - 1 THEN In(t) - 1 - 1 + 1 ELSE 0
      /\ \A k \in 1..(In(t) - 1 - 1 + 1) : rest[k] = calls[t][1 + k - 1]
  BY <1>1, <1>2, SubSeqProperties
<1> HIDE DEF rest
<1>4. Len(rest) = In(t) - 1 /\ \A k \in 1..(In(t) - 1) : rest[k] = calls[t][k]
  BY <1>1, <1>3
<1> QED
  BY <1>1, <1>3, <1>4 DEF TypeOK, In

-----------------------------------------------------------------------------
(* The transactions, as a step of task t moves them: new ones come at the  *)
(* end, and one that is ended is the one t's innermost call has open.      *)
Moved(t) ==
  /\ trxs' \in Seq(Transaction) /\ Len(trxs') <= MaxTrx
  /\ Len(trxs) <= Len(trxs')
  /\ \A x \in 1..Len(trxs) :
       /\ trxs'[x].chain = trxs[x].chain
       /\ \/ trxs'[x].state = trxs[x].state
          \/ In(t) > 0 /\ Holds(Call(t)) /\ x = Call(t).trx

LEMMA Trxs == ASSUME TypeOK PROVE trxs \in Seq(Transaction) /\ Len(trxs) \in Nat
BY LenProperties DEF TypeOK, Transaction

LEMMA MovedNowhere == ASSUME TypeOK, NEW t \in Task, trxs' = trxs PROVE Moved(t)
<1>1. trxs \in Seq(Transaction) /\ Len(trxs) \in Nat /\ Len(trxs) <= MaxTrx
  BY Trxs DEF TypeOK
<1> QED
  BY <1>1 DEF Moved

Replaced(s, r, x, e) ==
  /\ r \in Seq(Transaction) /\ Len(r) = Len(s)
  /\ \A y \in 1..Len(s) : r[y] = IF y = x THEN e ELSE s[y]

LEMMA ReplacedTrx ==
  ASSUME NEW s \in Seq(Transaction), NEW x \in 1..Len(s), NEW e \in Transaction
  PROVE  Replaced(s, [s EXCEPT ![x] = e], x, e)
BY ExceptSeq DEF Replaced

LEMMA ReplacedLength ==
  ASSUME NEW s \in Seq(Transaction), NEW r, NEW x, NEW e, Replaced(s, r, x, e),
         Len(s) <= MaxTrx
  PROVE  r \in Seq(Transaction) /\ Len(r) <= MaxTrx /\ Len(s) <= Len(r)
BY LenProperties DEF Replaced

LEMMA ClosedTrx ==
  ASSUME IInv, NEW t \in Task, In(t) > 0, Holds(Call(t)),
         NEW state \in {"committed", "rolled back"}, Close(Call(t).trx, state)
  PROVE  Moved(t)
<1>0. TypeOK /\ trxs \in Seq(Transaction) /\ Len(trxs) <= MaxTrx /\ Len(trxs) \in Nat
  BY Trxs DEF IInv, TypeOK
<1>1. PICK x \in 1..Len(trxs) : x = Call(t).trx
  BY <1>0, Stack DEF IInv, Stacked, Good, Holds, Call
<1>2. trxs[x] \in Transaction
  BY <1>0, ElementOfSeq
<1>3. PICK ended \in Transaction : ended = [trxs[x] EXCEPT !.state = state]
  BY <1>2 DEF Transaction
<1>4. ended.chain = trxs[x].chain
  BY <1>2, <1>3 DEF Transaction
<1>5. trxs' = [trxs EXCEPT ![x] = ended]
  BY <1>1, <1>3 DEF Close
<1>6. Replaced(trxs, trxs', x, ended)
  BY <1>0, <1>5, ReplacedTrx
<1>7. \A y \in 1..Len(trxs) :
        /\ trxs'[y].chain = trxs[y].chain
        /\ trxs'[y].state = trxs[y].state \/ y = x
  BY <1>4, <1>6 DEF Replaced
<1>8. trxs' \in Seq(Transaction) /\ Len(trxs') <= MaxTrx /\ Len(trxs) <= Len(trxs')
  BY <1>0, <1>6, ReplacedLength
<1> QED
  BY <1>1, <1>7, <1>8 DEF Moved

LEMMA OpenedTrx ==
  ASSUME TypeOK, NEW t \in Task, NEW x \in Transaction, Len(trxs) < MaxTrx,
         trxs' = Append(trxs, x)
  PROVE  /\ Moved(t) /\ Len(trxs') = Len(trxs) + 1 /\ trxs'[Len(trxs) + 1] = x
<1>0. trxs \in Seq(Transaction) /\ Len(trxs) \in Nat
  BY Trxs
<1>1. /\ trxs' \in Seq(Transaction) /\ Len(trxs') = Len(trxs) + 1
      /\ \A k \in 1..Len(trxs) : trxs'[k] = trxs[k]
      /\ trxs'[Len(trxs) + 1] = x
  BY <1>0, AppendProperties
<1> QED
  BY <1>0, <1>1, BoundsAssumption DEF Moved

(* What holds of a call stays true while another one moves transactions.   *)
LEMMA StaysGood ==
  ASSUME TypeOK, NEW t \in Task, NEW u \in Task, NEW c \in CallRecord, Good(u, c),
         Moved(t), chain'[u] = chain[u],
         Holds(c) => ~(In(t) > 0 /\ Holds(Call(t)) /\ c.trx = Call(t).trx)
  PROVE  Good(u, c)'
<1>0. Len(trxs) \in Nat /\ Len(trxs') \in Nat
  BY Trxs, LenProperties DEF Moved
<1> QED
  BY <1>0 DEF Good, Moved, Holds

LEMMA StaysInherited ==
  ASSUME IInv, NEW t \in Task, Moved(t), UNCHANGED <<base, chain>>,
         \A u \in Task : In(u)' = 0 \/ In(u) # 0 \/ u \in Root \/ base[u] # NoContext
  PROVE  Inherited'
<1>0. Len(trxs) \in Nat /\ Len(trxs') \in Nat
  BY Trxs, LenProperties DEF Moved, IInv
<1> QED
  BY <1>0 DEF IInv, Inherited, Moved

LEMMA StaysTyped ==
  ASSUME TypeOK, NEW t \in Task, Moved(t), UNCHANGED <<base, chain>>,
         calls' \in [Task -> Seq(CallRecord)]
  PROVE  TypeOK'
BY DEF TypeOK, Moved, Transaction

-----------------------------------------------------------------------------
(* The three ways the stack of a task moves keep the invariant.            *)

LEMMA PushStep ==
  ASSUME IInv, NEW t \in Task, NEW c \in CallRecord, Push(t, c), Running(t),
         UNCHANGED <<trxs, base, chain>>, Good(t, c), ~Holds(c)
  PROVE  IInv'
<1>0. TypeOK /\ In(t) \in Nat /\ Moved(t)
  BY MovedNowhere, Stack DEF IInv
<1>1. /\ calls' \in [Task -> Seq(CallRecord)]
      /\ \A u \in Task : u # t => calls'[u] = calls[u]
      /\ In(t)' = In(t) + 1
      /\ \A k \in 1..In(t) : calls'[t][k] = calls[t][k]
      /\ calls'[t][In(t) + 1] = c
  BY <1>0, Pushed
<1>2. TypeOK'
  BY <1>0, <1>1, StaysTyped
<1>3. In(t) > 0 => calls[t][In(t)].phase = "body"
  BY DEF Running, Call
<1>4. Stacked'
  <2> SUFFICES ASSUME NEW u \in Task, NEW k \in 1..In(u)'
               PROVE  Good(u, calls[u][k])' /\ (k < In(u)' => calls'[u][k].phase = "body")
    BY DEF Stacked
  <2>1. CASE u # t
    <3>1. In(u)' = In(u) /\ calls'[u] = calls[u]
      BY <1>1, <2>1 DEF In
    <3>2. Good(u, calls[u][k]) /\ (k < In(u) => calls[u][k].phase = "body")
      BY <3>1 DEF IInv, Stacked
    <3> QED
      BY <3>1, <3>2 DEF Good
  <2>2. CASE u = t /\ k = In(t) + 1
    BY <1>0, <1>1, <2>2 DEF Good
  <2>3. CASE u = t /\ k \in 1..In(t)
    <3>1. Good(t, calls[t][k]) /\ calls[t][k].phase = "body"
      BY <1>0, <1>3, <2>3 DEF IInv, Stacked
    <3> QED
      BY <1>1, <2>3, <3>1 DEF Good
  <2> QED
    BY <1>0, <1>1, <2>1, <2>2, <2>3
<1>5. Sole'
  <2>1. ASSUME NEW u \in Task, NEW k \in 1..In(u)', Holds(calls'[u][k])
        PROVE  k \in 1..In(u) /\ calls'[u][k] = calls[u][k]
    BY <1>0, <1>1, <2>1 DEF In
  <2>2. \A x : Holds(x)' <=> Holds(x)
    BY DEF Holds
  <2> QED
    BY <2>1, <2>2 DEF IInv, Sole
<1>6. Inherited'
  BY <1>0, <1>1, StaysInherited DEF Running, In
<1> QED
  BY <1>2, <1>4, <1>5, <1>6 DEF IInv

LEMMA ChangeStep ==
  ASSUME IInv, NEW t \in Task, In(t) > 0, NEW c \in CallRecord, Change(t, c),
         Moved(t), UNCHANGED <<base, chain>>, Good(t, c)',
         Holds(c) => \/ c.trx > Len(trxs)
                     \/ Holds(Call(t)) /\ c.trx = Call(t).trx
  PROVE  IInv'
<1>0. TypeOK /\ In(t) \in Nat /\ Len(trxs) \in Nat
  BY Stack, Trxs DEF IInv
<1>1. /\ calls' \in [Task -> Seq(CallRecord)]
      /\ \A u \in Task : u # t => calls'[u] = calls[u]
      /\ In(t)' = In(t)
      /\ \A k \in 1..In(t) : calls'[t][k] = IF k = In(t) THEN c ELSE calls[t][k]
  BY <1>0, Changed
<1>2. TypeOK'
  BY <1>0, <1>1, StaysTyped
<1>3. \A u \in Task : In(u)' = In(u)
  BY <1>1 DEF In
<1>4. ASSUME NEW u \in Task, NEW k \in 1..In(u), ~(u = t /\ k = In(t))
      PROVE  /\ calls'[u][k] = calls[u][k]
             /\ Holds(calls[u][k]) =>
                  ~(Holds(Call(t)) /\ calls[u][k].trx = Call(t).trx)
  <2>1. In(t) \in 1..In(t)
    BY <1>0
  <2> QED
    BY <1>1, <1>4, <2>1 DEF IInv, Sole, Call
<1>5. Stacked'
  <2> SUFFICES ASSUME NEW u \in Task, NEW k \in 1..In(u)
               PROVE  Good(u, calls[u][k])' /\ (k < In(u) => calls'[u][k].phase = "body")
    BY <1>3 DEF Stacked
  <2>1. CASE u = t /\ k = In(t)
    <3>1. calls'[u][k] = c
      BY <1>1, <2>1
    <3> QED
      BY <2>1, <3>1
  <2>2. CASE ~(u = t /\ k = In(t))
    <3>1. PICK d \in CallRecord : d = calls[u][k] /\ Good(u, d)
      BY <1>0, Stack DEF IInv, Stacked
    <3>2. Good(u, d)'
      BY <1>0, <1>4, <2>2, <3>1, StaysGood
    <3>3. calls'[u][k] = d
      BY <1>4, <2>2, <3>1
    <3>4. Good(u, calls[u][k])'
      BY <3>2, <3>3 DEF Good
    <3> QED
      BY <3>1, <3>3, <3>4 DEF IInv, Stacked
  <2> QED
    BY <2>1, <2>2
<1>6. Sole'
  <2> DEFINE Free(u, k) == ~(u = t /\ k = In(t))
  <2>1. ASSUME NEW u \in Task, NEW k \in 1..In(u), Free(u, k), Holds(calls[u][k]), Holds(c)
        PROVE  calls[u][k].trx # c.trx
    <3>1. calls[u][k].trx \in 1..Len(trxs)
      BY <2>1 DEF IInv, Stacked, Good, Holds
    <3> QED
      BY <1>0, <1>4, <2>1, <3>1
  <2>2. calls'[t][In(t)] = c
    BY <1>0, <1>1
  <2>3. \A x : Holds(x)' <=> Holds(x)
    BY DEF Holds
  <2> SUFFICES ASSUME NEW u \in Task, NEW w \in Task, NEW k \in 1..In(u), NEW m \in 1..In(w),
                      Holds(calls'[u][k]), Holds(calls'[w][m]),
                      calls'[u][k].trx = calls'[w][m].trx
               PROVE  u = w /\ k = m
    BY <1>3, <2>3 DEF Sole
  <2>4. CASE Free(u, k) /\ Free(w, m)
    BY <1>4, <2>4 DEF IInv, Sole
  <2>5. CASE Free(u, k) /\ ~Free(w, m)
    BY <1>4, <2>1, <2>2, <2>5
  <2>6. CASE ~Free(u, k) /\ Free(w, m)
    BY <1>4, <2>1, <2>2, <2>6
  <2> QED
    BY <2>4, <2>5, <2>6
<1>7. Inherited'
  BY <1>3, StaysInherited
<1> QED
  BY <1>2, <1>5, <1>6, <1>7 DEF IInv

LEMMA PopStep ==
  ASSUME IInv, NEW t \in Task, In(t) > 0, Pop(t), Moved(t), UNCHANGED <<base, chain>>
  PROVE  IInv'
<1>0. TypeOK /\ In(t) \in Nat
  BY Stack DEF IInv
<1>1. /\ calls' \in [Task -> Seq(CallRecord)]
      /\ \A u \in Task : u # t => calls'[u] = calls[u]
      /\ In(t)' = In(t) - 1
      /\ \A k \in 1..(In(t) - 1) : calls'[t][k] = calls[t][k]
  BY <1>0, Popped
<1>2. TypeOK'
  BY <1>0, <1>1, StaysTyped
<1>3. ASSUME NEW u \in Task, NEW k \in 1..In(u)'
      PROVE  /\ k \in 1..In(u) /\ ~(u = t /\ k = In(t))
             /\ calls'[u][k] = calls[u][k]
             /\ k < In(u)' => k < In(u)
  BY <1>0, <1>1 DEF In
<1>4. Stacked'
  <2> SUFFICES ASSUME NEW u \in Task, NEW k \in 1..In(u)'
               PROVE  Good(u, calls[u][k])' /\ (k < In(u)' => calls'[u][k].phase = "body")
    BY DEF Stacked
  <2>0. k \in 1..In(u)
    BY <1>3
  <2>1. PICK d \in CallRecord : d = calls[u][k] /\ Good(u, d)
    BY <1>0, <2>0, Stack DEF IInv, Stacked
  <2>2. Holds(d) => ~(Holds(Call(t)) /\ d.trx = Call(t).trx)
    <3>1. In(t) \in 1..In(t)
      BY <1>0
    <3> QED
      BY <1>3, <2>0, <2>1, <3>1 DEF IInv, Sole, Call
  <2>3. Good(u, d)'
    BY <1>0, <2>1, <2>2, StaysGood
  <2>4. Good(u, calls[u][k])'
    BY <1>3, <2>1, <2>3 DEF Good
  <2> QED
    BY <1>3, <2>0, <2>1, <2>4 DEF IInv, Stacked
<1>5. Sole'
  <2>1. \A x : Holds(x)' <=> Holds(x)
    BY DEF Holds
  <2> QED
    BY <1>3, <2>1 DEF IInv, Sole
<1>6. Inherited'
  BY <1>0, <1>1, StaysInherited DEF In
<1> QED
  BY <1>2, <1>4, <1>5, <1>6 DEF IInv

-----------------------------------------------------------------------------
(* The pieces of code a call's steps share.                                *)

LEMMA Innermost ==
  ASSUME IInv, NEW t \in Task, In(t) > 0
  PROVE  TypeOK /\ Call(t) \in CallRecord /\ Good(t, Call(t))
BY Stack DEF IInv, Stacked, Call

(* The records the steps leave behind. *)
Opening(d, policy, ambient) ==
  [own |-> TRUE, db |-> d, policy |-> policy, ambient |-> ambient, phase |-> "open",
   attempt |-> 1, runs |-> 0, trx |-> 0, last |-> NoFailure]

Joining(d, ambient, x) ==
  [own |-> FALSE, db |-> d, policy |-> FALSE, ambient |-> ambient, phase |-> "body",
   attempt |-> 1, runs |-> 1, trx |-> x, last |-> NoFailure]

Reopened(c)   == [c EXCEPT !.phase = "open", !.attempt = @ + 1, !.trx = 0, !.last = NoFailure]
InBody(c, x)  == [c EXCEPT !.phase = "body", !.runs = @ + 1, !.trx = x]
To(c, phase)  == [c EXCEPT !.phase = phase]
Again(c, f)   == [c EXCEPT !.phase = "again", !.last = f]

Phases == {"open", "body", "commit", "again"}

LEMMA OpeningCall ==
  ASSUME NEW d \in Db, NEW policy \in BOOLEAN, NEW ambient \in BOOLEAN
  PROVE  LET c == Opening(d, policy, ambient)
         IN  /\ c \in CallRecord
             /\ c.own /\ c.phase = "open" /\ c.runs = 0
             /\ c.attempt = 1 /\ c.last = NoFailure
BY AttemptsAssumption, BoundsAssumption DEF Opening, CallRecord

LEMMA JoiningCall ==
  ASSUME NEW d \in Db, NEW ambient \in BOOLEAN, NEW x \in 0..MaxTrx
  PROVE  LET c == Joining(d, ambient, x)
         IN  /\ c \in CallRecord
             /\ ~c.own /\ ~c.policy /\ c.phase = "body"
             /\ c.trx = x /\ c.last = NoFailure
BY AttemptsAssumption DEF Joining, CallRecord

LEMMA ReopenedCall ==
  ASSUME NEW d \in CallRecord, d.attempt # MaxAttempts
  PROVE  LET c == Reopened(d)
         IN  /\ c \in CallRecord
             /\ c.own = d.own /\ c.policy = d.policy /\ c.phase = "open" /\ c.runs = d.runs
             /\ c.attempt = d.attempt + 1 /\ c.last = NoFailure
<1>1. PICK n \in 1..MaxAttempts : n = d.attempt + 1
  BY AttemptsAssumption DEF CallRecord
<1>2. Reopened(d) = [d EXCEPT !.phase = "open", !.attempt = n, !.trx = 0, !.last = NoFailure]
  BY <1>1 DEF Reopened
<1>3. 0 \in 0..MaxTrx
  BY BoundsAssumption
<1> QED
  BY <1>1, <1>2, <1>3 DEF CallRecord

LEMMA InBodyCall ==
  ASSUME NEW d \in CallRecord, NEW x \in 0..MaxTrx
  PROVE  LET c == InBody(d, x)
         IN  /\ c \in CallRecord
             /\ c.own = d.own /\ c.policy = d.policy /\ c.phase = "body" /\ c.runs = d.runs + 1
             /\ c.attempt = d.attempt /\ c.trx = x /\ c.last = d.last
<1>1. PICK n \in Nat : n = d.runs + 1
  BY DEF CallRecord
<1>2. InBody(d, x) = [d EXCEPT !.phase = "body", !.runs = n, !.trx = x]
  BY <1>1 DEF InBody
<1> QED
  BY <1>1, <1>2 DEF CallRecord

LEMMA ToCall ==
  ASSUME NEW d \in CallRecord, NEW phase \in Phases
  PROVE  LET c == To(d, phase)
         IN  /\ c \in CallRecord
             /\ c.own = d.own /\ c.policy = d.policy /\ c.phase = phase /\ c.runs = d.runs
             /\ c.attempt = d.attempt /\ c.trx = d.trx /\ c.last = d.last
BY DEF To, CallRecord, Phases

LEMMA AgainCall ==
  ASSUME NEW d \in CallRecord, NEW f \in Failure \cup {NoFailure}
  PROVE  LET c == Again(d, f)
         IN  /\ c \in CallRecord
             /\ c.own = d.own /\ c.policy = d.policy /\ c.phase = "again" /\ c.runs = d.runs
             /\ c.attempt = d.attempt /\ c.last = f
BY DEF Again, CallRecord

LEMMA KeptFailure ==
  ASSUME NEW t \in Task, NEW d \in CallRecord, Good(t, d), NEW e \in Kind, NEW f,
         f = IF d.policy THEN [kind |-> e, from |-> d.attempt] ELSE d.last
  PROVE  f \in Failure \cup {NoFailure} /\ (f # NoFailure => f.from = d.attempt)
BY DEF Failure, CallRecord, Good

(* The transaction function is left: its call ends or opens the next one.  *)
LEMMA EndedStep ==
  ASSUME IInv, NEW t \in Task, In(t) > 0, Call(t).own, NEW e, Ended(t, e),
         Moved(t), UNCHANGED <<base, chain>>
  PROVE  IInv'
<1>1. CASE Pop(t)
  BY <1>1, PopStep
<1>2. CASE ~Pop(t)
  <2>0. PICK d \in CallRecord : d = Call(t) /\ Good(t, d)
    BY Innermost
  <2>1. /\ d.policy /\ d.own /\ d.attempt # MaxAttempts /\ Change(t, Reopened(d))
    BY <1>2, <2>0 DEF Ended, TriesAgain, Reopened
  <2>2. PICK c \in CallRecord :
          /\ Change(t, c) /\ c.own = d.own /\ c.phase = "open" /\ c.runs = d.runs
          /\ c.attempt = d.attempt + 1 /\ c.last = NoFailure
    BY <2>1, ReopenedCall
  <2>3. c.policy => c.runs < c.attempt
    BY <2>0, <2>1, <2>2 DEF Good, CallRecord
  <2>4. Good(t, c)'
    BY <2>1, <2>2, <2>3 DEF Good, CallRecord
  <2> QED
    BY <2>2, <2>4, ChangeStep DEF Holds
<1> QED
  BY <1>1, <1>2

LEMMA InvokeStep ==
  ASSUME IInv, NEW t \in Task, In(t) > 0, Call(t).phase \in {"open", "again"},
         Call(t).policy => Call(t).phase = "open",
         InvokeBody(t), UNCHANGED <<base, chain>>
  PROVE  IInv'
<1>0. PICK d \in CallRecord : d = Call(t) /\ Good(t, d)
  BY Innermost
<1>1. /\ Len(trxs) \in Nat /\ Len(trxs) < MaxTrx /\ MaxTrx \in Nat
      /\ trxs' = Append(trxs, [db |-> d.db, chain |-> chain[t], state |-> "open"])
      /\ Change(t, InBody(d, Len(trxs) + 1))
  BY <1>0, Trxs, BoundsAssumption DEF InvokeBody, IInv, InBody
<1> DEFINE x == [db |-> d.db, chain |-> chain[t], state |-> "open"]
<1>2. x \in Transaction /\ x.chain = chain[t] /\ x.state = "open"
  BY <1>0 DEF CallRecord, Transaction, IInv, TypeOK
<1> HIDE DEF x
<1>3. Moved(t) /\ Len(trxs') = Len(trxs) + 1 /\ trxs'[Len(trxs) + 1] = x
  BY <1>1, <1>2, OpenedTrx DEF IInv, x
<1>4. PICK c \in CallRecord :
        /\ Change(t, c)
        /\ c.own = d.own /\ c.phase = "body" /\ c.runs = d.runs + 1 /\ c.policy = d.policy
        /\ c.trx = Len(trxs) + 1 /\ c.attempt = d.attempt /\ c.last = d.last
  <2>1. Len(trxs) + 1 \in 0..MaxTrx
    BY <1>1
  <2> QED
    BY <1>1, <2>1, InBodyCall
<1>5. c.policy => c.runs <= c.attempt
  BY <1>0, <1>4, AttemptsAssumption DEF Good, CallRecord
<1>6. c.last # NoFailure => c.last.from = c.attempt
  BY <1>0, <1>4 DEF Good
<1>7. c.trx \in 1..Len(trxs') /\ trxs'[c.trx].chain = chain[t] /\ trxs'[c.trx].state = "open"
  BY <1>1, <1>2, <1>3, <1>4
<1>10. d.own
  BY <1>0 DEF Good
<1>8. Good(t, c)'
  BY <1>4, <1>5, <1>6, <1>7, <1>10 DEF Good
<1>9. c.trx > Len(trxs)
  BY <1>1, <1>4
<1> QED
  BY <1>3, <1>4, <1>8, <1>9, ChangeStep

-----------------------------------------------------------------------------
(* The actions. *)

LEMMA ContextKnown ==
  ASSUME IInv, NEW t \in Task, Running(t), ActiveTransaction(t) # NoContext
  PROVE  /\ ActiveTransaction(t) \in Context
         /\ ActiveTransaction(t).trx \in 1..Len(trxs)
         /\ trxs[ActiveTransaction(t).trx].chain = chain[t]
<1>0. Len(trxs) \in Nat /\ Len(trxs) <= MaxTrx /\ MaxTrx \in Nat /\ In(t) \in Nat
  BY Trxs, Stack, BoundsAssumption DEF IInv, TypeOK
<1>1. CASE In(t) = 0
  BY <1>1 DEF ActiveTransaction, IInv, Inherited, TypeOK
<1>2. CASE In(t) > 0
  <2>1. PICK c \in CallRecord : c = Call(t) /\ Good(t, c)
    BY <1>2, Innermost
  <2>2. c.trx \in 1..Len(trxs) /\ trxs[c.trx].chain = chain[t]
    BY <1>0, <1>2, <2>1 DEF Running, Good
  <2>3. ActiveTransaction(t) = [trx |-> c.trx, db |-> c.db, ambient |-> c.ambient]
    BY <1>0, <1>2, <2>1 DEF ActiveTransaction
  <2>4. [trx |-> c.trx, db |-> c.db, ambient |-> c.ambient] \in Context
    BY <1>0, <2>1, <2>2 DEF CallRecord, Context
  <2> QED
    BY <2>2, <2>3, <2>4
<1> QED
  BY <1>0, <1>1, <1>2

LEMMA RunStep ==
  ASSUME IInv, NEW t \in Task, NEW d \in Db, NEW policy \in BOOLEAN, NEW ambient \in BOOLEAN,
         RunInTransaction(t, d, policy, ambient)
  PROVE  IInv'
<1>0. PICK p \in BOOLEAN, b \in BOOLEAN : p = policy /\ b = ambient
  OBVIOUS
<1> DEFINE c == Opening(d, p, b)
<1>1. /\ c \in CallRecord /\ c.own
      /\ c.phase = "open" /\ c.runs = 0 /\ c.attempt = 1 /\ c.last = NoFailure
  BY OpeningCall
<1>2. Push(t, c)
  BY <1>0 DEF RunInTransaction, Opening
<1> HIDE DEF c
<1>3. Good(t, c) /\ ~Holds(c)
  BY <1>1 DEF Good, Holds
<1> QED
  BY <1>1, <1>2, <1>3, PushStep DEF RunInTransaction

LEMMA JoinStep ==
  ASSUME IInv, NEW t \in Task, NEW ambient \in BOOLEAN, Join(t, ambient)
  PROVE  IInv'
<1>0. /\ Running(t) /\ ActiveTransaction(t) # NoContext
      /\ UNCHANGED <<trxs, base, chain>>
  BY DEF Join
<1>1. PICK x \in Context : /\ x = ActiveTransaction(t) /\ x.trx \in 1..Len(trxs)
                           /\ trxs[x.trx].chain = chain[t]
  BY <1>0, ContextKnown
<1>2. PICK b \in BOOLEAN : b = (x.ambient \/ ambient)
  OBVIOUS
<1> DEFINE c == Joining(x.db, b, x.trx)
<1>3. Push(t, c)
  BY <1>1, <1>2 DEF Join, Joining
<1>4. x.db \in Db /\ x.trx \in 0..MaxTrx
  BY BoundsAssumption DEF Context
<1>5. /\ c \in CallRecord /\ ~c.own /\ ~c.policy
      /\ c.phase = "body" /\ c.trx = x.trx /\ c.last = NoFailure
  BY <1>4, JoiningCall
<1> HIDE DEF c
<1>6. Good(t, c) /\ ~Holds(c)
  BY <1>1, <1>5 DEF Good, Holds
<1> QED
  BY <1>0, <1>3, <1>5, <1>6, PushStep

(* A step of the innermost call of a task. *)
LEMMA CallStep ==
  ASSUME IInv, NEW t \in Task,
         \/ Leave(t) \/ Begin(t) \/ BodyReturns(t) \/ Commit(t) \/ InvokeAgain(t)
         \/ \E e \in Kind : OpenFails(t, e) \/ BodyThrows(t, e) \/ CommitFails(t, e)
  PROVE  IInv'
<1>0. In(t) > 0 /\ TypeOK
  BY DEF IInv, Leave, Begin, BodyReturns, Commit, InvokeAgain, OpenFails, BodyThrows, CommitFails
<1>1. PICK d \in CallRecord : d = Call(t) /\ Good(t, d)
  BY <1>0, Innermost
<1>2. CASE Leave(t)
  BY <1>0, <1>2, MovedNowhere, PopStep DEF Leave
<1>3. CASE Begin(t)
  BY <1>0, <1>3, InvokeStep DEF Begin
<1>4. CASE BodyReturns(t)
  <2>1. /\ d.phase = "body" /\ d.own /\ Change(t, To(d, "commit"))
        /\ UNCHANGED <<trxs, base, chain>>
    BY <1>1, <1>4 DEF BodyReturns, To
  <2>2. PICK c \in CallRecord :
          /\ Change(t, c) /\ c.own = d.own /\ c.phase = "commit" /\ c.policy = d.policy
          /\ c.runs = d.runs /\ c.attempt = d.attempt /\ c.trx = d.trx /\ c.last = d.last
    BY <2>1, ToCall DEF Phases
  <2>3. Good(t, c)'
    BY <1>1, <2>1, <2>2 DEF Good
  <2>4. Holds(Call(t)) /\ c.trx = Call(t).trx
    BY <1>1, <2>1, <2>2 DEF Holds
  <2> QED
    BY <1>0, <2>1, <2>2, <2>3, <2>4, MovedNowhere, ChangeStep
<1>5. CASE Commit(t)
  <2>1. d.own /\ Holds(Call(t))
    BY <1>1, <1>5 DEF Commit, Good, Holds
  <2> QED
    BY <1>0, <1>5, <2>1, ClosedTrx, PopStep DEF Commit
<1>6. CASE InvokeAgain(t)
  <2>1. d.own
    BY <1>1, <1>6 DEF InvokeAgain, Good
  <2> QED
    BY <1>0, <1>1, <1>6, <2>1, MovedNowhere, InvokeStep, EndedStep DEF InvokeAgain
<1>7. ASSUME NEW e \in Kind, OpenFails(t, e) PROVE IInv'
  <2>1. d.own
    BY <1>1, <1>7 DEF OpenFails, Good
  <2> QED
    BY <1>0, <1>1, <1>7, <2>1, MovedNowhere, EndedStep DEF OpenFails
<1>8. ASSUME NEW e \in Kind, BodyThrows(t, e) PROVE IInv'
  <2>1. d.own /\ Holds(Call(t)) /\ UNCHANGED <<base, chain>>
    BY <1>1, <1>8 DEF BodyThrows, Holds
  <2>2. Moved(t)
    BY <1>0, <1>8, <2>1, ClosedTrx DEF BodyThrows
  <2>3. CASE SdkRetries(e)
    <3> DEFINE f == IF d.policy THEN [kind |-> e, from |-> d.attempt] ELSE d.last
    <3>1. f \in Failure \cup {NoFailure} /\ (f # NoFailure => f.from = d.attempt)
      BY <1>1, KeptFailure
    <3>2. Change(t, Again(d, f))
      BY <1>1, <1>8, <2>3 DEF BodyThrows, Again
    <3> HIDE DEF f
    <3>3. PICK c \in CallRecord :
            /\ Change(t, c) /\ c.own = d.own /\ c.phase = "again" /\ c.policy = d.policy
            /\ c.runs = d.runs /\ c.attempt = d.attempt /\ c.last = f
      BY <3>1, <3>2, AgainCall
    <3>4. Good(t, c)'
      BY <1>1, <2>1, <3>1, <3>3 DEF Good
    <3> QED
      BY <1>0, <2>1, <2>2, <3>3, <3>4, ChangeStep DEF Holds
  <2>4. CASE ~SdkRetries(e)
    BY <1>0, <1>1, <1>8, <2>1, <2>2, <2>4, EndedStep DEF BodyThrows
  <2> QED
    BY <2>3, <2>4
<1>9. ASSUME NEW e \in Kind, CommitFails(t, e) PROVE IInv'
  <2>1. d.own /\ Holds(Call(t)) /\ UNCHANGED <<base, chain>>
    BY <1>1, <1>9 DEF CommitFails, Good, Holds
  <2>2. Moved(t)
    BY <1>0, <1>9, <2>1, ClosedTrx DEF CommitFails
  <2>3. CASE Ended(t, e)
    BY <1>0, <1>1, <2>1, <2>2, <2>3, EndedStep
  <2>4. CASE Change(t, [Call(t) EXCEPT !.phase = "again"])
    <3>1. PICK c \in CallRecord :
            /\ Change(t, c) /\ c.own = d.own /\ c.phase = "again" /\ c.policy = d.policy
            /\ c.runs = d.runs /\ c.attempt = d.attempt /\ c.last = d.last
      <4>1. Change(t, To(d, "again"))
        BY <1>1, <2>4 DEF To
      <4> QED
        BY <4>1, ToCall DEF Phases
    <3>2. Good(t, c)'
      BY <1>1, <2>1, <3>1 DEF Good
    <3> QED
      BY <1>0, <2>1, <2>2, <3>1, <3>2, ChangeStep DEF Holds
  <2> QED
    BY <1>9, <2>3, <2>4 DEF CommitFails
<1> QED
  BY <1>2, <1>3, <1>4, <1>5, <1>6, <1>7, <1>8, <1>9

(* Steps of the tasks themselves: nothing happens to calls or transactions. *)
LEMMA TaskStep ==
  ASSUME IInv, UNCHANGED <<trxs, calls>>, NEW u \in Task, In(u) = 0,
         NEW b \in Context \cup {NoContext}, NEW c \in Task,
         base' = [base EXCEPT ![u] = b], chain' = [chain EXCEPT ![u] = c],
         b # NoContext => b.trx \in 1..Len(trxs) /\ trxs[b.trx].chain = c
  PROVE  IInv'
<1>0. /\ TypeOK /\ Stacked /\ Sole /\ Inherited
      /\ base'[u] = b /\ chain'[u] = c
      /\ \A t \in Task : t # u => base'[t] = base[t] /\ chain'[t] = chain[t]
      /\ \A t \in Task : In(t)' = In(t)
  BY DEF IInv, TypeOK, In
<1>1. TypeOK'
  BY <1>0 DEF TypeOK
<1>2. Stacked'
  BY <1>0 DEF Stacked, Good
<1>3. Sole'
  BY <1>0 DEF Sole, Holds
<1>4. Inherited'
  BY <1>0 DEF Inherited
<1> QED
  BY <1>1, <1>2, <1>3, <1>4 DEF IInv

LEMMA SpawnStep ==
  ASSUME IInv, NEW t \in Task, NEW u \in Task \ {t}, Spawn(t, u)
  PROVE  IInv'
<1>1. /\ ActiveTransaction(t) \in Context
      /\ ActiveTransaction(t).trx \in 1..Len(trxs)
      /\ trxs[ActiveTransaction(t).trx].chain = chain[t]
  BY ContextKnown DEF Spawn
<1>2. In(u) = 0 /\ chain[t] \in Task
  BY DEF Spawn, IInv, Inherited, TypeOK
<1> QED
  BY <1>1, <1>2, TaskStep DEF Spawn

LEMMA TaskEndsStep == ASSUME IInv, NEW u \in Task, TaskEnds(u) PROVE IInv'
BY TaskStep DEF TaskEnds

LEMMA InitIInv == Init => IInv
<1> SUFFICES ASSUME Init PROVE IInv
  OBVIOUS
<1>1. trxs = <<>> /\ Len(trxs) = 0 /\ \A t \in Task : In(t) = 0
  BY DEF Init, In
<1>2. TypeOK
  BY <1>1, BoundsAssumption DEF Init, TypeOK
<1>3. Stacked /\ Sole /\ Inherited
  BY <1>1 DEF Init, Stacked, Sole, Inherited
<1> QED
  BY <1>2, <1>3 DEF IInv

LEMMA InvStep == IInv /\ [Next]_vars => IInv'
<1> SUFFICES ASSUME IInv, [Next]_vars PROVE IInv'
  OBVIOUS
<1>1. CASE UNCHANGED vars
  <2>1. UNCHANGED <<trxs, calls, base, chain>> /\ \A t \in Task : In(t)' = In(t)
    BY <1>1 DEF vars, In
  <2>2. TypeOK' /\ Inherited'
    BY <2>1 DEF IInv, TypeOK, Inherited
  <2>3. Stacked'
    BY <2>1 DEF IInv, Stacked, Good
  <2>4. Sole'
    BY <2>1 DEF IInv, Sole, Holds
  <2> QED
    BY <2>2, <2>3, <2>4 DEF IInv
<1>2. CASE Next
  BY <1>2, RunStep, JoinStep, CallStep, SpawnStep, TaskEndsStep DEF Next
<1> QED
  BY <1>1, <1>2

(* EndsWithItsCall, of one step. *)
EndedByItsCall ==
  \A x \in DOMAIN trxs :
    trxs[x].state = "open" /\ trxs'[x].state # "open" =>
      \E t \in Task : In(t) > 0 /\ Call(t).own /\ Call(t).trx = x

LEMMA EndStep == IInv /\ [Next]_vars => EndedByItsCall
<1> SUFFICES ASSUME IInv, [Next]_vars, NEW x \in DOMAIN trxs,
                    trxs[x].state = "open", trxs'[x].state # "open"
             PROVE  \E t \in Task : In(t) > 0 /\ Call(t).own /\ Call(t).trx = x
  BY DEF EndedByItsCall
<1>0. TypeOK /\ x \in 1..Len(trxs) /\ Len(trxs) \in Nat /\ trxs \in Seq(Transaction)
  BY Trxs, LenProperties DEF IInv
<1>1. trxs' # trxs
  OBVIOUS
<1>2. PICK t \in Task :
        \/ Begin(t) \/ Commit(t) \/ InvokeAgain(t)
        \/ \E e \in Kind : BodyThrows(t, e) \/ CommitFails(t, e)
  BY <1>1 DEF Next, vars, RunInTransaction, Join, Leave, BodyReturns, OpenFails, Spawn, TaskEnds
<1>3. In(t) > 0 /\ Good(t, Call(t))
  BY <1>2, Innermost DEF Begin, Commit, InvokeAgain, BodyThrows, CommitFails
<1>4. ASSUME InvokeBody(t) PROVE FALSE
  <2>1. PICK r : trxs' = Append(trxs, r)
    BY <1>4 DEF InvokeBody
  <2>2. trxs'[x] = trxs[x]
    BY <1>0, <2>1
  <2> QED
    BY <2>2
<1>5. ASSUME NEW state, Close(Call(t).trx, state) PROVE x = Call(t).trx
  BY <1>0, <1>5 DEF Close
<1>6. CASE Begin(t) \/ InvokeAgain(t)
  BY <1>1, <1>4, <1>6 DEF Begin, InvokeAgain
<1>7. CASE Commit(t) \/ \E e \in Kind : BodyThrows(t, e) \/ CommitFails(t, e)
  <2>1. Call(t).own
    BY <1>3, <1>7 DEF Commit, BodyThrows, CommitFails, Good
  <2>2. \E state : Close(Call(t).trx, state)
    BY <1>7 DEF Commit, BodyThrows, CommitFails
  <2> QED
    BY <1>3, <1>5, <2>1, <2>2
<1> QED
  BY <1>2, <1>6, <1>7

-----------------------------------------------------------------------------
LEMMA Inductive == Spec => []IInv
BY InitIInv, InvStep, PTL DEF Spec

(* Each variable keeps its type. *)
THEOREM TypeCorrect == Spec => []TypeOK
<1>1. IInv => TypeOK
  BY DEF IInv
<1> QED
  BY <1>1, Inductive, PTL

(* Under a retry policy the callback never runs more often than the policy *)
(* made attempts, whatever the SDK would retry by itself.                  *)
THEOREM AttemptsNeverMultiply == Spec => []OneRunPerAttempt
<1>1. IInv => OneRunPerAttempt
  <2> SUFFICES ASSUME IInv, NEW t \in Task, NEW k \in DOMAIN calls[t]
               PROVE  /\ calls[t][k].policy => calls[t][k].runs <= calls[t][k].attempt
                      /\ calls[t][k].last # NoFailure =>
                           calls[t][k].last.from = calls[t][k].attempt
    BY DEF OneRunPerAttempt, CallsOf
  <2>1. k \in 1..In(t)
    BY LenProperties DEF In, IInv, TypeOK
  <2> QED
    BY <2>1 DEF IInv, Stacked, Good
<1> QED
  BY <1>1, Inductive, PTL

(* An operation in a callback reaches the transaction of the attempt that  *)
(* runs, which is open, and never one of another chain of tasks.           *)
THEOREM IsolatedContexts == Spec => []ContextsIsolated
<1>1. IInv => AttemptIsolated
  <2> SUFFICES ASSUME IInv, NEW t \in Task, In(t) > 0, Running(t), Call(t).trx \in Opened(t)
               PROVE  /\ trxs[Call(t).trx].state = "open"
                      /\ \A d \in Db :
                           /\ ResolveOperationExecutor(t, Call(t).trx, d) = [trx |-> Call(t).trx]
                           /\ Call(t).ambient =>
                                ResolveOperationExecutor(t, 0, d) = [trx |-> Call(t).trx]
    BY DEF AttemptIsolated
  <2>0. In(t) \in Nat /\ Len(trxs) \in Nat /\ calls[t] \in Seq(CallRecord)
    BY Stack, Trxs DEF IInv, TypeOK
  <2>1. PICK k \in 1..In(t) : calls[t][k].own /\ calls[t][k].trx = Call(t).trx
    BY <2>0, LenProperties DEF Opened, CallsOf, In
  <2>2. calls[t][k].phase = "body"
    BY <2>0 DEF IInv, Stacked, Running, Call
  <2>3. trxs[Call(t).trx].state = "open" /\ Call(t).trx \in 1..Len(trxs)
    BY <2>1, <2>2 DEF IInv, Stacked, Good
  <2>4. PICK x \in 1..Len(trxs) : x = Call(t).trx
    BY <2>3
  <2>5. ActiveTransaction(t) = [trx |-> x, db |-> Call(t).db, ambient |-> Call(t).ambient]
    BY <2>0, <2>4 DEF ActiveTransaction
  <2>6. ActiveTransaction(t).trx = x /\ ActiveTransaction(t).ambient = Call(t).ambient
    BY <2>5
  <2>7. ActiveTransaction(t) # NoContext
    <3>1. "db" \in DOMAIN ActiveTransaction(t)
      BY <2>5
    <3>2. "db" \notin DOMAIN NoContext
      BY DEF NoContext
    <3> QED
      BY <3>1, <3>2
  <2>8. x # 0
    BY <2>0
  <2> QED
    BY <2>3, <2>4, <2>6, <2>7, <2>8 DEF ResolveOperationExecutor
<1>2. IInv => NoLeak
  BY ContextKnown DEF NoLeak
<1>3. IInv => ContextsIsolated
  BY <1>1, <1>2 DEF ContextsIsolated
<1> QED
  BY <1>3, Inductive, PTL

(* Only the call that opened a transaction ends it, and not before the     *)
(* calls made in its callback are over.                                    *)
THEOREM EndedByOwner == Spec => EndsWithItsCall
<1>1. EndedByItsCall =>
        \A x \in DOMAIN trxs :
          trxs[x].state = "open" /\ trxs'[x].state # "open" =>
            \E t \in Task : In(t) > 0 /\ Call(t).own /\ Call(t).trx = x
  BY DEF EndedByItsCall
<1> QED
  BY <1>1, EndStep, Inductive, PTL DEF Spec, EndsWithItsCall
===============================================================================
