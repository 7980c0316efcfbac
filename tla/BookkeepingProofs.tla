------------------------- MODULE BookkeepingProofs -------------------------
(* EnsuredTable for every set of runners, any of them without a driver, any *)
(* table to start from and any number of failing queries.                   *)
EXTENDS Bookkeeping, TLAPS

(* A runner past CREATE has a table; the columns it no longer looks for are *)
(* there.                                                                   *)
Progress == \A r \in Runner :
  /\ pc[r] \in {"describe", "alter", "redescribe", "probe"} => exists
  /\ pc[r] \in {"alter", "redescribe"} => Both \ missing[r] \subseteq columns

IInv == TypeOK /\ EnsuredTable /\ Progress

LEMMA InitInv == Init => IInv
<1> SUFFICES ASSUME Init PROVE IInv
  OBVIOUS
<1>1. columns \in SUBSET Both
  BY ColumnsAssumption DEF Init
<1>2. Unread \in Report
  BY DEF Unread, Report
<1>3. 0 \in 0..MaxFaults
  BY FaultsAssumption
<1> QED
  BY <1>1, <1>2, <1>3 DEF Init, IInv, TypeOK, EnsuredTable, Progress

(* The two ways a step ends the work on a column. *)
LEMMA ColumnDoneKeeps ==
  ASSUME IInv, NEW r \in Runner, pc[r] \in {"alter", "redescribe"},
         ColumnDone(r), columns' \in SUBSET Both, columns \subseteq columns',
         NextColumn(r) \in columns', exists' = exists,
         UNCHANGED <<started, view, report, faults>>
  PROVE  IInv'
<1>0. /\ Both \ missing[r] \subseteq columns'
      /\ missing[r] \in SUBSET Both
      /\ exists = TRUE
  BY DEF IInv, Progress, TypeOK
<1>1. CASE missing[r] = {NextColumn(r)}
  <2>1. columns' = Both
    BY <1>0, <1>1
  <2>2. Resolved(r)
    BY <1>1 DEF ColumnDone
  <2> QED
    BY <2>1, <2>2, <1>0 DEF Resolved, Goto, IInv, TypeOK, EnsuredTable, Progress
<1>2. CASE missing[r] # {NextColumn(r)}
  <2>1. /\ missing' = [missing EXCEPT ![r] = @ \ {NextColumn(r)}]
        /\ pc' = [pc EXCEPT ![r] = "alter"]
        /\ UNCHANGED <<promise, threw>>
    BY <1>2 DEF ColumnDone, Goto
  <2>2. /\ Both \ missing'[r] \subseteq columns'
        /\ missing' \in [Runner -> SUBSET Both]
    BY <2>1, <1>0 DEF IInv, TypeOK
  <2>3. columns = Both => columns' = Both
    OBVIOUS
  <2>4. TypeOK'
    BY <2>1, <2>2 DEF IInv, TypeOK
  <2>5. EnsuredTable'
    BY <2>1, <2>3 DEF IInv, EnsuredTable
  <2>6. Progress'
    BY <2>1, <2>2, <1>0 DEF IInv, Progress, TypeOK
  <2> QED
    BY <2>4, <2>5, <2>6 DEF IInv
<1> QED
  BY <1>1, <1>2

LEMMA ThrownKeeps ==
  ASSUME IInv, NEW r \in Runner, Thrown(r), faults' \in 0..MaxFaults,
         UNCHANGED <<exists, columns, started, view, report>>
  PROVE  IInv'
BY DEF IInv, TypeOK, EnsuredTable, Progress, Thrown, Goto

LEMMA InvStep == IInv /\ [Next]_vars => IInv'
<1> SUFFICES ASSUME IInv, [Next]_vars PROVE IInv'
  OBVIOUS
<1> USE DEF IInv
<1>1. ASSUME NEW r \in Runner, Ensure(r) PROVE IInv'
  BY <1>1 DEF Ensure, Goto, TypeOK, EnsuredTable, Progress
<1>2. ASSUME NEW r \in Runner, CreateTable(r) PROVE IInv'
  BY <1>2 DEF CreateTable, Goto, TypeOK, EnsuredTable, Progress, Both
<1>3. ASSUME NEW r \in Runner, Describe(r) PROVE IInv'
  <2>1. CASE columns = Both
    BY <1>3, <2>1 DEF Describe, Resolved, Goto, TypeOK, EnsuredTable, Progress
  <2>2. CASE columns # Both
    BY <1>3, <2>2 DEF Describe, Goto, TypeOK, EnsuredTable, Progress, Both
  <2> QED
    BY <2>1, <2>2
<1>4. ASSUME NEW r \in Runner, AddColumn(r) PROVE IInv'
  <2>1. NextColumn(r) \in Both
    BY DEF NextColumn, Both
  <2> QED
    BY <1>4, <2>1, ColumnDoneKeeps DEF AddColumn, TypeOK
<1>5. ASSUME NEW r \in Runner, AlterRejected(r) PROVE IInv'
  <2>1. /\ pc[r] = "alter" /\ pc' = [pc EXCEPT ![r] = "redescribe"]
        /\ UNCHANGED <<exists, started, promise, missing, threw, view, report>>
    BY <1>5 DEF AlterRejected, Goto
  <2>0. columns \in SUBSET Both /\ NextColumn(r) \in Both /\ faults \in 0..MaxFaults
    BY DEF NextColumn, Both, TypeOK
  <2>2. /\ columns \subseteq columns' /\ columns' \in SUBSET Both
        /\ faults' \in 0..MaxFaults
    BY <1>5, <2>0, FaultsAssumption DEF AlterRejected
  <2> QED
    BY <2>1, <2>2 DEF TypeOK, EnsuredTable, Progress
<1>6. ASSUME NEW r \in Runner, Redescribe(r) PROVE IInv'
  BY <1>6, ColumnDoneKeeps, ThrownKeeps DEF Redescribe, TypeOK
<1>7. ASSUME NEW r \in Runner, Probe(r) PROVE IInv'
  <2>1. CASE columns = Both
    BY <1>7, <2>1 DEF Probe, Resolved, Goto, TypeOK, EnsuredTable, Progress
  <2>2. CASE columns # Both
    BY <1>7, <2>2, ThrownKeeps DEF Probe, TypeOK
  <2> QED
    BY <2>1, <2>2
<1>8. ASSUME NEW r \in Runner, QueryFails(r) PROVE IInv'
  <2>1. faults' \in 0..MaxFaults
    BY <1>8, FaultsAssumption DEF QueryFails, TypeOK
  <2> QED
    BY <1>8, <2>1, ThrownKeeps DEF QueryFails
<1>9. ASSUME NEW r \in Runner, RunStarts(r) \/ RunEnds(r) PROVE IInv'
  BY <1>9 DEF RunStarts, RunEnds, TypeOK, EnsuredTable, Progress
<1>10. ASSUME NEW c \in Reader,
              SnapshotDescribe(c) \/ SnapshotSelect(c) \/ SnapshotAbsent(c)
       PROVE  IInv'
  <2>0. /\ [Unread EXCEPT !.before = started] \in Report
        /\ [legacy |-> view[c] = "legacy",
            said |-> view[c] = "full" /\ started,
            was |-> started, before |-> report[c].before] \in Report
    BY DEF Unread, Report, TypeOK
  <2>1. view' \in [Reader -> {"none", "absent", "legacy", "full"}]
    BY <1>10 DEF SnapshotDescribe, SnapshotSelect, SnapshotAbsent, TypeOK
  <2>2. PICK x \in Report : report' = report \/ report' = [report EXCEPT ![c] = x]
    BY <1>10, <2>0 DEF SnapshotDescribe, SnapshotSelect, SnapshotAbsent
  <2>3. report' \in [Reader -> Report]
    BY <2>2 DEF TypeOK
  <2> QED
    BY <1>10, <2>1, <2>3
    DEF SnapshotDescribe, SnapshotSelect, SnapshotAbsent, TypeOK,
        EnsuredTable, Progress
<1>11. CASE UNCHANGED vars
  BY <1>11 DEF vars, TypeOK, EnsuredTable, Progress
<1> QED
  BY <1>1, <1>2, <1>3, <1>4, <1>5, <1>6, <1>7, <1>8, <1>9, <1>10, <1>11
  DEF Next, Step

(* A runner whose ensure resolved has the whole table to work with, however *)
(* many others upgraded it at the same time and whatever failed meanwhile.  *)
THEOREM EnsureIsRight == Spec => []EnsuredTable
<1>1. IInv => EnsuredTable
  BY DEF IInv
<1> QED
  BY <1>1, InitInv, InvStep, PTL DEF Spec
-----------------------------------------------------------------------------
(* What a runner with a driver may count on, and a reader between its two   *)
(* queries: a column is looked for after ALTER only if it is there or the   *)
(* query failed, and a table that was seen whole stays whole.               *)
Alone == \A r \in WithDriver :
  /\ pc[r] # "probe"
  /\ pc[r] = "redescribe" => NextColumn(r) \in columns \/ faults > 0

SeenWhole == \A c \in Reader : view[c] = "full" => columns = Both

(* A row is `started` only in a whole table, so none was when a table was   *)
(* described as legacy.                                                     *)
StartedInWhole ==
  /\ started => columns = Both
  /\ \A c \in Reader : view[c] = "legacy" => ~report[c].before

UInv ==
  IInv /\ Alone /\ RaceHarmless /\ SeenWhole /\ StartedInWhole /\ StartedReported

LEMMA InitUInv == Init => UInv
<1> SUFFICES ASSUME Init PROVE UInv
  OBVIOUS
<1>1. Alone /\ RaceHarmless
  BY RunnerAssumption DEF Init, Alone, RaceHarmless
<1>2. SeenWhole /\ StartedInWhole /\ StartedReported
  BY DEF Init, SeenWhole, StartedInWhole, StartedReported, Unread
<1> QED
  BY <1>1, <1>2, InitInv DEF UInv

(* Nothing takes a column away, or a failure back. *)
LEMMA OnlyGrows ==
  ASSUME IInv, [Next]_vars
  PROVE  /\ columns \subseteq columns'
         /\ faults > 0 => faults' > 0
<1>0. columns \subseteq Both /\ faults \in Nat
  BY FaultsAssumption DEF IInv, TypeOK
<1>1. ASSUME NEW r \in Runner,
             Ensure(r) \/ Describe(r) \/ Redescribe(r) \/ Probe(r) \/ RunStarts(r) \/ RunEnds(r)
      PROVE  UNCHANGED <<columns, faults>>
  BY <1>1 DEF Ensure, Describe, Redescribe, Probe, RunStarts, RunEnds
<1>2. ASSUME NEW r \in Runner, CreateTable(r) \/ AddColumn(r)
      PROVE  columns \subseteq columns' /\ faults' = faults
  BY <1>0, <1>2 DEF CreateTable, AddColumn
<1>3. ASSUME NEW r \in Runner, AlterRejected(r) \/ QueryFails(r)
      PROVE  columns \subseteq columns' /\ faults' \in {faults, faults + 1}
  BY <1>3 DEF AlterRejected, QueryFails
<1>4. ASSUME NEW c \in Reader,
             SnapshotDescribe(c) \/ SnapshotSelect(c) \/ SnapshotAbsent(c)
      PROVE  UNCHANGED <<columns, faults>>
  BY <1>4 DEF SnapshotDescribe, SnapshotSelect, SnapshotAbsent
<1>5. CASE UNCHANGED vars
  BY <1>5 DEF vars
<1> QED
  BY <1>0, <1>1, <1>2, <1>3, <1>4, <1>5 DEF Next, Step

(* The step of one runner leaves the others where they are. *)
LEMMA OthersStay ==
  ASSUME IInv, [Next]_vars, Alone, RaceHarmless,
         NEW r \in WithDriver, UNCHANGED <<pc[r], missing[r], threw[r]>>
  PROVE  /\ pc'[r] # "probe"
         /\ pc'[r] = "redescribe" => NextColumn(r)' \in columns' \/ faults' > 0
         /\ threw'[r] => faults' > 0
  BY OnlyGrows DEF Alone, RaceHarmless, NextColumn

(* ... and a runner with a driver throws only once a query has failed. *)
LEMMA OwnStep ==
  ASSUME IInv, [Next]_vars, Alone, RaceHarmless, NEW r \in WithDriver,
         Ensure(r) \/ Step(r) \/ QueryFails(r) \/ RunStarts(r) \/ RunEnds(r)
  PROVE  /\ pc'[r] # "probe"
         /\ pc'[r] = "redescribe" => NextColumn(r)' \in columns' \/ faults' > 0
         /\ threw'[r] => faults' > 0
<1>0. /\ r \in Runner /\ pc[r] # "probe" /\ (threw[r] => faults > 0)
      /\ faults \in Nat /\ (faults > 0 => faults' > 0)
      /\ pc \in [Runner -> {"idle", "create", "describe", "alter", "redescribe", "probe"}]
      /\ threw \in [Runner -> BOOLEAN] /\ missing \in [Runner -> SUBSET Both]
  BY RunnerAssumption, FaultsAssumption, OnlyGrows DEF IInv, TypeOK, Alone, RaceHarmless
<1>1. ASSUME Resolved(r) PROVE pc'[r] = "idle" /\ threw'[r] = threw[r]
  BY <1>0, <1>1 DEF Resolved, Goto
<1>2. ASSUME Thrown(r) PROVE pc'[r] = "idle"
  BY <1>0, <1>2 DEF Thrown, Goto
<1>3. ASSUME ColumnDone(r) PROVE pc'[r] \in {"idle", "alter"} /\ threw'[r] = threw[r]
  BY <1>0, <1>1, <1>3 DEF ColumnDone, Goto
<1>4. CASE Ensure(r) \/ RunStarts(r) \/ RunEnds(r)
  <2>1. threw' = threw /\ (pc' = pc \/ pc'[r] = "create")
    BY <1>0, <1>4 DEF Ensure, RunStarts, RunEnds, Goto
  <2>2. CASE pc'[r] = "create"
    BY <1>0, <2>1, <2>2
  <2>3. CASE pc' = pc
    <3>1. UNCHANGED <<missing, threw, pc>>
      BY <1>4, <2>3 DEF Ensure, RunStarts, RunEnds
    <3> QED
      BY <3>1, OthersStay
  <2> QED
    BY <2>1, <2>2, <2>3
<1>5. CASE CreateTable(r)
  BY <1>0, <1>5 DEF CreateTable, Goto
<1>6. CASE Describe(r)
  BY <1>0, <1>1, <1>6 DEF Describe, Goto
<1>7. CASE AddColumn(r)
  BY <1>0, <1>3, <1>7 DEF AddColumn
<1>8. CASE AlterRejected(r)
  <2>1. pc'[r] = "redescribe" /\ threw' = threw /\ missing' = missing
    BY <1>0, <1>8 DEF AlterRejected, Goto
  <2>2. NextColumn(r)' = NextColumn(r)
    BY <2>1 DEF NextColumn
  <2>3. NextColumn(r) \in columns' \/ faults' > 0
    BY <1>0, <1>8 DEF AlterRejected
  <2> QED
    BY <1>0, <2>1, <2>2, <2>3
<1>9. CASE Redescribe(r)
  <2>1. CASE NextColumn(r) \in columns
    BY <1>0, <1>3, <1>9, <2>1 DEF Redescribe
  <2>2. CASE NextColumn(r) \notin columns
    BY <1>0, <1>2, <1>9, <2>2 DEF Redescribe, Alone
  <2> QED
    BY <2>1, <2>2
<1>10. CASE Probe(r)
  BY <1>0, <1>10 DEF Probe
<1>11. CASE QueryFails(r)
  <2>1. faults' > 0
    BY <1>0, <1>11 DEF QueryFails
  <2> QED
    BY <1>0, <1>2, <1>11, <2>1 DEF QueryFails
<1> QED
  BY <1>4, <1>5, <1>6, <1>7, <1>8, <1>9, <1>10, <1>11 DEF Step

LEMMA RaceStep == ASSUME UInv, [Next]_vars PROVE Alone' /\ RaceHarmless'
<1> SUFFICES ASSUME NEW r \in WithDriver
             PROVE  /\ pc'[r] # "probe"
                    /\ pc'[r] = "redescribe" => NextColumn(r)' \in columns' \/ faults' > 0
                    /\ threw'[r] => faults' > 0
  BY DEF Alone, RaceHarmless
<1>0. IInv /\ Alone /\ RaceHarmless
  BY DEF UInv
<1>1. r \in Runner
  BY RunnerAssumption
<1>2. ASSUME NEW q \in Runner, q # r,
             Ensure(q) \/ Step(q) \/ QueryFails(q) \/ RunStarts(q) \/ RunEnds(q)
      PROVE  UNCHANGED <<pc[r], missing[r], threw[r]>>
  <2>0. /\ pc \in [Runner -> {"idle", "create", "describe", "alter", "redescribe", "probe"}]
        /\ threw \in [Runner -> BOOLEAN] /\ missing \in [Runner -> SUBSET Both]
    BY <1>0 DEF IInv, TypeOK
  <2>1. ASSUME Resolved(q) \/ Thrown(q) \/ ColumnDone(q)
        PROVE  UNCHANGED <<pc[r], missing[r], threw[r]>>
    BY <1>1, <1>2, <2>0, <2>1 DEF Resolved, Thrown, ColumnDone, Goto
  <2>2. CASE Ensure(q) \/ RunStarts(q) \/ RunEnds(q) \/ CreateTable(q) \/ AlterRejected(q)
    BY <1>1, <1>2, <2>0, <2>2 DEF Ensure, RunStarts, RunEnds, CreateTable, AlterRejected, Goto
  <2>3. CASE Describe(q)
    BY <1>1, <1>2, <2>0, <2>1, <2>3 DEF Describe, Goto
  <2>4. CASE AddColumn(q) \/ Redescribe(q) \/ Probe(q) \/ QueryFails(q)
    BY <2>1, <2>4 DEF AddColumn, Redescribe, Probe, QueryFails
  <2> QED
    BY <1>2, <2>2, <2>3, <2>4 DEF Step
<1>3. ASSUME NEW c \in Reader,
             SnapshotDescribe(c) \/ SnapshotSelect(c) \/ SnapshotAbsent(c)
      PROVE  UNCHANGED <<pc, missing, threw>>
  BY <1>3 DEF SnapshotDescribe, SnapshotSelect, SnapshotAbsent
<1>4. CASE UNCHANGED vars
  BY <1>0, <1>4, OthersStay DEF vars
<1>5. CASE Next
  BY <1>0, <1>1, <1>2, <1>3, <1>5, OthersStay, OwnStep DEF Next
<1> QED
  BY <1>4, <1>5

LEMMA ReaderStep ==
  ASSUME UInv, [Next]_vars
  PROVE  SeenWhole' /\ StartedInWhole' /\ StartedReported'
<1> DEFINE Good == SeenWhole' /\ StartedInWhole' /\ StartedReported'
<1>0. /\ EnsuredTable /\ SeenWhole /\ StartedInWhole /\ StartedReported
      /\ started \in BOOLEAN
      /\ columns = Both => columns' = Both
      /\ view \in [Reader -> {"none", "absent", "legacy", "full"}]
      /\ report \in [Reader -> Report]
  <2>1. columns' \subseteq Both
    BY InvStep DEF UInv, IInv, TypeOK
  <2> QED
    BY <2>1, OnlyGrows DEF UInv, IInv, TypeOK
<1>1. CASE UNCHANGED <<view, report, started>>
  BY <1>0, <1>1 DEF SeenWhole, StartedInWhole, StartedReported
<1>2. ASSUME NEW c \in Reader, SnapshotDescribe(c) PROVE Good
  <2>1. /\ report' = [report EXCEPT ![c] = [Unread EXCEPT !.before = started]]
        /\ view' = [view EXCEPT ![c] = IF ~exists THEN "absent"
                                       ELSE IF columns = Both THEN "full"
                                       ELSE "legacy"]
        /\ UNCHANGED <<columns, started>>
    BY <1>2 DEF SnapshotDescribe
  <2>2. report'[c].before = started /\ ~report'[c].legacy
        /\ report'[c].said = report'[c].was
    BY <1>0, <2>1 DEF Unread
  <2>3. view'[c] = "legacy" => columns # Both
    BY <1>0, <2>1
  <2>4. \A d \in Reader \ {c} : report'[d] = report[d] /\ view'[d] = view[d]
    BY <1>0, <2>1
  <2>5. view'[c] = "full" => columns = Both
    BY <1>0, <2>1
  <2> QED
    BY <1>0, <2>1, <2>2, <2>3, <2>4, <2>5 DEF SeenWhole, StartedInWhole, StartedReported
<1>3. ASSUME NEW c \in Reader, SnapshotSelect(c) PROVE Good
  <2>1. /\ report' = [report EXCEPT ![c] =
                        [legacy |-> view[c] = "legacy",
                         said |-> view[c] = "full" /\ started,
                         was |-> started, before |-> report[c].before]]
        /\ view' = [view EXCEPT ![c] = "none"]
        /\ view[c] \in {"legacy", "full"}
        /\ UNCHANGED <<columns, started>>
    BY <1>3 DEF SnapshotSelect
  <2>2. /\ report'[c].legacy = (view[c] = "legacy")
        /\ report'[c].said = (view[c] = "full" /\ started)
        /\ report'[c].was = started
        /\ report'[c].before = report[c].before
    BY <1>0, <2>1
  <2>3. \A d \in Reader \ {c} : report'[d] = report[d] /\ view'[d] = view[d]
    BY <1>0, <2>1
  <2>4. view'[c] = "none"
    BY <1>0, <2>1
  <2> QED
    BY <1>0, <2>1, <2>2, <2>3, <2>4 DEF SeenWhole, StartedInWhole, StartedReported
<1>4. ASSUME NEW c \in Reader, SnapshotAbsent(c) PROVE Good
  BY <1>0, <1>4 DEF SnapshotAbsent, SeenWhole, StartedInWhole, StartedReported
<1>5. ASSUME NEW r \in Runner, Ensure(r) \/ Step(r) \/ QueryFails(r)
      PROVE  UNCHANGED <<view, report, started>>
  BY <1>5 DEF Ensure, Step, QueryFails, CreateTable, Describe,
              AddColumn, AlterRejected, Redescribe, Probe
<1>6. ASSUME NEW r \in Runner, RunStarts(r) \/ RunEnds(r) PROVE Good
  BY <1>0, <1>6
  DEF RunStarts, RunEnds, EnsuredTable, SeenWhole, StartedInWhole, StartedReported
<1> QED
  BY <1>1, <1>2, <1>3, <1>4, <1>5, <1>6 DEF Next, vars

(* Runners that upgrade one table beside each other fail only with a query, *)
(* and a check that reads it meanwhile reports what is started, except for  *)
(* rows claimed after it had described the old table.                       *)
THEOREM UpgradeIsSafe == Spec => []UpgradeSafe
<1>1. UInv /\ [Next]_vars => UInv'
  BY InvStep, RaceStep, ReaderStep DEF UInv
<1>2. UInv => UpgradeSafe
  BY DEF UInv, UpgradeSafe
<1> QED
  BY <1>1, <1>2, InitUInv, PTL DEF Spec
=============================================================================
