---------------------------- MODULE Bookkeeping ----------------------------
(***************************************************************************)
(* How the `ydb_migrations` table comes to have its five columns           *)
(* (YdbMigrationRunner.ensureMigrationsTable, migration-runner.ts) while   *)
(* other processes do the same, and how the read-only readiness check      *)
(* reads it (readBookkeepingSnapshot, migration-bookkeeping.ts).           *)
(*                                                                         *)
(* A table made before hashes lacks `hash` and `state`; a table whose      *)
(* upgrade was interrupted lacks one of them.  The rows are abstracted to  *)
(* one bit: whether some row is `started`.                                 *)
(***************************************************************************)
EXTENDS Naturals

CONSTANTS
  Runner,      \* runner instances
  WithDriver,  \* those given a driver, hence DescribeTable
  Reader,      \* readiness checks
  InitColumns, \* the column sets an existing table may start with
  MaxFaults    \* bound on the queries that fail

ASSUME RunnerAssumption == WithDriver \subseteq Runner
ASSUME FaultsAssumption == MaxFaults \in Nat

Both == {"hash", "state"}
ASSUME ColumnsAssumption == InitColumns \subseteq SUBSET Both

VARIABLES
  exists,   \* the table exists
  columns,  \* which of `hash` and `state` it has
  started,  \* some row is `started`
  promise,  \* ensurePromise of each runner
  pc,       \* where its doEnsureMigrationsTable() is
  missing,  \* the columns it still has to see or add
  threw,    \* the call of the runner ended in an error at least once
  view,     \* what the reader's DescribeTable said
  report,   \* the snapshot: `legacy`, what it says of `started`, what was so,
            \* and whether it was so before, when the table was described
  faults

vars == <<exists, columns, started, promise, pc, missing, threw, view, report, faults>>

Report == [legacy : BOOLEAN, said : BOOLEAN, was : BOOLEAN, before : BOOLEAN]
Unread == [legacy |-> FALSE, said |-> FALSE, was |-> FALSE, before |-> FALSE]

TypeOK ==
  /\ exists \in BOOLEAN /\ columns \in SUBSET Both /\ started \in BOOLEAN
  /\ promise \in [Runner -> {"none", "pending", "resolved"}]
  /\ pc \in [Runner -> {"idle", "create", "describe", "alter", "redescribe", "probe"}]
  /\ missing \in [Runner -> SUBSET Both]
  /\ threw \in [Runner -> BOOLEAN]
  /\ view \in [Reader -> {"none", "absent", "legacy", "full"}]
  /\ report \in [Reader -> Report]
  /\ faults \in 0..MaxFaults

Init ==
  /\ exists \in BOOLEAN
  /\ columns \in IF exists THEN InitColumns ELSE {{}}
  /\ started = FALSE
  /\ promise = [r \in Runner |-> "none"]
  /\ pc      = [r \in Runner |-> "idle"]
  /\ missing = [r \in Runner |-> {}]
  /\ threw   = [r \in Runner |-> FALSE]
  /\ view    = [c \in Reader |-> "none"]
  /\ report  = [c \in Reader |-> Unread]
  /\ faults  = 0

-----------------------------------------------------------------------------
(* ensureMigrationsTable() *)

Goto(r, l) == pc' = [pc EXCEPT ![r] = l]

Resolved(r) ==
  /\ promise' = [promise EXCEPT ![r] = "resolved"]
  /\ missing' = [missing EXCEPT ![r] = {}]
  /\ Goto(r, "idle")
  /\ UNCHANGED threw

(* Mutant: the rejected promise stays cached. *)
ThrownCached(r) ==
  /\ threw' = [threw EXCEPT ![r] = TRUE]
  /\ Goto(r, "idle")
  /\ UNCHANGED <<promise, missing>>

(* The cached promise is dropped, so that the next call tries again. *)
Thrown(r) ==
  /\ promise' = [promise EXCEPT ![r] = "none"]
  /\ missing' = [missing EXCEPT ![r] = {}]
  /\ threw'   = [threw EXCEPT ![r] = TRUE]
  /\ Goto(r, "idle")

(* A call while one is pending or resolved shares its promise. *)
Ensure(r) ==
  /\ promise[r] = "none"
  /\ promise' = [promise EXCEPT ![r] = "pending"]
  /\ Goto(r, "create")
  /\ UNCHANGED <<exists, columns, started, missing, threw, view, report, faults>>

CreateTable(r) ==
  /\ pc[r] = "create"
  /\ exists' = TRUE
  /\ columns' = IF exists THEN columns ELSE Both
  /\ Goto(r, IF r \in WithDriver THEN "describe" ELSE "probe")
  /\ UNCHANGED <<started, promise, missing, threw, view, report, faults>>

(* Mutant: looks for every column of the new format. *)
DescribeAll(r) ==
  /\ pc[r] = "describe"
  /\ missing' = [missing EXCEPT ![r] = (Both \cup {"name"}) \ columns]
  /\ Goto(r, "alter")
  /\ UNCHANGED <<exists, columns, started, promise, threw, view, report, faults>>

Describe(r) ==
  /\ pc[r] = "describe"
  /\ IF columns = Both
       THEN Resolved(r)
       ELSE /\ missing' = [missing EXCEPT ![r] = Both \ columns]
            /\ Goto(r, "alter")
            /\ UNCHANGED <<promise, threw>>
  /\ UNCHANGED <<exists, columns, started, view, report, faults>>

(* `hash` comes before `state`. *)
NextColumn(r) == IF "hash" \in missing[r] THEN "hash" ELSE "state"

(* The column at hand is there: on to the next one, or done. *)
ColumnDone(r) ==
  IF missing[r] = {NextColumn(r)}
    THEN Resolved(r)
    ELSE /\ missing' = [missing EXCEPT ![r] = @ \ {NextColumn(r)}]
         /\ Goto(r, "alter")
         /\ UNCHANGED <<promise, threw>>

AddColumn(r) ==
  /\ pc[r] = "alter"
  /\ NextColumn(r) \notin columns
  /\ columns' = columns \cup {NextColumn(r)}
  /\ ColumnDone(r)
  /\ UNCHANGED <<exists, started, view, report, faults>>

(* ALTER rejects: the column is a duplicate, or the query failed, before or *)
(* after it took effect.  The code asks the table, not the error.           *)
AlterRejected(r) ==
  /\ pc[r] = "alter"
  /\ \/ /\ NextColumn(r) \in columns
        /\ UNCHANGED <<columns, faults>>
     \/ /\ faults < MaxFaults
        /\ faults' = faults + 1
        /\ columns' \in {columns, columns \cup {NextColumn(r)}}
  /\ Goto(r, "redescribe")
  /\ UNCHANGED <<exists, started, promise, missing, threw, view, report>>

(* Mutant: any ALTER error is taken for a duplicate column. *)
RedescribeTrusts(r) ==
  /\ pc[r] = "redescribe"
  /\ ColumnDone(r)
  /\ UNCHANGED <<exists, columns, started, view, report, faults>>

Redescribe(r) ==
  /\ pc[r] = "redescribe"
  /\ IF NextColumn(r) \in columns THEN ColumnDone(r) ELSE Thrown(r)
  /\ UNCHANGED <<exists, columns, started, view, report, faults>>

(* Without a driver nothing is altered: the SELECT works or the call throws. *)
Probe(r) ==
  /\ pc[r] = "probe"
  /\ IF columns = Both THEN Resolved(r) ELSE Thrown(r)
  /\ UNCHANGED <<exists, columns, started, view, report, faults>>

(* Any other query rejects.  (One whose effect took place but whose answer  *)
(* is lost is the query followed by the next one rejecting.)                *)
QueryFails(r) ==
  /\ pc[r] \in {"create", "describe", "redescribe", "probe"}
  /\ faults < MaxFaults
  /\ faults' = faults + 1
  /\ Thrown(r)
  /\ UNCHANGED <<exists, columns, started, view, report>>

-----------------------------------------------------------------------------
(* What the ensured table is for: a run() in progress leaves a `started` row *)
(* (MigrationRunner), and the check reads the rows.                          *)

RunStarts(r) ==
  /\ promise[r] = "resolved" /\ ~started
  /\ started' = TRUE
  /\ UNCHANGED <<exists, columns, promise, pc, missing, threw, view, report, faults>>

RunEnds(r) ==
  /\ promise[r] = "resolved" /\ started
  /\ started' = FALSE
  /\ UNCHANGED <<exists, columns, promise, pc, missing, threw, view, report, faults>>

SnapshotDescribe(c) ==
  /\ view[c] = "none"
  /\ view' = [view EXCEPT ![c] = IF ~exists THEN "absent"
                                 ELSE IF columns = Both THEN "full"
                                 ELSE "legacy"]
  /\ report' = [report EXCEPT ![c] = [Unread EXCEPT !.before = started]]
  /\ UNCHANGED <<exists, columns, started, promise, pc, missing, threw, faults>>

(* Mutant: `state` is never selected. *)
SnapshotSelectNarrow(c) ==
  /\ view[c] \in {"legacy", "full"}
  /\ report' = [report EXCEPT ![c] =
                  [legacy |-> view[c] = "legacy", said |-> FALSE,
                   was |-> started, before |-> report[c].before]]
  /\ view' = [view EXCEPT ![c] = "none"]
  /\ UNCHANGED <<exists, columns, started, promise, pc, missing, threw, faults>>

(* Under the legacy view the SELECT does not ask for `state`, and a row    *)
(* without one counts as applied.                                          *)
SnapshotSelect(c) ==
  /\ view[c] \in {"legacy", "full"}
  /\ report' = [report EXCEPT ![c] =
                  [legacy |-> view[c] = "legacy",
                   said |-> view[c] = "full" /\ started,
                   was |-> started, before |-> report[c].before]]
  /\ view' = [view EXCEPT ![c] = "none"]
  /\ UNCHANGED <<exists, columns, started, promise, pc, missing, threw, faults>>

SnapshotAbsent(c) ==
  /\ view[c] = "absent"
  /\ view' = [view EXCEPT ![c] = "none"]
  /\ UNCHANGED <<exists, columns, started, promise, pc, missing, threw, report, faults>>

Step(r) == CreateTable(r) \/ Describe(r) \/ AddColumn(r) \/ AlterRejected(r)
             \/ Redescribe(r) \/ Probe(r)

Next ==
  \/ \E r \in Runner : Ensure(r) \/ Step(r) \/ QueryFails(r)
                         \/ RunStarts(r) \/ RunEnds(r)
  \/ \E c \in Reader : SnapshotDescribe(c) \/ SnapshotSelect(c) \/ SnapshotAbsent(c)

Spec == Init /\ [][Next]_vars

(* A pending call goes on, and one that threw is made again. *)
Fairness == \A r \in Runner : WF_vars(Step(r)) /\ WF_vars(Ensure(r))
FairSpec == Spec /\ Fairness

-----------------------------------------------------------------------------
(* A resolved promise, which is never asked again, is never wrong: both    *)
(* columns are there, whoever added them and whatever failed on the way.   *)
EnsuredTable ==
  \A r \in Runner : promise[r] = "resolved" => exists /\ columns = Both

(* Processes that upgrade one table at the same time do not fail because of *)
(* each other: with a driver, ensure throws only when a query failed.       *)
RaceHarmless == \A r \in WithDriver : threw[r] => faults > 0

(* A partly upgraded table is no dead end: once queries stop failing every  *)
(* runner gets its table, the driverless ones after one with a driver did.  *)
EventuallyEnsured == <>[](\A r \in Runner : promise[r] = "resolved")

(* A snapshot says what is `started`, whatever was upgraded between its two *)
(* queries.  A table described as legacy and upgraded before it is selected *)
(* is the exception: its rows are read without `state`, and one of them may *)
(* be overlooked; but never one that was `started` when the table was       *)
(* described, only a claim made after the check began.                      *)
StartedReported ==
  \A c \in Reader : IF report[c].legacy THEN ~report[c].before
                    ELSE report[c].said = report[c].was

(* An upgrade disturbs neither the upgrades beside it nor those who read.   *)
UpgradeSafe == RaceHarmless /\ StartedReported
=============================================================================
