-------------------------- MODULE MigrationRunner --------------------------
(***************************************************************************)
(* YdbMigrationRunner (src/migrations/migration-runner.ts): processes that *)
(* share one `ydb_migrations` table and one database schema run, revert and *)
(* repair migrations.  There is no lock: the only guard is the PRIMARY KEY *)
(* conflict of the INSERT that claims a migration.                         *)
(*                                                                         *)
(* One action is one query, or one side of an up()/down() body, because    *)
(* each is a separate await.  A process may be killed, or see any query    *)
(* fail, between two of them (Abort); a write whose answer is lost is the  *)
(* write followed by Abort.                                                *)
(***************************************************************************)
EXTENDS MigrationMatching, FiniteSets

CONSTANTS
  Proc,       \* processes holding a runner
  Reverter,   \* those that call revert()
  Operator,   \* those used to resolve interrupted migrations by hand
  Drifting,   \* those whose Date.now() is not in step with the others
  Inputs,     \* the file lists runners are called with
  InitRows,   \* contents of the table at the start
  MaxFaults,  \* bound on the number of aborted calls
  MaxHaste    \* bound on the rows that are resolved in haste, each once

ASSUME ProcAssumption == /\ Reverter \subseteq Proc
                         /\ Operator \subseteq Proc
                         /\ Drifting \subseteq Proc
ASSUME InputsAssumption == Inputs \subseteq Seq(File)
ASSUME InitRowsAssumption ==
  \A t \in InitRows : t \in Table /\ Started(t) = {}
ASSUME MaxFaultsAssumption == MaxFaults \in Nat
ASSUME MaxHasteAssumption == MaxHaste \in Nat

VARIABLES
  table,    \* ydb_migrations
  schema,   \* what up()/down() behind a row id left in the database
  pc,       \* where each process is
  input,    \* the file list of its call
  seen,     \* `applied`, the table as its call read it
  pos,      \* the entry of `input` its run() looks at
  cur,      \* the row id it is working on, NoRow if none
  faults,   \* aborted calls so far
  hasty     \* rows an operator resolved while a process was at them (history)

vars == <<table, schema, pc, input, seen, pos, cur, faults, hasty>>
local == <<pc, input, seen, pos, cur>>

Empty == [row |-> [i \in RowId |-> NoRow], older |-> {}]

RunLabel    == {"run.next", "run.claimed", "run.up", "run.finish"}
RevertLabel == {"revert.mark", "revert.marked", "revert.down", "revert.delete"}
RepairLabel == {"mark.write", "remove.write"}
Label       == {"idle"} \cup RunLabel \cup RevertLabel \cup RepairLabel

TypeOK ==
  /\ table \in Table
  /\ schema \in [RowId -> {"absent", "partial", "present"}]
  /\ pc \in [Proc -> Label]
  /\ input \in [Proc -> Inputs \cup {<<>>}]
  /\ seen \in [Proc -> Table]
  /\ pos \in [Proc -> Nat]
  /\ cur \in [Proc -> RowId \cup {NoRow}]
  /\ faults \in 0..MaxFaults
  /\ hasty \subseteq RowId

Init ==
  /\ table \in InitRows
  /\ schema = [i \in RowId |-> IF table.row[i] = NoRow THEN "absent" ELSE "present"]
  /\ pc     = [p \in Proc |-> "idle"]
  /\ input  = [p \in Proc |-> <<>>]
  /\ seen   = [p \in Proc |-> Empty]
  /\ pos    = [p \in Proc |-> 0]
  /\ cur    = [p \in Proc |-> NoRow]
  /\ faults = 0
  /\ hasty = {}

-----------------------------------------------------------------------------
(* The queries. *)

(* Date.now() puts a written row last; a drifting clock puts it before the *)
(* rows of `later`, any tail of the chronology.                            *)
Later(p, id) ==
  {L \in SUBSET (Recorded(table) \ {id}) :
     /\ p \in Drifting \/ L = {}
     /\ \A j \in L, k \in Recorded(table) \ {id} :
          <<j, k>> \in table.older => k \in L}

Stamped(id, r, later) ==
  [row   |-> [table.row EXCEPT ![id] = r],
   older |-> {o \in table.older : id \notin {o[1], o[2]}}
               \cup ((Recorded(table) \ (later \cup {id})) \X {id})
               \cup ({id} \X later)]

(* Mutant: UPSERT in place of INSERT. *)
InsertRecordUpserts(p, id, r) ==
  \E later \in Later(p, id) : table' = Stamped(id, r, later)

InsertRecord(p, id, r) ==
  /\ table.row[id] = NoRow
  /\ \E later \in Later(p, id) : table' = Stamped(id, r, later)

(* UPDATE ... WHERE id: sets state and timestamp; no row, no effect. *)
UpdateState(p, id, s) ==
  IF table.row[id] = NoRow
    THEN table' = table
    ELSE \E later \in Later(p, id) :
           table' = Stamped(id, [table.row[id] EXCEPT !.state = s], later)

DeleteRecord(id) ==
  table' = [row   |-> [table.row EXCEPT ![id] = NoRow],
            older |-> {o \in table.older : id \notin {o[1], o[2]}}]

Goto(p, l) == pc' = [pc EXCEPT ![p] = l]

Return(p) ==
  /\ Goto(p, "idle")
  /\ input' = [input EXCEPT ![p] = <<>>]
  /\ seen'  = [seen EXCEPT ![p] = Empty]
  /\ pos'   = [pos EXCEPT ![p] = 0]
  /\ cur'   = [cur EXCEPT ![p] = NoRow]

-----------------------------------------------------------------------------
(* run() *)

(* Mutant: `started` rows are not looked for. *)
RunUnchecked(p, list) ==
  /\ pc[p] = "idle"
  /\ NoDuplicates(list)
  /\ Goto(p, "run.next")
  /\ input' = [input EXCEPT ![p] = list]
  /\ seen'  = [seen EXCEPT ![p] = table]
  /\ pos'   = [pos EXCEPT ![p] = 1]
  /\ UNCHANGED <<table, schema, cur, faults, hasty>>

(* Duplicates and `started` rows make it throw before it does anything. *)
Run(p, list) ==
  /\ pc[p] = "idle"
  /\ NoDuplicates(list)
  /\ Started(table) = {}
  /\ Goto(p, "run.next")
  /\ input' = [input EXCEPT ![p] = list]
  /\ seen'  = [seen EXCEPT ![p] = table]
  /\ pos'   = [pos EXCEPT ![p] = 1]
  /\ UNCHANGED <<table, schema, cur, faults, hasty>>

AtFile(p) == pc[p] = "run.next" /\ pos[p] \in DOMAIN input[p]
TheFile(p) == input[p][pos[p]]
Match(p)  == MatchAppliedRecord(seen[p], TheFile(p))

(* Mutant: `break` in place of `continue`. *)
SkipMatchedBreaks(p) ==
  /\ AtFile(p) /\ Match(p).kind = "matched"
  /\ Return(p)
  /\ UNCHANGED <<table, schema, faults, hasty>>

SkipMatched(p) ==
  /\ AtFile(p) /\ Match(p).kind = "matched"
  /\ pos' = [pos EXCEPT ![p] = @ + 1]
  /\ UNCHANGED <<table, schema, pc, input, seen, cur, faults, hasty>>

RefuseChanged(p) ==
  /\ AtFile(p) /\ Match(p).kind = "changed"
  /\ Return(p)
  /\ UNCHANGED <<table, schema, faults, hasty>>

Claim(p) ==
  /\ AtFile(p) /\ Match(p).kind = "pending"
  /\ InsertRecord(p, Key(TheFile(p)),
       [name |-> TheFile(p).name, hash |-> TheFile(p).hash, state |-> "started"])
  /\ Goto(p, "run.claimed")
  /\ cur' = [cur EXCEPT ![p] = Key(TheFile(p))]
  /\ UNCHANGED <<schema, input, seen, pos, faults, hasty>>

LoseClaim(p) ==
  /\ AtFile(p) /\ Match(p).kind = "pending"
  /\ table.row[Key(TheFile(p))] # NoRow
  /\ Return(p)
  /\ UNCHANGED <<table, schema, faults, hasty>>

UpBegin(p) ==
  /\ pc[p] = "run.claimed"
  /\ schema' = [schema EXCEPT ![cur[p]] = "partial"]
  /\ Goto(p, "run.up")
  /\ UNCHANGED <<table, input, seen, pos, cur, faults, hasty>>

UpEnd(p) ==
  /\ pc[p] = "run.up"
  /\ schema' = [schema EXCEPT ![cur[p]] = "present"]
  /\ Goto(p, "run.finish")
  /\ UNCHANGED <<table, input, seen, pos, cur, faults, hasty>>

FinishRecord(p) ==
  /\ pc[p] = "run.finish"
  /\ UpdateState(p, cur[p], "applied")
  /\ Goto(p, "run.next")
  /\ pos' = [pos EXCEPT ![p] = @ + 1]
  /\ cur' = [cur EXCEPT ![p] = NoRow]
  /\ UNCHANGED <<schema, input, seen, faults, hasty>>

RunDone(p) ==
  /\ pc[p] = "run.next" /\ pos[p] \notin DOMAIN input[p]
  /\ Return(p)
  /\ UNCHANGED <<table, schema, faults, hasty>>

-----------------------------------------------------------------------------
(* revert() *)

(* Mutant: the last row is taken whatever its state. *)
RevertUnchecked(p, list) ==
  /\ p \in Reverter
  /\ pc[p] = "idle"
  /\ NoDuplicates(list)
  /\ \E last \in Newest(table, Recorded(table)) :
       /\ FilesForRecord(list, table.row[last]) # {}
       /\ cur' = [cur EXCEPT ![p] = last]
  /\ input' = [input EXCEPT ![p] = list]
  /\ Goto(p, "revert.mark")
  /\ UNCHANGED <<table, schema, seen, pos, faults, hasty>>

(* Nothing recorded, a `started` last row or a missing file end the call.  *)
Revert(p, list) ==
  /\ p \in Reverter
  /\ pc[p] = "idle"
  /\ NoDuplicates(list)
  /\ \E last \in Newest(table, Recorded(table)) :
       /\ last \notin Started(table)
       /\ FilesForRecord(list, table.row[last]) # {}
       /\ cur' = [cur EXCEPT ![p] = last]
  /\ input' = [input EXCEPT ![p] = list]
  /\ Goto(p, "revert.mark")
  /\ UNCHANGED <<table, schema, seen, pos, faults, hasty>>

(* Mutant: no marker before down(). *)
StartRecordSkipped(p) ==
  /\ pc[p] = "revert.mark"
  /\ Goto(p, "revert.marked")
  /\ UNCHANGED <<table, schema, input, seen, pos, cur, faults, hasty>>

StartRecord(p) ==
  /\ pc[p] = "revert.mark"
  /\ UpdateState(p, cur[p], "started")
  /\ Goto(p, "revert.marked")
  /\ UNCHANGED <<schema, input, seen, pos, cur, faults, hasty>>

DownBegin(p) ==
  /\ pc[p] = "revert.marked"
  /\ schema' = [schema EXCEPT ![cur[p]] = "partial"]
  /\ Goto(p, "revert.down")
  /\ UNCHANGED <<table, input, seen, pos, cur, faults, hasty>>

DownEnd(p) ==
  /\ pc[p] = "revert.down"
  /\ schema' = [schema EXCEPT ![cur[p]] = "absent"]
  /\ Goto(p, "revert.delete")
  /\ UNCHANGED <<table, input, seen, pos, cur, faults, hasty>>

RevertDone(p) ==
  /\ pc[p] = "revert.delete"
  /\ DeleteRecord(cur[p])
  /\ Return(p)
  /\ UNCHANGED <<schema, faults, hasty>>

-----------------------------------------------------------------------------
(* markMigrationApplied(), removeMigrationRecord() *)

At(p, id) == pc[p] # "idle" /\ cur[p] = id

(* RECOVERY_HINT: an operator resolves a `started` row, once the database  *)
(* is in the state the call will record.  That repair by hand is external  *)
(* and is taken with the read of resolveRecord.  Nothing in the call asks  *)
(* whether the row is left over or of a process at work, and run() throws  *)
(* the same message in both cases.                                         *)
Repair(p, f, state, next) ==
  /\ p \in Operator
  /\ pc[p] = "idle"
  /\ \E id \in ResolveRecord(table, f) \cap Started(table) :
       /\ schema' = [schema EXCEPT ![id] = state]
       /\ cur' = [cur EXCEPT ![p] = id]
       /\ \/ /\ \A q \in Proc : ~At(q, id)
             /\ hasty' = hasty
          \/ /\ \E q \in Proc : At(q, id)
             /\ id \notin hasty /\ Cardinality(hasty) < MaxHaste
             /\ hasty' = hasty \cup {id}
  /\ Goto(p, next)
  /\ UNCHANGED <<table, input, seen, pos, faults>>

MarkMigrationApplied(p, f)  == Repair(p, f, "present", "mark.write")
RemoveMigrationRecord(p, f) == Repair(p, f, "absent", "remove.write")

MarkWrite(p) ==
  /\ pc[p] = "mark.write"
  /\ UpdateState(p, cur[p], "applied")
  /\ Return(p)
  /\ UNCHANGED <<schema, faults, hasty>>

RemoveWrite(p) ==
  /\ pc[p] = "remove.write"
  /\ DeleteRecord(cur[p])
  /\ Return(p)
  /\ UNCHANGED <<schema, faults, hasty>>

-----------------------------------------------------------------------------
(* Mutant: a failing call cleans its row up, as a `finally` would. *)
AbortCleansUp(p) ==
  /\ pc[p] # "idle"
  /\ faults < MaxFaults
  /\ faults' = faults + 1
  /\ IF cur[p] = NoRow THEN table' = table ELSE DeleteRecord(cur[p])
  /\ Return(p)
  /\ UNCHANGED <<schema, hasty>>

(* A query, up() or down() rejects and the call throws, or the process dies. *)
Abort(p) ==
  /\ pc[p] # "idle"
  /\ faults < MaxFaults
  /\ faults' = faults + 1
  /\ Return(p)
  /\ UNCHANGED <<table, schema, hasty>>

Call(p) == \E list \in Inputs : Run(p, list) \/ Revert(p, list)

(* The target is a migration, or the name of one.                          *)
Resolve(p) ==
  \E list \in Inputs : \E k \in DOMAIN list : \E h \in {list[k].hash, NoHash} :
    LET target == [list[k] EXCEPT !.hash = h]
    IN  MarkMigrationApplied(p, target) \/ RemoveMigrationRecord(p, target)

Step(p) ==
  \/ SkipMatched(p) \/ RefuseChanged(p) \/ Claim(p) \/ LoseClaim(p)
  \/ UpBegin(p) \/ UpEnd(p) \/ FinishRecord(p) \/ RunDone(p)
  \/ StartRecord(p) \/ DownBegin(p) \/ DownEnd(p) \/ RevertDone(p)
  \/ MarkWrite(p) \/ RemoveWrite(p)

Next == \E p \in Proc : Call(p) \/ Resolve(p) \/ Step(p) \/ Abort(p)

Spec == Init /\ [][Next]_vars

(* A process that is scheduled goes on, each list of files is run again and *)
(* again, and someone resolves what an aborted call left behind.            *)
Fairness ==
  /\ \A p \in Proc : WF_vars(Step(p))
  /\ \A list \in Inputs : SF_vars(\E p \in Proc : Run(p, list))
  /\ WF_vars(\E p \in Proc : Resolve(p))

FairSpec == Spec /\ Fairness

-----------------------------------------------------------------------------
(* Properties.  A row that an operator resolves in haste, while a process   *)
(* is at it, may lie from then on, and its migration may be applied twice: *)
(* the properties are about the other rows, which the haste must not touch.*)

Applies(p, id) == At(p, id) /\ pc[p] \in RunLabel
Reverts(p, id) == At(p, id) /\ pc[p] \in RevertLabel \ {"revert.mark"}
Repairs(p, id) == At(p, id) /\ pc[p] \in RepairLabel

(* No migration is in the hands of two processes between its claim and the *)
(* end of its run: the PRIMARY KEY alone must see to it.                   *)
NoDoubleApplication ==
  \A id \in RowId \ hasty : \A p, q \in Proc :
    Applies(p, id) /\ Applies(q, id) => p = q

(* What the table says of a migration is true of the database: no row, no  *)
(* change; `applied`, the whole change.  Only `started` may mean anything. *)
LedgerTruthful ==
  \A id \in RowId \ hasty :
    /\ table.row[id] = NoRow => schema[id] = "absent"
    /\ id \in Recorded(table) \ Started(table) => schema[id] = "present"

(* While up() or down() is at work its row says `started`, so that a death *)
(* in the middle is noticed by the next run().                             *)
MarkerWhileWorking ==
  \A p \in Proc : \A id \in RowId \ hasty :
    Applies(p, id) \/ Reverts(p, id) => id \in Started(table)

(* up() is never called on a database that holds part of its change.       *)
NoBlindRerun ==
  \A p \in Proc : pc[p] = "run.claimed" /\ cur[p] \notin hasty => schema[cur[p]] = "absent"

(* A death at any point is safe: it leaves a row that says so, and nobody   *)
(* starts on what it left.                                                 *)
CrashSafe == MarkerWhileWorking /\ NoBlindRerun

(* up() of an entry starts when every earlier entry of the list is applied, *)
(* whichever process applied it, while nothing was resolved in haste.       *)
(* (Nobody reverting.)                                                     *)
OrderedApplication ==
  hasty = {} => \A p \in Proc : pc[p] \in RunLabel \ {"run.next"} =>
    \A k \in 1..(pos[p] - 1) :
      LET m == MatchAppliedRecord(table, input[p][k])
      IN  m.kind = "matched" /\ m.id \notin Started(table)

(* The runner implements the life every migration is promised.             *)
LifeOf(id) ==
  IF id \in hasty THEN "forfeit"
  ELSE IF table.row[id] = NoRow THEN "absent"
  ELSE IF table.row[id].state = "applied" THEN "applied"
  ELSE IF \E p \in Proc : Applies(p, id) THEN "applying"
  ELSE IF \E p \in Proc : Reverts(p, id) THEN "reverting"
  ELSE "interrupted"

Lifecycle == INSTANCE MigrationLifecycle
               WITH Migration <- RowId, life <- [id \in RowId |-> LifeOf(id)]

ImplementsLifecycle == Lifecycle!Spec

(* Once the failures stop, every migration ends up applied: a claim lost, a *)
(* run refused or an interruption resolved either way never wedges it, nor  *)
(* does the haste at another one.                                          *)
EventuallyUpToDate ==
  <>[](\A list \in Inputs : \A k \in DOMAIN list : Key(list[k]) \in hasty \/
         /\ schema[Key(list[k])] = "present"
         /\ MatchAppliedRecord(table, list[k]).kind = "matched")
=============================================================================
