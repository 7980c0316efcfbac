----------------------- MODULE MigrationRunnerProofs -----------------------
(***************************************************************************)
(* Theorems about MigrationRunner for every set of processes, migrations,  *)
(* file lists and clocks: with at most one process that calls revert(), no *)
(* migration is applied by two processes and the table never lies about    *)
(* the database.  (With two, NoDoubleApplication and MarkerWhileWorking    *)
(* fail: put both in Reverter of run_revert.cfg.)  The last section is      *)
(* about MigrationReadiness: when migration:check foretells migration:run.  *)
(***************************************************************************)
EXTENDS MigrationReadiness, FiniteSetTheorems, TLAPS

SerialReverts == \A p, q \in Reverter : p = q

(* A process is at a row from its claim, read or repair to its last write. *)
ClaimLabel == RunLabel \ {"run.next"}
WorkLabel  == ClaimLabel \cup RevertLabel \cup RepairLabel

Working(p) == pc[p] \in WorkLabel

(* The parts of the inductive invariant: what is said of a row is said as  *)
(* long as nobody resolves it in haste.                                    *)
Placed == \A p \in Proc :
  IF Working(p) THEN cur[p] \in RowId ELSE cur[p] = NoRow

Exclusive == \A p, q \in Proc :
  Working(p) /\ Working(q) /\ cur[p] = cur[q] /\ cur[p] \notin hasty => p = q

Marked == \A p \in Proc :
  Working(p) /\ cur[p] \notin hasty =>
                /\ table.row[cur[p]] # NoRow
                /\ table.row[cur[p]].state =
                     IF pc[p] = "revert.mark" THEN "applied" ELSE "started"

Allowed == \A p \in Proc : pc[p] \in RevertLabel => p \in Reverter

Reached == \A p \in Proc : cur[p] \notin hasty =>
  /\ pc[p] \in {"run.claimed", "revert.delete", "remove.write"}
       => schema[cur[p]] = "absent"
  /\ pc[p] \in {"run.finish", "mark.write"} => schema[cur[p]] = "present"

Ledger == \A id \in RowId \ hasty :
  /\ table.row[id] = NoRow => schema[id] = "absent"
  /\ table.row[id] # NoRow /\ table.row[id].state = "applied"
       => schema[id] = "present"

IInv == /\ TypeOK
        /\ Placed
        /\ Exclusive
        /\ Marked
        /\ Allowed
        /\ Reached
        /\ Ledger

-----------------------------------------------------------------------------
(* What the writes do to the rows, whatever the clock says. *)

LEMMA RowIsNotNoRow ==
  ASSUME NEW t \in Table, NEW i \in RowId, t.row[i] # NoRow
  PROVE  t.row[i] \in Row
BY DEF Table

LEMMA StampedTable ==
  ASSUME table \in Table, NEW id \in RowId, NEW r \in Row, NEW p,
         NEW later \in Later(p, id)
  PROVE  /\ Stamped(id, r, later) \in Table
         /\ Stamped(id, r, later).row = [table.row EXCEPT ![id] = r]
<1>1. later \subseteq RowId
  BY DEF Later, Recorded
<1>2. [table.row EXCEPT ![id] = r] \in [RowId -> Row \cup {NoRow}]
  BY DEF Table
<1>3. {o \in table.older : id \notin {o[1], o[2]}}
        \cup ((Recorded(table) \ (later \cup {id})) \X {id})
        \cup ({id} \X later) \in SUBSET (RowId \X RowId)
  BY <1>1 DEF Table, Recorded
<1> QED
  BY <1>2, <1>3 DEF Stamped, Table

LEMMA InsertEffect ==
  ASSUME table \in Table, NEW id \in RowId, NEW r \in Row, NEW p,
         InsertRecord(p, id, r)
  PROVE  /\ table.row[id] = NoRow
         /\ table' \in Table
         /\ table'.row = [table.row EXCEPT ![id] = r]
BY StampedTable DEF InsertRecord

LEMMA UpdateEffect ==
  ASSUME table \in Table, NEW id \in RowId, NEW p,
         NEW s \in {"started", "applied"}, table.row[id] # NoRow,
         UpdateState(p, id, s)
  PROVE  /\ table' \in Table
         /\ table'.row = [table.row EXCEPT ![id] = [table.row[id] EXCEPT !.state = s]]
         /\ [table.row[id] EXCEPT !.state = s] \in Row
         /\ [table.row[id] EXCEPT !.state = s].state = s
<1>1. table.row[id] \in Row
  BY RowIsNotNoRow
<1>2. [table.row[id] EXCEPT !.state = s] \in Row
  BY <1>1 DEF Row
<1>3. [table.row[id] EXCEPT !.state = s].state = s
  BY <1>1 DEF Row
<1> QED
  BY <1>2, <1>3, StampedTable DEF UpdateState

(* Also when there is no row, and nothing happens.                          *)
LEMMA UpdateRows ==
  ASSUME table \in Table, NEW id \in RowId, NEW p,
         NEW s \in {"started", "applied"}, UpdateState(p, id, s)
  PROVE  /\ table' \in Table
         /\ \A i \in RowId \ {id} : table'.row[i] = table.row[i]
         /\ table.row[id] # NoRow => /\ table'.row[id] \in Row
                                    /\ table'.row[id] # NoRow
                                    /\ table'.row[id].state = s
<1>1. CASE table.row[id] = NoRow
  BY <1>1 DEF UpdateState
<1>2. CASE table.row[id] # NoRow
  <2> DEFINE r == [table.row[id] EXCEPT !.state = s]
  <2>0. r \in Row /\ r.state = s
    BY <1>2, RowIsNotNoRow DEF Row
  <2>1. table' \in Table /\ table'.row = [table.row EXCEPT ![id] = r]
    BY <1>2, <2>0, StampedTable DEF UpdateState
  <2>2. table.row \in [RowId -> Row \cup {NoRow}] /\ r # NoRow
    BY <2>0, NoRowAssumption DEF Table
  <2> HIDE DEF r
  <2> QED
    BY <2>0, <2>1, <2>2
<1> QED
  BY <1>1, <1>2

LEMMA DeleteEffect ==
  ASSUME table \in Table, NEW id \in RowId, DeleteRecord(id)
  PROVE  /\ table' \in Table
         /\ table'.row = [table.row EXCEPT ![id] = NoRow]
BY DEF DeleteRecord, Table

(* The repair of a `started` row: nobody is at it, or it was done in haste. *)
LEMMA RepairEffect ==
  ASSUME NEW p \in Proc, NEW f, NEW state, NEW next, Repair(p, f, state, next)
  PROVE  /\ pc[p] = "idle"
         /\ pc' = [pc EXCEPT ![p] = next]
         /\ UNCHANGED <<table, input, seen, pos, faults>>
         /\ \E id \in RowId :
              /\ table.row[id] # NoRow
              /\ table.row[id].state = "started"
              /\ \/ (\A q \in Proc : ~At(q, id)) /\ hasty' = hasty
                 \/ hasty' = hasty \cup {id}
              /\ schema' = [schema EXCEPT ![id] = state]
              /\ cur' = [cur EXCEPT ![p] = id]
BY DEF Repair, Goto, Started, Recorded

LEMMA EmptyIsTable == Empty \in Table
BY DEF Empty, Table

LEMMA ClaimedRow ==
  ASSUME TypeOK, NEW p \in Proc, AtFile(p)
  PROVE  /\ Key(TheFile(p)) \in RowId
         /\ [name |-> TheFile(p).name, hash |-> TheFile(p).hash,
             state |-> "started"] \in Row
<1>0. <<>> \in Seq(File)
  OBVIOUS
<1>1. input[p] \in Seq(File)
  BY <1>0, InputsAssumption DEF TypeOK
<1>2. TheFile(p) \in File
  BY <1>1 DEF AtFile, TheFile
<1> QED
  BY <1>2, DeriveRowIdAssumption DEF Key, File, Row
-----------------------------------------------------------------------------
(* Every state is of the type: proved for any Proc, Reverter and Inputs.   *)

LEMMA TypeInit == Init => TypeOK
<1> SUFFICES ASSUME Init PROVE TypeOK
  OBVIOUS
<1>1. table \in Table
  BY InitRowsAssumption DEF Init
<1>2. faults \in 0..MaxFaults
  BY MaxFaultsAssumption DEF Init
<1> QED
  BY <1>1, <1>2, EmptyIsTable DEF Init, TypeOK, Label

(* Return(p) puts typed values in place of p's local ones. *)
LEMMA TypedReturn ==
  ASSUME TypeOK, NEW p \in Proc, Return(p)
  PROVE  /\ pc' \in [Proc -> Label]
         /\ input' \in [Proc -> Inputs \cup {<<>>}]
         /\ seen' \in [Proc -> Table]
         /\ pos' \in [Proc -> Nat]
         /\ cur' \in [Proc -> RowId \cup {NoRow}]
BY EmptyIsTable DEF TypeOK, Return, Goto, Label

(* A write works on a row id: the one its process was placed on. *)
LEMMA TypeStep == TypeOK /\ Placed /\ [Next]_vars => TypeOK'
<1> SUFFICES ASSUME TypeOK, Placed, [Next]_vars PROVE TypeOK'
  OBVIOUS
<1> USE DEF Label, RunLabel, RevertLabel, RepairLabel
<1>at. ASSUME NEW p \in Proc, pc[p] \in WorkLabel
       PROVE  cur[p] \in RowId
  BY <1>at DEF Placed, Working
<1>1. ASSUME NEW p \in Proc, NEW list \in Inputs, Run(p, list) PROVE TypeOK'
  BY <1>1 DEF Run, TypeOK, Goto
<1>2. ASSUME NEW p \in Proc, NEW list \in Inputs, Revert(p, list) PROVE TypeOK'
  BY <1>2 DEF Revert, TypeOK, Goto, Newest, Recorded
<1>3. ASSUME NEW p \in Proc, NEW f, NEW state \in {"absent", "present"},
             NEW next \in RepairLabel, Repair(p, f, state, next)
      PROVE  TypeOK'
  <2>1. PICK id \in RowId :
          /\ schema' = [schema EXCEPT ![id] = state]
          /\ cur' = [cur EXCEPT ![p] = id]
          /\ hasty' \in {hasty, hasty \cup {id}}
    BY <1>3, RepairEffect
  <2>2. /\ pc' = [pc EXCEPT ![p] = next]
        /\ UNCHANGED <<table, input, seen, pos, faults>>
    BY <1>3, RepairEffect
  <2>3. hasty' \subseteq RowId
    BY <2>1 DEF TypeOK
  <2>4. schema' \in [RowId -> {"absent", "partial", "present"}]
    <3>1. schema \in [RowId -> {"absent", "partial", "present"}]
      BY DEF TypeOK
    <3>2. schema' = [schema EXCEPT ![id] = state]
      BY <2>1
    <3> QED
      BY <3>1, <3>2
  <2>5. cur' \in [Proc -> RowId \cup {NoRow}]
    <3>1. cur \in [Proc -> RowId \cup {NoRow}]
      BY DEF TypeOK
    <3>2. cur' = [cur EXCEPT ![p] = id]
      BY <2>1
    <3> QED
      BY <3>1, <3>2
  <2>6. pc' \in [Proc -> Label]
    <3>1. pc \in [Proc -> Label] /\ next \in Label
      BY DEF TypeOK
    <3> HIDE DEF Label
    <3> QED
      BY <2>2, <3>1
  <2> HIDE DEF Label
  <2> QED
    BY <2>2, <2>3, <2>4, <2>5, <2>6 DEF TypeOK
<1>4. ASSUME NEW p \in Proc, SkipMatched(p) PROVE TypeOK'
  BY <1>4 DEF SkipMatched, TypeOK
<1>5. ASSUME NEW p \in Proc, RefuseChanged(p) \/ LoseClaim(p) \/ RunDone(p)
      PROVE  TypeOK'
  BY <1>5, TypedReturn DEF RefuseChanged, LoseClaim, RunDone, TypeOK
<1>6. ASSUME NEW p \in Proc, Claim(p) PROVE TypeOK'
  <2>1. /\ Key(TheFile(p)) \in RowId
        /\ table' \in Table
    BY <1>6, ClaimedRow, InsertEffect DEF Claim, TypeOK
  <2> QED
    BY <1>6, <2>1 DEF Claim, TypeOK, Goto
<1>7. ASSUME NEW p \in Proc, UpBegin(p) \/ UpEnd(p) \/ DownBegin(p) \/ DownEnd(p)
      PROVE  TypeOK'
  BY <1>7 DEF UpBegin, UpEnd, DownBegin, DownEnd, TypeOK, Goto
<1>8. ASSUME NEW p \in Proc, FinishRecord(p) PROVE TypeOK'
  <2>1. table' \in Table
    BY <1>8, <1>at, UpdateRows DEF FinishRecord, TypeOK, WorkLabel, ClaimLabel
  <2> QED
    BY <1>8, <2>1 DEF FinishRecord, TypeOK, Goto
<1>9. ASSUME NEW p \in Proc, StartRecord(p) PROVE TypeOK'
  <2>1. table' \in Table
    BY <1>9, <1>at, UpdateRows DEF StartRecord, TypeOK, WorkLabel
  <2> QED
    BY <1>9, <2>1 DEF StartRecord, TypeOK, Goto
<1>10. ASSUME NEW p \in Proc, RevertDone(p) \/ RemoveWrite(p) PROVE TypeOK'
  <2>1. table' \in Table
    BY <1>10, <1>at, DeleteEffect DEF RevertDone, RemoveWrite, TypeOK, WorkLabel
  <2> QED
    BY <1>10, <2>1, TypedReturn DEF RevertDone, RemoveWrite, TypeOK
<1>11. ASSUME NEW p \in Proc, MarkWrite(p) PROVE TypeOK'
  <2>1. table' \in Table
    BY <1>11, <1>at, UpdateRows DEF MarkWrite, TypeOK, WorkLabel
  <2> QED
    BY <1>11, <2>1, TypedReturn DEF MarkWrite, TypeOK
<1>12. ASSUME NEW p \in Proc, Abort(p) PROVE TypeOK'
  <2>1. faults' \in 0..MaxFaults
    BY <1>12, MaxFaultsAssumption DEF Abort, TypeOK
  <2> QED
    BY <1>12, <2>1, TypedReturn DEF Abort, TypeOK
<1>13. CASE UNCHANGED vars
  BY <1>13 DEF vars, TypeOK
<1> QED
  BY <1>1, <1>2, <1>3, <1>4, <1>5, <1>6, <1>7, <1>8, <1>9, <1>10, <1>11,
     <1>12, <1>13
  DEF Next, Call, Resolve, Step, MarkMigrationApplied, RemoveMigrationRecord

-----------------------------------------------------------------------------
(* The inductive step of the rest, under SerialReverts. *)

Parts == Placed /\ Exclusive /\ Marked /\ Allowed /\ Reached /\ Ledger

LEMMA InitParts == Init => Parts
<1> SUFFICES ASSUME Init PROVE Parts
  OBVIOUS
<1>1. \A p \in Proc : pc[p] = "idle" /\ cur[p] = NoRow
  BY DEF Init
<1>2. \A id \in RowId : table.row[id] # NoRow => table.row[id].state # "started"
  BY InitRowsAssumption DEF Init, Started, Recorded
<1>3. \A id \in RowId :
        schema[id] = IF table.row[id] = NoRow THEN "absent" ELSE "present"
  BY DEF Init
<1> QED
  BY <1>1, <1>3
  DEF Parts, Placed, Exclusive, Marked, Allowed, Reached, Ledger, Working,
      WorkLabel, ClaimLabel, RunLabel, RevertLabel, RepairLabel

LEMMA PartsStep == IInv /\ SerialReverts /\ [Next]_vars => Parts'
<1> SUFFICES ASSUME IInv, SerialReverts, [Next]_vars PROVE Parts'
  OBVIOUS
<1> USE DEF Label, RunLabel, RevertLabel, RepairLabel, WorkLabel, ClaimLabel,
            Working
<1>ty. /\ pc \in [Proc -> Label]
       /\ cur \in [Proc -> RowId \cup {NoRow}]
       /\ schema \in [RowId -> {"absent", "partial", "present"}]
       /\ table \in Table
       /\ table.row \in [RowId -> Row \cup {NoRow}]
       /\ TypeOK
  BY DEF IInv, TypeOK, Table
<1>nr. NoRow \notin RowId /\ NoRow \notin Row
  BY NoRowAssumption
<1>0. Placed /\ Exclusive /\ Marked /\ Allowed /\ Reached /\ Ledger
  BY DEF IInv
<1>1. ASSUME NEW p \in Proc, NEW list \in Inputs, Run(p, list) PROVE Parts'
  BY <1>1, <1>ty, <1>0
  DEF Run, Goto, Parts, Placed, Exclusive, Marked, Allowed, Reached, Ledger
<1>2. ASSUME NEW p \in Proc, NEW list \in Inputs, Revert(p, list) PROVE Parts'
  <2>1. PICK id \in RowId : /\ table.row[id] # NoRow
                            /\ table.row[id].state # "started"
                            /\ cur' = [cur EXCEPT ![p] = id]
    BY <1>2 DEF Revert, Newest, Recorded, Started
  <2>2. table.row[id].state = "applied"
    BY <2>1, <1>ty DEF Row
  <2>3. /\ pc[p] = "idle" /\ p \in Reverter
        /\ pc' = [pc EXCEPT ![p] = "revert.mark"]
        /\ UNCHANGED <<table, schema, hasty>>
    BY <1>2 DEF Revert, Goto
  <2>4. \A q \in Proc : Working(q) /\ id \notin hasty => cur[q] # id
    <3> SUFFICES ASSUME NEW q \in Proc, Working(q), id \notin hasty, cur[q] = id PROVE FALSE
      OBVIOUS
    <3>1. pc[q] = "revert.mark"
      BY <2>2, <1>0 DEF Marked
    <3> QED
      BY <3>1, <2>3, <1>0 DEF Allowed, SerialReverts
  <2> QED
    BY <2>1, <2>2, <2>3, <2>4, <1>ty, <1>0
    DEF Parts, Placed, Exclusive, Marked, Allowed, Reached, Ledger
<1>3. ASSUME NEW p \in Proc, NEW f, NEW state, NEW next,
             Repair(p, f, state, next),
             \/ state = "present" /\ next = "mark.write"
             \/ state = "absent" /\ next = "remove.write"
      PROVE  Parts'
  <2>1. PICK id \in RowId : /\ table.row[id] # NoRow
                            /\ table.row[id].state = "started"
                            /\ \/ (\A q \in Proc : ~At(q, id)) /\ hasty' = hasty
                               \/ hasty' = hasty \cup {id}
                            /\ schema' = [schema EXCEPT ![id] = state]
                            /\ cur' = [cur EXCEPT ![p] = id]
    BY <1>3, RepairEffect
  <2>2. /\ pc[p] = "idle"
        /\ pc' = [pc EXCEPT ![p] = next]
        /\ table' = table
    BY <1>3, RepairEffect
  <2>3. id \notin hasty' => \A q \in Proc : Working(q) => cur[q] # id
    BY <2>1, <1>ty DEF At
  <2>4. hasty \subseteq hasty'
    BY <2>1
  <2>5. /\ ~Working(p) /\ Working(p)' /\ cur'[p] = id /\ pc'[p] = next
        /\ \A q \in Proc \ {p} : pc'[q] = pc[q] /\ cur'[q] = cur[q]
    BY <2>1, <2>2, <1>3, <1>ty
  <2>6. \A q \in Proc \ {p} : Working(q)' <=> Working(q)
    BY <2>5
  <2>7. \A i \in RowId : /\ i # id => schema'[i] = schema[i]
                        /\ schema'[id] = state
    BY <2>1, <1>ty
  <2> HIDE DEF Working
  <2>8. Placed'
    BY <2>5, <2>6, <1>0 DEF Placed
  <2>9. Exclusive'
    BY <2>3, <2>4, <2>5, <2>6, <1>0 DEF Exclusive
  <2>10. Marked'
    BY <2>1, <2>2, <2>4, <2>5, <2>6, <1>3, <1>0 DEF Marked
  <2>11. Allowed'
    BY <2>5, <1>3, <1>0 DEF Allowed
  <2>12. Reached'
    <3> SUFFICES ASSUME NEW q \in Proc, cur'[q] \notin hasty'
                 PROVE  /\ pc'[q] \in {"run.claimed", "revert.delete", "remove.write"}
                              => schema'[cur'[q]] = "absent"
                        /\ pc'[q] \in {"run.finish", "mark.write"} => schema'[cur'[q]] = "present"
      BY DEF Reached
    <3>1. CASE q = p
      BY <3>1, <2>5, <2>7, <1>3
    <3>2. CASE q # p
      <4>1. pc'[q] = pc[q] /\ cur'[q] = cur[q] /\ cur[q] \notin hasty
        BY <3>2, <2>4, <2>5
      <4>2. Working(q) => cur[q] \in RowId /\ cur[q] # id
        BY <4>1, <2>3, <1>0 DEF Placed
      <4>3. pc[q] \in {"run.claimed", "revert.delete", "remove.write", "run.finish", "mark.write"} => Working(q)
        BY DEF Working
      <4> QED
        BY <4>1, <4>2, <4>3, <2>7, <1>0 DEF Reached
    <3> QED
      BY <3>1, <3>2
  <2>13. Ledger'
    BY <2>1, <2>2, <2>4, <2>7, <1>0 DEF Ledger
  <2> QED
    BY <2>8, <2>9, <2>10, <2>11, <2>12, <2>13 DEF Parts
<1>4. ASSUME NEW p \in Proc, SkipMatched(p) PROVE Parts'
  BY <1>4, <1>0
  DEF SkipMatched, Parts, Placed, Exclusive, Marked, Allowed, Reached, Ledger
<1>5. ASSUME NEW p \in Proc, Return(p), UNCHANGED <<table, schema, hasty>> PROVE Parts'
  BY <1>5, <1>ty, <1>0
  DEF Return, Goto, Parts, Placed, Exclusive, Marked, Allowed, Reached, Ledger
<1>6. ASSUME NEW p \in Proc, Claim(p) PROVE Parts'
  <2> DEFINE id == Key(TheFile(p))
             r  == [name |-> TheFile(p).name, hash |-> TheFile(p).hash,
                    state |-> "started"]
  <2>1. id \in RowId /\ r \in Row /\ r.state = "started" /\ AtFile(p)
    BY <1>6, <1>ty, ClaimedRow DEF Claim
  <2>2. table.row[id] = NoRow /\ table'.row = [table.row EXCEPT ![id] = r]
    BY <1>6, <2>1, <1>ty, InsertEffect DEF Claim
  <2>3. /\ pc[p] = "run.next"
        /\ pc' = [pc EXCEPT ![p] = "run.claimed"]
        /\ cur' = [cur EXCEPT ![p] = id]
        /\ schema' = schema /\ hasty' = hasty
    BY <1>6 DEF Claim, AtFile, Goto
  <2>4. \A q \in Proc : Working(q) /\ id \notin hasty => cur[q] # id
    BY <2>2, <1>0 DEF Marked
  <2> HIDE DEF id, r
  <2> QED
    BY <2>1, <2>2, <2>3, <2>4, <1>ty, <1>nr, <1>0
    DEF Parts, Placed, Exclusive, Marked, Allowed, Reached, Ledger
<1>7. ASSUME NEW p \in Proc, UpBegin(p) \/ UpEnd(p) \/ DownBegin(p) \/ DownEnd(p)
      PROVE  Parts'
  BY <1>7, <1>ty, <1>0
  DEF UpBegin, UpEnd, DownBegin, DownEnd, Goto,
      Parts, Placed, Exclusive, Marked, Allowed, Reached, Ledger
<1>at. ASSUME NEW p \in Proc, Working(p)
       PROVE  cur[p] \in RowId /\ (cur[p] \notin hasty => table.row[cur[p]] # NoRow)
  BY <1>at, <1>0 DEF Placed, Marked
<1>8. ASSUME NEW p \in Proc, FinishRecord(p) \/ MarkWrite(p) PROVE Parts'
  <2>0. Working(p)
    BY <1>8 DEF FinishRecord, MarkWrite
  <2>1. /\ \A i \in RowId \ {cur[p]} : table'.row[i] = table.row[i]
        /\ cur[p] \notin hasty => /\ table'.row[cur[p]] # NoRow
                                 /\ table'.row[cur[p]].state = "applied"
    BY <2>0, <1>8, <1>at, <1>ty, UpdateRows DEF FinishRecord, MarkWrite
  <2>2. /\ pc[p] \in {"run.finish", "mark.write"}
        /\ \/ pc' = [pc EXCEPT ![p] = "run.next"]
           \/ pc' = [pc EXCEPT ![p] = "idle"]
        /\ cur' = [cur EXCEPT ![p] = NoRow]
        /\ UNCHANGED <<schema, hasty>>
    BY <1>8 DEF FinishRecord, MarkWrite, Goto, Return
  <2> QED
    BY <2>1, <2>2, <1>at, <1>ty, <1>nr, <1>0
    DEF Parts, Placed, Exclusive, Marked, Allowed, Reached, Ledger
<1>9. ASSUME NEW p \in Proc, StartRecord(p) PROVE Parts'
  <2>0. Working(p)
    BY <1>9 DEF StartRecord
  <2>1. /\ \A i \in RowId \ {cur[p]} : table'.row[i] = table.row[i]
        /\ cur[p] \notin hasty => /\ table'.row[cur[p]] # NoRow
                                 /\ table'.row[cur[p]].state = "started"
    BY <2>0, <1>9, <1>at, <1>ty, UpdateRows DEF StartRecord
  <2>2. /\ pc[p] = "revert.mark"
        /\ pc' = [pc EXCEPT ![p] = "revert.marked"]
        /\ UNCHANGED <<cur, schema, hasty>>
    BY <1>9 DEF StartRecord, Goto
  <2> QED
    BY <2>1, <2>2, <1>at, <1>ty, <1>nr, <1>0
    DEF Parts, Placed, Exclusive, Marked, Allowed, Reached, Ledger
<1>10. ASSUME NEW p \in Proc, RevertDone(p) \/ RemoveWrite(p) PROVE Parts'
  <2>1. table'.row = [table.row EXCEPT ![cur[p]] = NoRow]
    BY <1>10, <1>at, <1>ty, DeleteEffect DEF RevertDone, RemoveWrite
  <2>2. /\ pc[p] \in {"revert.delete", "remove.write"}
        /\ pc' = [pc EXCEPT ![p] = "idle"]
        /\ cur' = [cur EXCEPT ![p] = NoRow]
        /\ UNCHANGED <<schema, hasty>>
    BY <1>10 DEF RevertDone, RemoveWrite, Goto, Return
  <2> QED
    BY <2>1, <2>2, <1>at, <1>ty, <1>nr, <1>0
    DEF Parts, Placed, Exclusive, Marked, Allowed, Reached, Ledger
<1>11. CASE UNCHANGED vars
  BY <1>11, <1>0
  DEF vars, Parts, Placed, Exclusive, Marked, Allowed, Reached, Ledger
<1>12. ASSUME NEW p \in Proc, Call(p) \/ Resolve(p) PROVE Parts'
  BY <1>12, <1>1, <1>2, <1>3
  DEF Call, Resolve, MarkMigrationApplied, RemoveMigrationRecord
<1>13. ASSUME NEW p \in Proc, Step(p) \/ Abort(p) PROVE Parts'
  BY <1>13, <1>4, <1>5, <1>6, <1>7, <1>8, <1>9, <1>10
  DEF Step, Abort, RefuseChanged, LoseClaim, RunDone
<1> QED
  BY <1>11, <1>12, <1>13 DEF Next

-----------------------------------------------------------------------------
(* The theorems. *)

LEMMA Inductive == ASSUME SerialReverts PROVE Spec => []IInv
<1>1. Init => IInv
  BY TypeInit, InitParts DEF IInv, Parts
<1>2. IInv /\ [Next]_vars => IInv'
  BY TypeStep, PartsStep DEF IInv, Parts
<1> QED
  BY <1>1, <1>2, PTL DEF Spec

(* TypeOK: the state stays in its type. *)
THEOREM TypeCorrect == ASSUME SerialReverts PROVE Spec => []TypeOK
<1>1. IInv => TypeOK
  BY DEF IInv
<1> QED
  BY <1>1, Inductive, PTL

LEMMA AppliesIsWorking ==
  ASSUME IInv, NEW p \in Proc, NEW id \in RowId, Applies(p, id) \/ Reverts(p, id)
  PROVE  /\ Working(p) /\ cur[p] = id
         /\ pc[p] # "revert.mark"
<1>1. pc[p] # "run.next"
  BY NoRowAssumption
  DEF IInv, Placed, Applies, Reverts, At, Working, WorkLabel, ClaimLabel,
      RunLabel, RevertLabel, RepairLabel
<1> QED
  BY <1>1 DEF Applies, Reverts, At, Working, WorkLabel, ClaimLabel,
              RunLabel, RevertLabel, RepairLabel

(* The PRIMARY KEY keeps every migration in one pair of hands.  *)
THEOREM OneApplier ==
  ASSUME SerialReverts PROVE Spec => []NoDoubleApplication
<1>1. IInv => NoDoubleApplication
  <2> SUFFICES ASSUME IInv, NEW id \in RowId \ hasty, NEW p \in Proc, NEW q \in Proc,
                      Applies(p, id), Applies(q, id)
               PROVE  p = q
    BY DEF NoDoubleApplication
  <2> QED
    BY AppliesIsWorking DEF IInv, Exclusive
<1> QED
  BY <1>1, Inductive, PTL

(* The table is truthful: no row, no change; `applied`, the whole change. *)
THEOREM TruthfulLedger == ASSUME SerialReverts PROVE Spec => []LedgerTruthful
<1>1. IInv => LedgerTruthful
  <2> SUFFICES ASSUME IInv, NEW id \in RowId \ hasty
               PROVE  /\ table.row[id] = NoRow => schema[id] = "absent"
                      /\ id \in Recorded(table) \ Started(table)
                           => schema[id] = "present"
    BY DEF LedgerTruthful
  <2>1. table.row[id] # NoRow => table.row[id].state \in {"started", "applied"}
    BY DEF IInv, TypeOK, Table, Row
  <2> QED
    BY <2>1 DEF IInv, Ledger, Recorded, Started
<1> QED
  BY <1>1, Inductive, PTL

(* up() and down() work under a `started` row only. *)
THEOREM MarkerSeen == ASSUME SerialReverts PROVE Spec => []MarkerWhileWorking
<1>1. IInv => MarkerWhileWorking
  <2> SUFFICES ASSUME IInv, NEW p \in Proc, NEW id \in RowId \ hasty,
                      Applies(p, id) \/ Reverts(p, id)
               PROVE  id \in Started(table)
    BY DEF MarkerWhileWorking
  <2> QED
    BY AppliesIsWorking DEF IInv, Marked, Started, Recorded
<1> QED
  BY <1>1, Inductive, PTL

(* up() never meets a database that holds part of its change. *)
THEOREM FreshStart == ASSUME SerialReverts PROVE Spec => []NoBlindRerun
<1>1. IInv => NoBlindRerun
  BY DEF IInv, Reached, NoBlindRerun
<1> QED
  BY <1>1, Inductive, PTL

(* So a death at any point leaves a row that says so, and nothing starts on *)
(* what it left.                                                           *)
THEOREM SafeCrash == ASSUME SerialReverts PROVE Spec => []CrashSafe
<1>1. MarkerWhileWorking /\ NoBlindRerun => CrashSafe
  BY DEF CrashSafe
<1> QED
  BY <1>1, MarkerSeen, FreshStart, PTL

-----------------------------------------------------------------------------
(* The refinement: every step moves at most one migration, along the life   *)
(* MigrationLifecycle allows it.                                           *)

Phase(l) == IF l \in ClaimLabel THEN "applying"
            ELSE IF l = "revert.mark" THEN "applied"
            ELSE IF l \in RevertLabel THEN "reverting"
            ELSE "interrupted"

Settled(r) == IF r = NoRow THEN "absent"
              ELSE IF r.state = "applied" THEN "applied"
              ELSE "interrupted"

Life == [id \in RowId |-> LifeOf(id)]

Held(id) == \E p \in Proc : Working(p) /\ cur[p] = id

LEMMA LifeHeld ==
  IInv => \A p \in Proc : Working(p) /\ cur[p] \notin hasty => Life[cur[p]] = Phase(pc[p])
<1> SUFFICES ASSUME IInv, NEW p \in Proc, Working(p), cur[p] \notin hasty
             PROVE  Life[cur[p]] = Phase(pc[p])
  OBVIOUS
<1> USE DEF Working, WorkLabel, ClaimLabel, RunLabel, RevertLabel, RepairLabel
<1>1. cur[p] \in RowId
  BY DEF IInv, Placed
<1>2. \A q \in Proc : Applies(q, cur[p]) \/ Reverts(q, cur[p]) => q = p
  BY <1>1, AppliesIsWorking DEF IInv, Exclusive
<1>3. Applies(p, cur[p]) <=> pc[p] \in ClaimLabel
  BY DEF Applies, At
<1>4. Reverts(p, cur[p]) <=> pc[p] \in RevertLabel \ {"revert.mark"}
  BY DEF Reverts, At
<1>5. /\ table.row[cur[p]] # NoRow
      /\ table.row[cur[p]].state =
           IF pc[p] = "revert.mark" THEN "applied" ELSE "started"
  BY DEF IInv, Marked
<1>6. /\ (\E q \in Proc : Applies(q, cur[p])) <=> pc[p] \in ClaimLabel
      /\ (\E q \in Proc : Reverts(q, cur[p]))
           <=> pc[p] \in RevertLabel \ {"revert.mark"}
  BY <1>2, <1>3, <1>4
<1> QED
  BY <1>1, <1>5, <1>6 DEF Life, LifeOf, Phase

LEMMA LifeFree ==
  IInv => \A id \in RowId \ hasty : ~Held(id) => Life[id] = Settled(table.row[id])
<1> SUFFICES ASSUME IInv, NEW id \in RowId \ hasty, ~Held(id)
             PROVE  Life[id] = Settled(table.row[id])
  OBVIOUS
<1>1. \A p \in Proc : ~Applies(p, id) /\ ~Reverts(p, id)
  BY AppliesIsWorking DEF Held
<1> QED
  BY <1>1 DEF Life, LifeOf, Settled

LifeKnown ==
  /\ \A p \in Proc : Working(p) /\ cur[p] \notin hasty => Life[cur[p]] = Phase(pc[p])
  /\ \A id \in RowId \ hasty : ~Held(id) => Life[id] = Settled(table.row[id])

LEMMA LifePrimed == IInv' => LifeKnown'
<1>1. IInv => LifeKnown
  BY LifeHeld, LifeFree DEF LifeKnown
<1> QED
  BY <1>1, PTL

(* One migration moves, the others keep their life. *)
LEMMA LifeMoves ==
  ASSUME NEW id \in RowId, NEW from, NEW to,
         \A j \in RowId \ {id} : Life'[j] = Life[j],
         Life[id] = from, Life'[id] = to
  PROVE  Lifecycle!Move(id, from, to)
<1>1. Life' = [Life EXCEPT ![id] = to]
  BY DEF Life
<1> QED
  BY <1>1 DEF Lifecycle!Move, Life

LEMMA LifeFrame ==
  ASSUME NEW id \in RowId, NEW p \in Proc,
         pc \in [Proc -> Label], cur \in [Proc -> RowId \cup {NoRow}],
         pc' \in [Proc -> Label], cur' \in [Proc -> RowId \cup {NoRow}],
         \A q \in Proc \ {p} : pc'[q] = pc[q] /\ cur'[q] = cur[q],
         cur[p] \in {id, NoRow}, cur'[p] \in {id, NoRow},
         \A j \in RowId \ {id} : table'.row[j] = table.row[j],
         \A j \in RowId \ {id} : j \in hasty' <=> j \in hasty
  PROVE  \A j \in RowId \ {id} : Life'[j] = Life[j]
<1> SUFFICES ASSUME NEW j \in RowId, j # id PROVE Life'[j] = Life[j]
  OBVIOUS
<1>1. \A q \in Proc : /\ Applies(q, j)' <=> Applies(q, j)
                      /\ Reverts(q, j)' <=> Reverts(q, j)
  BY NoRowAssumption DEF Applies, Reverts, At
<1>2. /\ (\E q \in Proc : Applies(q, j)') <=> (\E q \in Proc : Applies(q, j))
      /\ (\E q \in Proc : Reverts(q, j)') <=> (\E q \in Proc : Reverts(q, j))
  BY <1>1
<1> QED
  BY <1>2 DEF Life, LifeOf

(* The step of a process p at row id, seen from the abstract specification. *)
LEMMA LifeStep ==
  ASSUME IInv, SerialReverts, [Next]_vars
  PROVE  [Lifecycle!Next]_Life
<1> USE DEF Label, RunLabel, RevertLabel, RepairLabel, WorkLabel, ClaimLabel
<1> DEFINE Same == Life' = Life
           Goal == [Lifecycle!Next]_Life
<1>ty. /\ pc \in [Proc -> Label] /\ cur \in [Proc -> RowId \cup {NoRow}]
       /\ pc' \in [Proc -> Label] /\ cur' \in [Proc -> RowId \cup {NoRow}]
       /\ table.row \in [RowId -> Row \cup {NoRow}]
       /\ TypeOK
  BY TypeStep DEF IInv, TypeOK, Table
<1>inv. IInv'
  BY TypeStep, PartsStep DEF IInv, Parts
<1>now. LifeKnown
  BY LifeHeld, LifeFree DEF LifeKnown
<1>new. LifeKnown'
  BY <1>inv, LifePrimed
<1>same. Same => Goal
  OBVIOUS
<1>pl. /\ \A p \in Proc : IF Working(p) THEN cur[p] \in RowId ELSE cur[p] = NoRow
       /\ \A p, q \in Proc :
            Working(p) /\ Working(q) /\ cur[p] = cur[q] /\ cur[p] \notin hasty => p = q
       /\ NoRow \notin RowId
  BY NoRowAssumption DEF IInv, Placed, Exclusive
<1>pl1. /\ \A p \in Proc : IF Working(p)' THEN cur'[p] \in RowId ELSE cur'[p] = NoRow
  BY <1>inv DEF IInv, Placed
<1> HIDE DEF Goal, Same
<1>1. ASSUME NEW p \in Proc, ~Working(p), ~Working(p)', table' = table, hasty' = hasty,
             \A q \in Proc \ {p} : pc'[q] = pc[q] /\ cur'[q] = cur[q]
      PROVE  Goal
  <2>0. cur[p] = NoRow /\ cur'[p] = NoRow
    BY <1>1, <1>pl, <1>pl1
  <2>2. \A j \in RowId : LifeOf(j)' = LifeOf(j)
    <3> SUFFICES ASSUME NEW j \in RowId PROVE LifeOf(j)' = LifeOf(j)
      OBVIOUS
    <3>1. \A q \in Proc : /\ Applies(q, j)' <=> Applies(q, j)
                          /\ Reverts(q, j)' <=> Reverts(q, j)
      BY <1>1, <2>0, <1>pl DEF Applies, Reverts, At
    <3>2. /\ (\E q \in Proc : Applies(q, j)') <=> (\E q \in Proc : Applies(q, j))
          /\ (\E q \in Proc : Reverts(q, j)') <=> (\E q \in Proc : Reverts(q, j))
      BY <3>1
    <3> QED
      BY <3>2, <1>1 DEF LifeOf
  <2>3. Same
    BY <2>2 DEF Life, Same
  <2> QED
    BY <2>3, <1>same
<1>2. ASSUME NEW p \in Proc, NEW id \in RowId, NEW from, NEW to,
             \A q \in Proc \ {p} : pc'[q] = pc[q] /\ cur'[q] = cur[q],
             cur[p] \in {id, NoRow}, cur'[p] \in {id, NoRow},
             \A j \in RowId \ {id} : table'.row[j] = table.row[j],
             hasty' = hasty \/ hasty' = hasty \cup {id},
             Life[id] = from, Life'[id] = to,
             \/ from = to
             \/ from = "absent" /\ to = "applying"
             \/ from = "applying" /\ to \in {"applied", "interrupted"}
             \/ from = "applied" /\ to = "reverting"
             \/ from = "reverting" /\ to \in {"absent", "interrupted"}
             \/ from = "interrupted" /\ to \in {"applied", "absent"}
             \/ from \in {"applying", "reverting", "interrupted"} /\ to = "forfeit"
      PROVE  Goal
  <2>1. \A j \in RowId \ {id} : Life'[j] = Life[j]
    BY <1>2, <1>ty, LifeFrame
  <2>2. CASE from = to
    <3>1. Life'[id] = Life[id]
      BY <2>2, <1>2
    <3>2. Same
      BY <2>1, <3>1 DEF Same, Life
    <3> QED
      BY <3>2, <1>same
  <2>3. CASE from # to
    <3>1. Lifecycle!Move(id, from, to)
      BY <1>2, <2>1, LifeMoves
    <3> QED
      BY <3>1, <2>3, <1>2
      DEF Goal, Lifecycle!Next, Lifecycle!Start, Lifecycle!Complete,
          Lifecycle!Undo, Lifecycle!Undone, Lifecycle!Interrupt, Lifecycle!Decide, Lifecycle!Meddle
  <2> QED
    BY <2>2, <2>3
<1>held. /\ \A p \in Proc : Working(p) /\ cur[p] \notin hasty => Life[cur[p]] = Phase(pc[p])
         /\ \A p \in Proc : Working(p)' /\ cur'[p] \notin hasty'
              => Life'[cur'[p]] = Phase(pc'[p])
  BY <1>now, <1>new DEF LifeKnown, Phase, Working
<1>free. /\ \A id \in RowId \ hasty : ~Held(id) => Life[id] = Settled(table.row[id])
         /\ \A id \in RowId \ hasty' : ~Held(id)' => Life'[id] = Settled(table'.row[id])
  BY <1>now, <1>new DEF LifeKnown
<1>lost. /\ \A id \in RowId : id \in hasty => Life[id] = "forfeit"
         /\ \A id \in RowId : id \in hasty' => Life'[id] = "forfeit"
  BY DEF Life, LifeOf
<1>still. ASSUME NEW p \in Proc, NEW id \in RowId,
                 \A q \in Proc \ {p} : pc'[q] = pc[q] /\ cur'[q] = cur[q],
                 cur[p] \in {id, NoRow}, cur'[p] \in {id, NoRow},
                 \A j \in RowId \ {id} : table'.row[j] = table.row[j],
                 id \in hasty, hasty' = hasty
          PROVE  Goal
  BY <1>still, <1>lost, <1>2
<1>left. ASSUME NEW p \in Proc, Working(p), cur'[p] = NoRow,
                cur[p] \notin hasty, hasty' = hasty,
                \A q \in Proc \ {p} : pc'[q] = pc[q] /\ cur'[q] = cur[q]
         PROVE  Life'[cur[p]] = Settled(table'.row[cur[p]])
  <2>1. \A q \in Proc : ~(Working(q)' /\ cur'[q] = cur[p])
    BY <1>left, <1>pl DEF Working
  <2>2. cur[p] \in RowId
    BY <1>left, <1>pl
  <2> QED
    BY <1>left, <2>1, <2>2, <1>free DEF Held
<1>3. ASSUME NEW p \in Proc, NEW list \in Inputs, Revert(p, list) PROVE Goal
  <2>1. PICK id \in RowId : /\ table.row[id] # NoRow
                            /\ table.row[id].state # "started"
                            /\ cur' = [cur EXCEPT ![p] = id]
    BY <1>3 DEF Revert, Newest, Recorded, Started
  <2>2. /\ pc[p] = "idle" /\ p \in Reverter
        /\ pc' = [pc EXCEPT ![p] = "revert.mark"]
        /\ table' = table /\ hasty' = hasty
    BY <1>3 DEF Revert, Goto
  <2>3. table.row[id].state = "applied"
    BY <2>1, <1>ty DEF Row
  <2>at. /\ cur[p] = NoRow /\ cur'[p] = id
         /\ \A q \in Proc \ {p} : pc'[q] = pc[q] /\ cur'[q] = cur[q]
    BY <2>1, <2>2, <1>ty, <1>pl DEF Working
  <2>h. CASE id \in hasty
    BY <2>h, <2>2, <2>at, <1>still
  <2>n. CASE id \notin hasty
    <3>4. ~Held(id)
      BY <2>n, <2>2, <2>3, <1>ty DEF IInv, Marked, Allowed, SerialReverts, Held, Working
    <3>5. Life[id] = "applied"
      BY <2>n, <2>1, <2>3, <3>4, <1>free DEF Settled
    <3>6. Life'[id] = "applied"
      BY <2>n, <2>at, <2>2, <1>ty, <1>held DEF Phase, Working
    <3> QED
      BY <2>2, <2>at, <3>5, <3>6, <1>2
  <2> QED
    BY <2>h, <2>n
<1>4. ASSUME NEW p \in Proc, NEW f, NEW state, NEW next \in RepairLabel,
             Repair(p, f, state, next)
      PROVE  Goal
  <2>1. PICK id \in RowId : /\ table.row[id] # NoRow
                            /\ table.row[id].state = "started"
                            /\ \/ (\A q \in Proc : ~At(q, id)) /\ hasty' = hasty
                               \/ hasty' = hasty \cup {id}
                            /\ cur' = [cur EXCEPT ![p] = id]
    BY <1>4, RepairEffect
  <2>2. /\ pc[p] = "idle"
        /\ pc' = [pc EXCEPT ![p] = next]
        /\ table' = table
    BY <1>4, RepairEffect
  <2>at. /\ cur[p] = NoRow /\ cur'[p] = id /\ pc'[p] = next
         /\ \A q \in Proc \ {p} : pc'[q] = pc[q] /\ cur'[q] = cur[q]
    BY <2>1, <2>2, <1>ty, <1>pl DEF Working
  <2>h. CASE id \in hasty
    <3>1. hasty' = hasty
      BY <2>h, <2>1
    <3> QED
      BY <2>h, <2>2, <2>at, <3>1, <1>still
  <2>n. CASE id \notin hasty /\ hasty' = hasty
    <3>3. ~Held(id)
      BY <2>n, <2>1 DEF At, Held, Working
    <3>4. Life[id] = "interrupted"
      BY <2>n, <2>1, <3>3, <1>free DEF Settled
    <3>5. Life'[id] = "interrupted"
      BY <2>n, <2>at, <1>held DEF Phase, Working
    <3> QED
      BY <2>n, <2>2, <2>at, <3>4, <3>5, <1>2
  <2>m. CASE id \notin hasty /\ hasty' = hasty \cup {id}
    <3>4. Life[id] \in {"applying", "reverting", "interrupted"}
      BY <2>m, <2>1 DEF Life, LifeOf
    <3>5. Life'[id] = "forfeit"
      BY <2>m, <1>lost
    <3> QED
      BY <2>m, <2>2, <2>at, <3>4, <3>5, <1>2
  <2> QED
    BY <2>1, <2>h, <2>n, <2>m
<1>5. ASSUME NEW p \in Proc, Claim(p) PROVE Goal
  <2> DEFINE id == Key(TheFile(p))
             r  == [name |-> TheFile(p).name, hash |-> TheFile(p).hash,
                    state |-> "started"]
  <2>1. id \in RowId /\ r \in Row
    BY <1>5, <1>ty, ClaimedRow DEF Claim
  <2>2. table.row[id] = NoRow /\ table'.row = [table.row EXCEPT ![id] = r]
    BY <1>5, <2>1, <1>ty, InsertEffect DEF Claim, TypeOK
  <2>3. /\ pc[p] = "run.next"
        /\ pc' = [pc EXCEPT ![p] = "run.claimed"]
        /\ cur' = [cur EXCEPT ![p] = id]
        /\ hasty' = hasty
    BY <1>5 DEF Claim, AtFile, Goto
  <2> HIDE DEF id, r
  <2>at. /\ cur[p] = NoRow /\ cur'[p] = id /\ pc'[p] = "run.claimed"
         /\ \A q \in Proc \ {p} : pc'[q] = pc[q] /\ cur'[q] = cur[q]
         /\ \A j \in RowId \ {id} : table'.row[j] = table.row[j]
    BY <2>2, <2>3, <1>ty, <1>pl DEF Working
  <2>h. CASE id \in hasty
    BY <2>h, <2>1, <2>3, <2>at, <1>still
  <2>n. CASE id \notin hasty
    <3>4. ~Held(id)
      BY <2>n, <2>2 DEF IInv, Marked, Held
    <3>5. Life[id] = "absent"
      BY <2>n, <2>1, <2>2, <3>4, <1>free DEF Settled
    <3>6. Life'[id] = "applying"
      BY <2>n, <2>at, <2>3, <1>held DEF Phase, Working
    <3> QED
      BY <2>1, <2>3, <2>at, <3>5, <3>6, <1>2
  <2> QED
    BY <2>h, <2>n
<1>6. ASSUME NEW p \in Proc, UpBegin(p) \/ UpEnd(p) \/ DownBegin(p) \/ DownEnd(p)
                              \/ StartRecord(p)
      PROVE  Goal
  <2>1. /\ Working(p) /\ Working(p)' /\ cur' = cur /\ cur[p] \in RowId
        /\ hasty' = hasty
        /\ \A q \in Proc \ {p} : pc'[q] = pc[q]
        /\ \/ pc[p] \in ClaimLabel /\ pc'[p] \in ClaimLabel
           \/ pc[p] \in RevertLabel /\ pc'[p] \in RevertLabel \ {"revert.mark"}
    BY <1>6, <1>ty, <1>pl
    DEF UpBegin, UpEnd, DownBegin, DownEnd, StartRecord, Goto, Working
  <2>2. cur[p] \notin hasty => Life[cur[p]] = Phase(pc[p]) /\ Life'[cur[p]] = Phase(pc'[p])
    <3>1. cur[p] \notin hasty => Life'[cur'[p]] = Phase(pc'[p])
      BY <2>1, <1>held
    <3> QED
      BY <3>1, <2>1, <1>held
  <2>3. \A j \in RowId \ {cur[p]} : table'.row[j] = table.row[j]
    <3>1. CASE table' = table
      BY <3>1
    <3>2. CASE StartRecord(p)
      <4>1. UpdateState(p, cur[p], "started") /\ table \in Table
        BY <3>2, <1>ty DEF StartRecord, TypeOK
      <4> QED
        BY <4>1, <2>1, UpdateRows
    <3> QED
      BY <3>1, <3>2, <1>6 DEF UpBegin, UpEnd, DownBegin, DownEnd
  <2>h. CASE cur[p] \in hasty
    BY <2>h, <2>1, <2>3, <1>still
  <2>n. CASE cur[p] \notin hasty
    BY <2>n, <2>1, <2>2, <2>3, <1>2 DEF Phase
  <2> QED
    BY <2>h, <2>n
<1>7. ASSUME NEW p \in Proc, Working(p), cur'[p] = NoRow, hasty' = hasty,
             \A q \in Proc \ {p} : pc'[q] = pc[q] /\ cur'[q] = cur[q],
             \A j \in RowId \ {cur[p]} : table'.row[j] = table.row[j],
             \/ cur[p] \in hasty
             \/ table'.row[cur[p]] = table.row[cur[p]]
             \/ /\ pc[p] \in {"run.finish", "mark.write"}
                /\ table'.row[cur[p]] # NoRow
                /\ table'.row[cur[p]].state = "applied"
             \/ /\ pc[p] \in {"revert.delete", "remove.write"}
                /\ table'.row[cur[p]] = NoRow
      PROVE  Goal
  <2>0. cur[p] \in RowId
    BY <1>7, <1>pl
  <2>h. CASE cur[p] \in hasty
    BY <2>h, <2>0, <1>7, <1>still
  <2>n. CASE cur[p] \notin hasty
    <3>1. Life[cur[p]] = Phase(pc[p]) /\ Life'[cur[p]] = Settled(table'.row[cur[p]])
      BY <2>n, <1>7, <1>held, <1>left
    <3>2. Settled(table'.row[cur[p]]) = IF table'.row[cur[p]] = NoRow THEN "absent"
                             ELSE IF table'.row[cur[p]].state = "applied" THEN "applied"
                             ELSE "interrupted"
      BY DEF Settled
    <3>3. /\ table.row[cur[p]] # NoRow
          /\ table.row[cur[p]].state =
               IF pc[p] = "revert.mark" THEN "applied" ELSE "started"
      BY <2>n, <1>7 DEF IInv, Marked
    <3> QED
      BY <2>0, <2>n, <3>1, <3>2, <3>3, <1>7, <1>2 DEF Phase, Working
  <2> QED
    BY <2>h, <2>n
<1>8. ASSUME NEW p \in Proc, FinishRecord(p) \/ MarkWrite(p) PROVE Goal
  <2>1. Working(p) /\ UpdateState(p, cur[p], "applied") /\ table \in Table
    BY <1>8, <1>ty DEF FinishRecord, MarkWrite, TypeOK, Working
  <2>0. cur[p] \in RowId /\ (cur[p] \notin hasty => table.row[cur[p]] # NoRow)
    BY <2>1, <1>pl DEF IInv, Marked
  <2>2. /\ \A j \in RowId \ {cur[p]} : table'.row[j] = table.row[j]
        /\ cur[p] \notin hasty => /\ table'.row[cur[p]] # NoRow
                                 /\ table'.row[cur[p]].state = "applied"
    BY <2>0, <2>1, UpdateRows
  <2>3. /\ pc[p] \in {"run.finish", "mark.write"} /\ cur'[p] = NoRow
        /\ \A q \in Proc \ {p} : pc'[q] = pc[q] /\ cur'[q] = cur[q]
        /\ hasty' = hasty
    BY <1>8, <1>ty DEF FinishRecord, MarkWrite, Goto, Return
  <2> QED
    BY <2>1, <2>2, <2>3, <1>7
<1>9. ASSUME NEW p \in Proc, RevertDone(p) \/ RemoveWrite(p) PROVE Goal
  <2>1. Working(p) /\ DeleteRecord(cur[p]) /\ table \in Table
    BY <1>9, <1>ty DEF RevertDone, RemoveWrite, TypeOK, Working
  <2>0. cur[p] \in RowId
    BY <2>1, <1>pl
  <2>2. table'.row = [table.row EXCEPT ![cur[p]] = NoRow]
    BY <2>1, <2>0, DeleteEffect
  <2>3. /\ pc[p] \in {"revert.delete", "remove.write"} /\ cur'[p] = NoRow
        /\ \A q \in Proc \ {p} : pc'[q] = pc[q] /\ cur'[q] = cur[q]
        /\ hasty' = hasty
    BY <1>9, <1>ty DEF RevertDone, RemoveWrite, Goto, Return
  <2> QED
    BY <2>0, <2>1, <2>2, <2>3, <1>ty, <1>7
<1>10. ASSUME NEW p \in Proc, Return(p), table' = table, hasty' = hasty PROVE Goal
  <2>1. /\ pc'[p] = "idle" /\ cur'[p] = NoRow
        /\ \A q \in Proc \ {p} : pc'[q] = pc[q] /\ cur'[q] = cur[q]
    BY <1>10, <1>ty DEF Return, Goto
  <2>2. CASE Working(p)
    BY <2>1, <2>2, <1>10, <1>7
  <2>3. CASE ~Working(p)
    BY <2>1, <2>3, <1>10, <1>1 DEF Working
  <2> QED
    BY <2>2, <2>3
<1>11. ASSUME NEW p \in Proc, NEW list \in Inputs, Run(p, list) PROVE Goal
  BY <1>11, <1>ty, <1>1 DEF Run, Goto, Working
<1>12. ASSUME NEW p \in Proc, SkipMatched(p) PROVE Goal
  BY <1>12, <1>ty, <1>1 DEF SkipMatched, AtFile, Working
<1>13. ASSUME UNCHANGED vars PROVE Goal
  <2>1. Same
    BY <1>13 DEF Same, Life, LifeOf, Applies, Reverts, At, vars
  <2> QED
    BY <2>1, <1>same
<1>14. ASSUME NEW p \in Proc, Call(p) \/ Resolve(p) PROVE Goal
  <2>1. ASSUME NEW f, MarkMigrationApplied(p, f) \/ RemoveMigrationRecord(p, f)
        PROVE  Goal
    BY <2>1, <1>4 DEF MarkMigrationApplied, RemoveMigrationRecord
  <2> QED
    BY <2>1, <1>14, <1>3, <1>11 DEF Call, Resolve
<1>15. ASSUME NEW p \in Proc, Step(p) \/ Abort(p) PROVE Goal
  BY <1>15, <1>5, <1>6, <1>8, <1>9, <1>10, <1>12
  DEF Step, Abort, RefuseChanged, LoseClaim, RunDone
<1>16. Goal
  BY <1>13, <1>14, <1>15 DEF Next
<1> QED
  BY <1>16 DEF Goal

LEMMA LifeInit == Init => Lifecycle!Init
<1> SUFFICES ASSUME Init PROVE Lifecycle!Init
  OBVIOUS
<1>1. IInv
  BY TypeInit, InitParts DEF IInv, Parts
<1>2. \A id \in RowId : ~Held(id)
  BY DEF Init, Held, Working, WorkLabel, ClaimLabel, RunLabel, RevertLabel,
         RepairLabel
<1>3. \A id \in RowId : Life[id] = Settled(table.row[id])
  BY <1>1, <1>2, LifeFree DEF Init
<1>4. \A id \in RowId : table.row[id] # NoRow => table.row[id].state = "applied"
  <2>1. Started(table) = {} /\ table \in Table
    BY InitRowsAssumption DEF Init
  <2> QED
    BY <2>1 DEF Started, Recorded, Table, Row
<1>5. \A id \in RowId : Life[id] \in {"absent", "applied"}
  BY <1>3, <1>4 DEF Settled
<1> QED
  BY <1>5 DEF Lifecycle!Init, Life

(* With one reverter the runner implements the life each migration is       *)
(* promised: one pair of hands, and an interruption only decisions end.     *)
THEOREM Refinement == ASSUME SerialReverts PROVE Spec => ImplementsLifecycle
<1>1. Init => Lifecycle!Init
  BY LifeInit
<1>2. IInv /\ [Next]_vars => [Lifecycle!Next]_Life
  BY LifeStep
<1>3. Life = [id \in RowId |-> LifeOf(id)]
  BY DEF Life
<1> QED
  BY <1>1, <1>2, Inductive, PTL DEF Spec, ImplementsLifecycle, Lifecycle!Spec, Life

-----------------------------------------------------------------------------
(* The order of a run, where nobody reverts: every file has its hash, as   *)
(* the loader gives it, and the tables found at the start are as the runner *)
(* keeps them, with rows of the format before hashes among them or not.    *)

(* byChronology puts the rows in an order, and a row with a hash is under   *)
(* the key INSERT gave it.                                                 *)
Chronological(t) == \A S \in SUBSET Recorded(t) : S # {} => Oldest(t, S) # {}
Keyed(t) == \A i \in Recorded(t) :
  t.row[i].hash # NoHash => i = DeriveRowId[t.row[i].hash]

Files == UNION {{list[k] : k \in DOMAIN list} : list \in Inputs}

(* What was recorded by its name only is not renamed.                      *)
Unrenamed(t) == \A i \in Recorded(t) : t.row[i].hash = NoHash =>
  \A f, g \in Files :
    f.name = t.row[i].name /\ g.hash = f.hash => g.name = f.name

Hashed == \A f \in Files : f.hash # NoHash
Kept   == \A t \in InitRows : Chronological(t) /\ Keyed(t) /\ Unrenamed(t)

Done(t, f) ==
  LET m == MatchAppliedRecord(t, f) IN m.kind = "matched" /\ m.id \notin Started(t)

(* A row a process is still at was inserted with a hash, under a name no   *)
(* row without one bears.                                                  *)
Inserted == \A i \in Started(table) :
  /\ table.row[i].hash # NoHash
  /\ \A j \in Recorded(table) :
       table.row[j].hash = NoHash => table.row[j].name # table.row[i].name

(* What the run of p found matched is done, whatever happened since.       *)
Snapshot(p) == pc[p] \in RunLabel =>
  /\ input[p] \in Inputs
  /\ Chronological(seen[p]) /\ Keyed(seen[p])
  /\ \A i \in Recorded(table) :
       table.row[i].hash = NoHash => seen[p].row[i] = table.row[i]
  /\ \A f \in Files :
       MatchAppliedRecord(seen[p], f).kind = "matched" => Done(table, f)

Passed(p) == pc[p] \in RunLabel =>
  \A k \in 1..(pos[p] - 1) : k \in DOMAIN input[p] /\ Done(table, input[p][k])

Claimed(p) == pc[p] \in ClaimLabel =>
  /\ pos[p] \in DOMAIN input[p]
  /\ cur[p] = Key(TheFile(p))
  /\ table.row[cur[p]].hash = TheFile(p).hash

Ordered(p) == Snapshot(p) /\ Passed(p) /\ Claimed(p)

WellKept == Chronological(table) /\ Keyed(table) /\ Unrenamed(table)

Ordering == WellKept /\ Inserted /\ \A p \in Proc : Ordered(p)

OInv == IInv /\ Ordering

-----------------------------------------------------------------------------
(* The two ways a file with a hash is applied. *)
ByHash(t, f) ==
  /\ DeriveRowId[f.hash] \in Recorded(t) \ Started(t)
  /\ t.row[DeriveRowId[f.hash]].hash = f.hash

First(t, n) == The(Oldest(t, Named(t, n)))

ByName(t, f) ==
  /\ WithHash(t, f.hash) = {}
  /\ First(t, f.name) \in Named(t, f.name) \ Started(t)
  /\ t.row[First(t, f.name)].hash = NoHash

LEMMA TheSingle == ASSUME NEW x PROVE The({x}) = x
BY DEF The

LEMMA TheMember == ASSUME NEW S, S # {} PROVE The(S) \in S
BY DEF The

LEMMA OneWithHash ==
  ASSUME NEW t, Keyed(t), NEW h, h # NoHash, WithHash(t, h) # {}
  PROVE  WithHash(t, h) = {DeriveRowId[h]}
BY DEF Keyed, WithHash

LEMMA FirstNamed ==
  ASSUME NEW t, Chronological(t), NEW n, Named(t, n) # {}
  PROVE  First(t, n) \in Named(t, n)
<1>1. Oldest(t, Named(t, n)) # {}
  BY DEF Chronological, Named
<1> QED
  BY <1>1, TheMember DEF First, Oldest

LEMMA DoneEither ==
  ASSUME NEW t, Keyed(t), Chronological(t), NEW f, f.hash # NoHash
  PROVE  Done(t, f) <=> ByHash(t, f) \/ ByName(t, f)
<1>1. CASE WithHash(t, f.hash) # {}
  <2> DEFINE k == DeriveRowId[f.hash]
  <2>1. WithHash(t, f.hash) = {k}
    BY <1>1, OneWithHash
  <2>2. The(Newest(t, {k})) = k
    <3>1. Newest(t, {k}) = {k}
      BY DEF Newest
    <3> QED
      BY <3>1, TheSingle
  <2>3. MatchAppliedRecord(t, f) = [kind |-> "matched", id |-> k]
    BY <2>1, <2>2 DEF MatchAppliedRecord
  <2>4. k \in Recorded(t) /\ t.row[k].hash = f.hash
    BY <2>1 DEF WithHash
  <2>5. Done(t, f) <=> k \notin Started(t)
    BY <2>3 DEF Done
  <2> QED
    BY <2>4, <2>5, <1>1 DEF ByHash, ByName
<1>2. CASE WithHash(t, f.hash) = {} /\ Named(t, f.name) = {}
  <2>1. ~Done(t, f)
    BY <1>2 DEF Done, MatchAppliedRecord
  <2> QED
    BY <2>1, <1>2 DEF ByHash, ByName, WithHash
<1>3. CASE WithHash(t, f.hash) = {} /\ Named(t, f.name) # {}
  <2> DEFINE i == First(t, f.name)
  <2>1. i \in Named(t, f.name)
    BY <1>3, FirstNamed
  <2>2. t.row[i].hash # f.hash
    BY <2>1, <1>3 DEF WithHash, Named
  <2>3. MatchAppliedRecord(t, f) =
          IF t.row[i].hash = NoHash THEN [kind |-> "matched", id |-> i]
                                    ELSE [kind |-> "changed", id |-> i]
    BY <2>2, <1>3 DEF MatchAppliedRecord, First
  <2>4. Done(t, f) <=> t.row[i].hash = NoHash /\ i \notin Started(t)
    BY <2>3 DEF Done
  <2>5. ~ByHash(t, f)
    BY <1>3 DEF ByHash, WithHash
  <2> QED
    BY <2>1, <2>4, <2>5, <1>3 DEF ByName
<1> QED
  BY <1>1, <1>2, <1>3

(* Two tables that differ at one row id only. *)
Elsewhere(t, u, id) ==
  /\ \A i \in RowId \ {id} : u.row[i] = t.row[i]
  /\ \A i, j \in RowId \ {id} : <<i, j>> \in u.older <=> <<i, j>> \in t.older

LEMMA ByHashStays ==
  ASSUME NEW t, NEW u, NEW id \in RowId, Elsewhere(t, u, id), NEW f,
         ByHash(t, f),
         id \in Recorded(t) \ Started(t) =>
           /\ id \in Recorded(u) \ Started(u)
           /\ u.row[id].hash = t.row[id].hash
  PROVE  ByHash(u, f)
<1>1. CASE DeriveRowId[f.hash] = id
  BY <1>1 DEF ByHash
<1>2. CASE DeriveRowId[f.hash] # id
  BY <1>2 DEF ByHash, Elsewhere, Recorded, Started
<1> QED
  BY <1>1, <1>2

LEMMA ByNameStays ==
  ASSUME NEW t, NEW u, NEW id \in RowId, Elsewhere(t, u, id), NEW f,
         ByName(t, f),
         id \notin Named(t, f.name), id \notin Named(u, f.name),
         id \notin WithHash(u, f.hash)
  PROVE  ByName(u, f)
<1>1. Named(u, f.name) = Named(t, f.name)
  BY DEF Named, Recorded, Elsewhere
<1>2. WithHash(u, f.hash) \subseteq WithHash(t, f.hash)
  BY DEF WithHash, Recorded, Elsewhere
<1>3. Oldest(u, Named(u, f.name)) = Oldest(t, Named(t, f.name))
  <2>1. Named(t, f.name) \subseteq RowId \ {id}
    BY DEF Named, Recorded
  <2> QED
    BY <2>1, <1>1 DEF Oldest, Elsewhere
<1>4. First(u, f.name) = First(t, f.name)
  BY <1>3 DEF First
<1>5. First(t, f.name) \in RowId \ {id}
  BY DEF ByName, Named, Recorded
<1> QED
  BY <1>1, <1>2, <1>4, <1>5 DEF ByName, Elsewhere, Started, Recorded


-----------------------------------------------------------------------------
(* What the writes do to the order of the rows. *)

LEMMA StampedElsewhere ==
  ASSUME table \in Table, NEW id \in RowId, NEW r \in Row, NEW p,
         NEW later \in Later(p, id)
  PROVE  Elsewhere(table, Stamped(id, r, later), id)
<1>1. \A i, j \in RowId \ {id} :
        <<i, j>> \in Stamped(id, r, later).older <=> <<i, j>> \in table.older
  BY DEF Stamped
<1>2. Stamped(id, r, later).row = [table.row EXCEPT ![id] = r]
  BY StampedTable
<1>3. \A i \in RowId \ {id} : Stamped(id, r, later).row[i] = table.row[i]
  BY <1>2 DEF Table
<1> QED
  BY <1>1, <1>3 DEF Elsewhere

LEMMA StampedOrder ==
  ASSUME table \in Table, Chronological(table), NEW id \in RowId, NEW r \in Row,
         NEW p, NEW later \in Later(p, id)
  PROVE  Chronological(Stamped(id, r, later))
<1> DEFINE u == Stamped(id, r, later)
<1>1. Elsewhere(table, u, id)
  BY StampedElsewhere
<1>2. Recorded(u) \subseteq Recorded(table) \cup {id}
  BY <1>1 DEF Elsewhere, Recorded
<1>3. /\ later \subseteq Recorded(table) \ {id}
      /\ \A j \in later, k \in Recorded(table) \ {id} :
           <<j, k>> \in table.older => k \in later
  BY DEF Later
<1>4. /\ \A j \in Recorded(table) \ (later \cup {id}) : <<j, id>> \in u.older
      /\ \A j \in later : <<id, j>> \in u.older
  BY DEF Stamped
<1> SUFFICES ASSUME NEW S \in SUBSET Recorded(u), S # {}
             PROVE  Oldest(u, S) # {}
  BY DEF Chronological
<1> HIDE DEF u
<1> DEFINE R == S \ {id}
<1>5. R \subseteq Recorded(table) /\ R \subseteq RowId
  BY <1>2 DEF Recorded
<1>6. CASE R = {}
  BY <1>6 DEF Oldest
<1>7. CASE R # {}
  <2>1. PICK m \in R : \A j \in R \ {m} : <<m, j>> \in table.older
    BY <1>7, <1>5 DEF Chronological, Oldest
  <2>2. \A j \in R \ {m} : <<m, j>> \in u.older
    BY <2>1, <1>1, <1>5 DEF Elsewhere
  <2>3. CASE id \notin S \/ m \notin later
    <3>1. \A j \in S \ {m} : <<m, j>> \in u.older
      BY <2>2, <2>3, <1>4, <1>5
    <3> QED
      BY <3>1 DEF Oldest
  <2>4. CASE id \in S /\ m \in later
    <3>1. R \subseteq later
      BY <2>1, <2>4, <1>3, <1>5
    <3>2. \A j \in S \ {id} : <<id, j>> \in u.older
      BY <3>1, <1>4
    <3> QED
      BY <3>2, <2>4 DEF Oldest
  <2> QED
    BY <2>3, <2>4
<1> QED
  BY <1>6, <1>7

LEMMA DeleteElsewhere ==
  ASSUME table \in Table, Chronological(table), NEW id \in RowId, DeleteRecord(id)
  PROVE  Elsewhere(table, table', id) /\ Chronological(table')
<1>1. Elsewhere(table, table', id)
  BY DEF DeleteRecord, Table, Elsewhere
<1>2. Recorded(table') \subseteq Recorded(table) \ {id}
  BY DeleteEffect DEF Recorded, Table
<1>3. ASSUME NEW S \in SUBSET Recorded(table'), S # {}
      PROVE  Oldest(table', S) # {}
  <2>1. Oldest(table, S) # {} /\ S \subseteq RowId \ {id}
    BY <1>2, <1>3 DEF Chronological, Recorded
  <2> QED
    BY <2>1, <1>1 DEF Oldest, Elsewhere
<1> QED
  BY <1>1, <1>3 DEF Chronological

(* What every write keeps. *)
Keeps(id) ==
  /\ Elsewhere(table, table', id)
  /\ WellKept'
  /\ Inserted'
  /\ \A i \in Recorded(table') : table'.row[i].hash = NoHash =>
       i \in Recorded(table) /\ table.row[i] = table'.row[i]
  /\ \A f \in Files : Done(table, f) => Done(table', f)

LEMMA FileTyped ==
  ASSUME NEW f \in Files PROVE f \in File
<1>1. PICK list \in Inputs : \E k \in DOMAIN list : f = list[k]
  BY DEF Files
<1>2. list \in Seq(File)
  BY InputsAssumption
<1> QED
  BY <1>1, <1>2


(* A row that is inserted, marked or deleted leaves what is done as it is,  *)
(* as long as it stays clear of the names of the rows without a hash.       *)
LEMMA DoneStays ==
  ASSUME NEW t, NEW u, Keyed(t), Chronological(t), Keyed(u), Chronological(u),
         NEW id \in RowId, Elsewhere(t, u, id), NEW f, f.hash # NoHash,
         Done(t, f),
         id \in Recorded(t) \ Started(t) =>
           /\ id \in Recorded(u) \ Started(u)
           /\ u.row[id].hash = t.row[id].hash,
         ByName(t, f) => /\ id \notin Named(t, f.name)
                         /\ id \notin Named(u, f.name)
                         /\ id \notin WithHash(u, f.hash)
  PROVE  Done(u, f)
<1>1. CASE ByHash(t, f)
  BY <1>1, ByHashStays, DoneEither
<1>2. CASE ByName(t, f)
  BY <1>2, ByNameStays, DoneEither
<1> QED
  BY <1>1, <1>2, DoneEither

LEMMA DeleteKeeps ==
  ASSUME table \in Table, WellKept, Inserted, Hashed,
         NEW id \in Started(table), DeleteRecord(id)
  PROVE  Keeps(id)
<1>1. id \in RowId /\ id \in Recorded(table)
  BY DEF Started, Recorded
<1>2. table' \in Table /\ table'.row = [table.row EXCEPT ![id] = NoRow]
  BY <1>1, DeleteEffect
<1>3. Elsewhere(table, table', id) /\ Chronological(table')
  BY <1>1, DeleteElsewhere DEF WellKept
<1>4. /\ Recorded(table') = Recorded(table) \ {id}
      /\ \A i \in Recorded(table') : table'.row[i] = table.row[i]
  BY <1>1, <1>2 DEF Recorded, Table
<1>5. Keyed(table') /\ Unrenamed(table')
  BY <1>4 DEF WellKept, Keyed, Unrenamed
<1>6. Inserted'
  BY <1>4 DEF Inserted, Started
<1>7. ASSUME NEW f \in Files, Done(table, f) PROVE Done(table', f)
  <2>1. f.hash # NoHash
    BY DEF Hashed
  <2>2. ByName(table, f) => id \notin Named(table, f.name)
    <3> SUFFICES ASSUME ByName(table, f), id \in Named(table, f.name)
                 PROVE  FALSE
      OBVIOUS
    <3>1. /\ First(table, f.name) \in Recorded(table)
          /\ table.row[First(table, f.name)].name = f.name
          /\ table.row[First(table, f.name)].hash = NoHash
      BY DEF ByName, Named
    <3>2. table.row[id].name = f.name
      BY DEF Named
    <3> QED
      BY <3>1, <3>2 DEF Inserted
  <2>3. id \notin Named(table', f.name) /\ id \notin WithHash(table', f.hash)
    BY <1>4 DEF Named, WithHash
  <2> QED
    BY <2>1, <2>2, <2>3, <1>1, <1>3, <1>5, <1>7, DoneStays DEF WellKept
<1> QED
  BY <1>3, <1>4, <1>5, <1>6, <1>7 DEF Keeps, WellKept

LEMMA UpdateKeeps ==
  ASSUME table \in Table, WellKept, Inserted, Hashed,
         NEW p, NEW id \in Started(table), UpdateState(p, id, "applied")
  PROVE  /\ Keeps(id)
         /\ id \in Recorded(table') \ Started(table')
         /\ table'.row[id].hash = table.row[id].hash
<1>1. id \in RowId /\ id \in Recorded(table) /\ table.row[id] # NoRow
  BY DEF Started, Recorded
<1> DEFINE r == [table.row[id] EXCEPT !.state = "applied"]
<1>2. PICK later \in Later(p, id) : table' = Stamped(id, r, later)
  BY <1>1 DEF UpdateState
<1>3. r \in Row /\ r.state = "applied"
  BY <1>1, UpdateEffect
<1>4. r.hash = table.row[id].hash /\ r.name = table.row[id].name
  BY <1>1, RowIsNotNoRow DEF Row
<1> HIDE DEF r
<1>5. /\ Elsewhere(table, table', id)
      /\ Chronological(table')
      /\ table'.row = [table.row EXCEPT ![id] = r]
  BY <1>1, <1>2, <1>3, StampedElsewhere, StampedOrder, StampedTable DEF WellKept
<1>6. /\ Recorded(table') = Recorded(table)
      /\ table'.row[id] = r
      /\ \A i \in Recorded(table) :
           /\ i # id => table'.row[i] = table.row[i]
           /\ table'.row[i].hash = table.row[i].hash
           /\ table'.row[i].name = table.row[i].name
  BY <1>1, <1>3, <1>4, <1>5, NoRowAssumption DEF Recorded, Table
<1>7. /\ Started(table') = Started(table) \ {id}
  BY <1>6, <1>3 DEF Started
<1>8. Keyed(table') /\ Unrenamed(table') /\ Inserted'
  <2>1. Keyed(table')
    BY <1>6 DEF WellKept, Keyed
  <2>2. Unrenamed(table')
    BY <1>6 DEF WellKept, Unrenamed
  <2>3. Started(table) \subseteq Recorded(table)
    BY DEF Started
  <2>4. Inserted'
    BY <1>6, <1>7, <2>3 DEF Inserted
  <2> QED
    BY <2>1, <2>2, <2>4
<1>9. ASSUME NEW f \in Files, Done(table, f) PROVE Done(table', f)
  <2>1. f.hash # NoHash
    BY DEF Hashed
  <2>2. ByName(table, f) => id \notin Named(table, f.name)
    <3> SUFFICES ASSUME ByName(table, f), id \in Named(table, f.name)
                 PROVE  FALSE
      OBVIOUS
    <3>1. /\ First(table, f.name) \in Recorded(table)
          /\ table.row[First(table, f.name)].name = f.name
          /\ table.row[First(table, f.name)].hash = NoHash
      BY DEF ByName, Named
    <3>2. table.row[id].name = f.name
      BY DEF Named
    <3> QED
      BY <3>1, <3>2 DEF Inserted
  <2>3. /\ Named(table', f.name) = Named(table, f.name)
        /\ WithHash(table', f.hash) = WithHash(table, f.hash)
    BY <1>6 DEF Named, WithHash
  <2>4. ByName(table, f) => id \notin WithHash(table', f.hash)
    BY <2>3 DEF ByName
  <2> QED
    BY <2>1, <2>2, <2>3, <2>4, <1>1, <1>5, <1>6, <1>7, <1>8, <1>9, DoneStays
    DEF WellKept
<1>10. table.row[id].hash # NoHash
  BY DEF Inserted
<1> QED
  BY <1>1, <1>4, <1>5, <1>6, <1>7, <1>8, <1>9, <1>10 DEF Keeps, WellKept

(* The claim: its file matched nothing in the table its run had read, so no *)
(* row without a hash bears its name.                                      *)
LEMMA ClaimKeeps ==
  ASSUME TypeOK, WellKept, Inserted, Hashed,
         NEW p \in Proc, Snapshot(p), Claim(p)
  PROVE  /\ Keeps(Key(TheFile(p)))
         /\ table'.row[Key(TheFile(p))].hash = TheFile(p).hash
<1> DEFINE g  == TheFile(p)
           id == Key(g)
           r  == [name |-> g.name, hash |-> g.hash, state |-> "started"]
<1>1. /\ AtFile(p) /\ Match(p).kind = "pending"
      /\ table.row[id] = NoRow
      /\ \E later \in Later(p, id) : table' = Stamped(id, r, later)
  BY DEF Claim, InsertRecord
<1>2. id \in RowId /\ r \in Row
  BY <1>1, ClaimedRow
<1>3. input[p] \in Inputs /\ g \in Files
  BY <1>1 DEF Snapshot, RunLabel, AtFile, TheFile, Files
<1>4. g.hash # NoHash /\ id = DeriveRowId[g.hash]
  BY <1>3 DEF Hashed, Key, MigrationIdentity
<1>5. r.hash = g.hash /\ r.name = g.name /\ r.state = "started"
  OBVIOUS
<1>6. Named(seen[p], g.name) = {}
  BY <1>1 DEF Match, MatchAppliedRecord
<1>7. \A j \in Recorded(table) : table.row[j].hash = NoHash =>
        table.row[j].name # g.name
  <2> SUFFICES ASSUME NEW j \in Recorded(table), table.row[j].hash = NoHash,
                      table.row[j].name = g.name
               PROVE  FALSE
    OBVIOUS
  <2>1. seen[p].row[j] = table.row[j]
    BY <1>1 DEF Snapshot, RunLabel, AtFile
  <2>2. j \in Named(seen[p], g.name)
    BY <2>1 DEF Named, Recorded
  <2> QED
    BY <2>2, <1>6
<1> HIDE DEF g, r, id
<1>8. PICK later \in Later(p, id) : table' = Stamped(id, r, later)
  BY <1>1
<1>ty. table \in Table
  BY DEF TypeOK
<1>9. /\ Elsewhere(table, table', id)
      /\ Chronological(table')
      /\ table'.row = [table.row EXCEPT ![id] = r]
  BY <1>8, <1>2, <1>ty, StampedElsewhere, StampedOrder, StampedTable DEF WellKept
<1>10. /\ Recorded(table') = Recorded(table) \cup {id}
       /\ id \notin Recorded(table)
       /\ table'.row[id] = r
       /\ \A i \in Recorded(table) : table'.row[i] = table.row[i]
  BY <1>1, <1>2, <1>9, <1>ty, NoRowAssumption DEF Recorded, Table
<1>11. Started(table') = Started(table) \cup {id}
  BY <1>10, <1>5 DEF Started
<1>12. Keyed(table') /\ Unrenamed(table') /\ Inserted'
  BY <1>10, <1>11, <1>4, <1>5, <1>7 DEF WellKept, Keyed, Unrenamed, Inserted, Started
<1>13. ASSUME NEW f \in Files, Done(table, f) PROVE Done(table', f)
  <2>1. f.hash # NoHash
    BY DEF Hashed
  <2>2. ASSUME ByName(table, f)
        PROVE  f.name # g.name /\ f.hash # g.hash
    <3>1. /\ First(table, f.name) \in Recorded(table)
          /\ table.row[First(table, f.name)].name = f.name
          /\ table.row[First(table, f.name)].hash = NoHash
      BY <2>2 DEF ByName, Named
    <3>2. f.name # g.name
      BY <3>1, <1>7
    <3> QED
      BY <3>1, <3>2, <1>3 DEF WellKept, Unrenamed
  <2>3. ByName(table, f) => /\ id \notin Named(table, f.name)
                            /\ id \notin Named(table', f.name)
                            /\ id \notin WithHash(table', f.hash)
    BY <2>2, <1>10, <1>5 DEF Named, WithHash
  <2> QED
    BY <2>1, <2>3, <1>2, <1>9, <1>10, <1>12, <1>13, DoneStays DEF WellKept
<1>14. /\ Keeps(id) /\ table'.row[id].hash = g.hash
  BY <1>9, <1>10, <1>12, <1>13, <1>4, <1>5 DEF Keeps, WellKept
<1> QED
  BY <1>14 DEF id, g


-----------------------------------------------------------------------------
(* The inductive step. *)

LEMMA OrderingInit == ASSUME Kept PROVE Init => Ordering
<1> SUFFICES ASSUME Init PROVE Ordering
  OBVIOUS
<1>1. table \in InitRows /\ Started(table) = {}
  BY InitRowsAssumption DEF Init
<1>2. WellKept /\ Inserted
  BY <1>1 DEF Kept, WellKept, Inserted
<1>3. \A p \in Proc : pc[p] \notin RunLabel /\ pc[p] \notin ClaimLabel
  BY DEF Init, RunLabel, ClaimLabel
<1> QED
  BY <1>2, <1>3 DEF Ordering, Ordered, Snapshot, Passed, Claimed

Quiet(q) == /\ pc'[q] = pc[q] /\ input'[q] = input[q] /\ seen'[q] = seen[q]
            /\ pos'[q] = pos[q] /\ cur'[q] = cur[q]

(* What a call knows outlives the writes of the others at other rows.      *)
LEMMA SnapshotKeeps ==
  ASSUME NEW q \in Proc, Snapshot(q), NEW id \in RowId, Keeps(id),
         input'[q] = input[q], seen'[q] = seen[q], pc[q] \in RunLabel
  PROVE  Snapshot(q)'
<1>1. \A i \in Recorded(table') :
        table'.row[i].hash = NoHash => seen[q].row[i] = table'.row[i]
  BY DEF Keeps, Snapshot
<1>2. \A f \in Files :
        MatchAppliedRecord(seen[q], f).kind = "matched" => Done(table', f)
  BY DEF Keeps, Snapshot
<1> QED
  BY <1>1, <1>2 DEF Snapshot

LEMMA PassedKeeps ==
  ASSUME NEW q \in Proc, Snapshot(q), Passed(q), NEW id \in RowId, Keeps(id),
         pc[q] \in RunLabel
  PROVE  \A k \in 1..(pos[q] - 1) :
           k \in DOMAIN input[q] /\ Done(table', input[q][k])
<1> SUFFICES ASSUME NEW k \in 1..(pos[q] - 1)
             PROVE  k \in DOMAIN input[q] /\ Done(table', input[q][k])
  OBVIOUS
<1>1. k \in DOMAIN input[q] /\ Done(table, input[q][k])
  BY DEF Passed
<1>2. input[q][k] \in Files
  BY <1>1 DEF Snapshot, Files
<1> QED
  BY <1>1, <1>2 DEF Keeps

LEMMA QuietKeeps ==
  ASSUME NEW q \in Proc, Ordered(q), Quiet(q), NEW id \in RowId, Keeps(id),
         pc[q] \in ClaimLabel => cur[q] \in RowId \ {id}
  PROVE  Ordered(q)'
<1>1. Snapshot(q)'
  <2>1. CASE pc[q] \in RunLabel
    BY <2>1, SnapshotKeeps DEF Ordered, Quiet
  <2>2. CASE pc[q] \notin RunLabel
    BY <2>2 DEF Quiet, Snapshot
  <2> QED
    BY <2>1, <2>2
<1>2. Passed(q)'
  <2>1. CASE pc[q] \in RunLabel
    BY <2>1, PassedKeeps DEF Ordered, Quiet, Passed
  <2>2. CASE pc[q] \notin RunLabel
    BY <2>2 DEF Quiet, Passed
  <2> QED
    BY <2>1, <2>2
<1>3. Claimed(q)'
  <2>1. CASE pc[q] \in ClaimLabel
    <3>1. table'.row[cur[q]] = table.row[cur[q]]
      BY <2>1 DEF Keeps, Elsewhere
    <3> QED
      BY <3>1 DEF Ordered, Quiet, Claimed, TheFile
  <2>2. CASE pc[q] \notin ClaimLabel
    BY <2>2 DEF Quiet, Claimed
  <2> QED
    BY <2>1, <2>2
<1> QED
  BY <1>1, <1>2, <1>3 DEF Ordered

LEMMA QuietSame ==
  ASSUME NEW q \in Proc, Ordered(q), Quiet(q), table' = table
  PROVE  Ordered(q)'
BY DEF Ordered, Quiet, Snapshot, Passed, Claimed, TheFile

LEMMA IdleOrdered ==
  ASSUME NEW q \in Proc, pc'[q] \notin RunLabel
  PROVE  Ordered(q)'
BY DEF Ordered, Snapshot, Passed, Claimed, ClaimLabel

LEMMA OthersQuiet ==
  ASSUME TypeOK, NEW p \in Proc,
         Step(p) \/ Abort(p) \/ Call(p) \/ Resolve(p)
  PROVE  \A q \in Proc \ {p} : Quiet(q)
<1> SUFFICES ASSUME NEW q \in Proc \ {p} PROVE Quiet(q)
  OBVIOUS
<1>1. ASSUME Return(p) PROVE Quiet(q)
  BY <1>1 DEF Return, Goto, Quiet, TypeOK
<1>2. ASSUME NEW list \in Inputs, Run(p, list) \/ Revert(p, list) PROVE Quiet(q)
  BY <1>2 DEF Run, Revert, Goto, Quiet, TypeOK
<1>3. ASSUME NEW f, MarkMigrationApplied(p, f) \/ RemoveMigrationRecord(p, f)
      PROVE  Quiet(q)
  BY <1>3
  DEF MarkMigrationApplied, RemoveMigrationRecord, Repair, Goto, Quiet, TypeOK
<1>4. ASSUME \/ SkipMatched(p) \/ Claim(p) \/ UpBegin(p) \/ UpEnd(p)
             \/ FinishRecord(p) \/ StartRecord(p) \/ DownBegin(p) \/ DownEnd(p)
      PROVE  Quiet(q)
  BY <1>4
  DEF SkipMatched, Claim, UpBegin, UpEnd, FinishRecord, StartRecord, DownBegin,
      DownEnd, Goto, Quiet, TypeOK
<1>5. ASSUME \/ RefuseChanged(p) \/ LoseClaim(p) \/ RunDone(p) \/ RevertDone(p)
             \/ MarkWrite(p) \/ RemoveWrite(p) \/ Abort(p)
      PROVE  Quiet(q)
  BY <1>1, <1>5
  DEF RefuseChanged, LoseClaim, RunDone, RevertDone, MarkWrite, RemoveWrite, Abort
<1> QED
  BY <1>2, <1>3, <1>4, <1>5 DEF Step, Call, Resolve


(* A write by p at its row leaves every other call as ordered as it was.    *)
LEMMA WriteKeepsOthers ==
  ASSUME IInv, Ordering, hasty = {}, NEW p \in Proc, NEW id \in RowId, Keeps(id),
         \A q \in Proc \ {p} : Quiet(q),
         table.row[id] = NoRow \/ (Working(p) /\ cur[p] = id)
  PROVE  \A q \in Proc \ {p} : Ordered(q)'
<1> SUFFICES ASSUME NEW q \in Proc \ {p} PROVE Ordered(q)'
  OBVIOUS
<1>1. pc[q] \in ClaimLabel => cur[q] \in RowId \ {id}
  <2> SUFFICES ASSUME pc[q] \in ClaimLabel PROVE cur[q] \in RowId \ {id}
    OBVIOUS
  <2>1. Working(q)
    BY DEF Working, WorkLabel
  <2>2. cur[q] \in RowId /\ table.row[cur[q]] # NoRow
    BY <2>1 DEF IInv, Placed, Marked
  <2>3. Working(p) /\ cur[p] = id => cur[q] # id
    BY <2>1 DEF IInv, Exclusive
  <2> QED
    BY <2>2, <2>3
<1> QED
  BY <1>1, QuietKeeps DEF Ordering

(* Who resolved a row in haste has done so.                                *)
LEMMA HasteGrows == [Next]_vars => hasty \subseteq hasty'
<1> SUFFICES ASSUME [Next]_vars PROVE hasty \subseteq hasty'
  OBVIOUS
<1>1. ASSUME NEW p \in Proc, NEW f, NEW state, NEW next, Repair(p, f, state, next)
      PROVE  hasty \subseteq hasty'
  BY <1>1, RepairEffect
<1>2. ASSUME NEW p \in Proc, Call(p) \/ Step(p) \/ Abort(p) PROVE hasty' = hasty
  BY <1>2
  DEF Call, Run, Revert, Step, SkipMatched, RefuseChanged, Claim, LoseClaim, UpBegin, UpEnd,
      FinishRecord, RunDone, StartRecord, DownBegin, DownEnd, RevertDone, MarkWrite,
      RemoveWrite, Abort
<1> QED
  BY <1>1, <1>2 DEF Next, Resolve, MarkMigrationApplied, RemoveMigrationRecord, vars

LEMMA OrderingStep ==
  ASSUME Reverter = {}, Hashed
  PROVE  IInv /\ Ordering /\ hasty = {} /\ [Next]_vars => Ordering'
<1> SUFFICES ASSUME IInv, Ordering, hasty = {}, [Next]_vars PROVE Ordering'
  OBVIOUS
<1>ty. TypeOK /\ table \in Table /\ WellKept /\ Inserted
  BY DEF IInv, TypeOK, Ordering
<1>or. \A q \in Proc : Ordered(q)
  BY DEF Ordering
<1>st. ASSUME NEW p \in Proc, Working(p), pc[p] # "revert.mark"
       PROVE  cur[p] \in RowId /\ cur[p] \in Started(table)
  BY <1>st DEF IInv, Placed, Marked, Started, Recorded
<1>1. ASSUME NEW p \in Proc, table' = table, Ordered(p)',
             \A q \in Proc \ {p} : Quiet(q)
      PROVE  Ordering'
  <2>1. WellKept' /\ Inserted'
    BY <1>1, <1>ty DEF WellKept, Inserted
  <2>2. \A q \in Proc \ {p} : Ordered(q)'
    BY <1>1, <1>or, QuietSame
  <2> QED
    BY <2>1, <2>2, <1>1 DEF Ordering
<1>2. ASSUME NEW p \in Proc, NEW id \in RowId, Keeps(id), Ordered(p)',
             \A q \in Proc \ {p} : Quiet(q),
             table.row[id] = NoRow \/ (Working(p) /\ cur[p] = id)
      PROVE  Ordering'
  <2>1. WellKept' /\ Inserted'
    BY <1>2 DEF Keeps
  <2>2. \A q \in Proc \ {p} : Ordered(q)'
    BY <1>2, WriteKeepsOthers
  <2> QED
    BY <2>1, <2>2, <1>2 DEF Ordering
<1>3. ASSUME NEW p \in Proc, NEW list \in Inputs, Run(p, list) PROVE Ordering'
  <2>0. \A q \in Proc \ {p} : Quiet(q)
    BY <1>3, <1>ty, OthersQuiet DEF Call
  <2>1. /\ Started(table) = {} /\ table' = table
        /\ pc'[p] = "run.next" /\ input'[p] = list
        /\ seen'[p] = table /\ pos'[p] = 1
    BY <1>3, <1>ty DEF Run, Goto, TypeOK
  <2>2. \A f \in Files :
          MatchAppliedRecord(table, f).kind = "matched" => Done(table, f)
    BY <2>1 DEF Done
  <2>3. Snapshot(p)'
    BY <2>1, <2>2, <1>ty DEF Snapshot, WellKept
  <2>4. Passed(p)'
    BY <2>1 DEF Passed
  <2>5. Claimed(p)'
    BY <2>1 DEF Claimed, ClaimLabel
  <2> QED
    BY <2>0, <2>1, <2>3, <2>4, <2>5, <1>1 DEF Ordered
<1>4. ASSUME NEW p \in Proc, SkipMatched(p) PROVE Ordering'
  <2>0. \A q \in Proc \ {p} : Quiet(q)
    BY <1>4, <1>ty, OthersQuiet DEF Step
  <2>1. /\ table' = table /\ pc'[p] = "run.next" /\ pc[p] = "run.next"
        /\ input'[p] = input[p] /\ seen'[p] = seen[p]
        /\ pos[p] \in Nat /\ pos'[p] = pos[p] + 1 /\ pos[p] \in DOMAIN input[p]
        /\ MatchAppliedRecord(seen[p], input[p][pos[p]]).kind = "matched"
    BY <1>4, <1>ty DEF SkipMatched, AtFile, Match, TheFile, TypeOK
  <2>2. Snapshot(p) /\ Passed(p)
    BY <1>or DEF Ordered
  <2>3. Snapshot(p)'
    BY <2>1, <2>2 DEF Snapshot
  <2>4. input[p][pos[p]] \in Files
    BY <2>1, <2>2 DEF Snapshot, RunLabel, Files
  <2>5. Done(table, input[p][pos[p]])
    BY <2>1, <2>2, <2>4 DEF Snapshot, RunLabel
  <2>6. \A k \in 1..(pos[p] - 1) : k \in DOMAIN input[p] /\ Done(table, input[p][k])
    BY <2>1, <2>2 DEF Passed, RunLabel
  <2>7. \A k \in 1..pos[p] : k \in 1..(pos[p] - 1) \/ k = pos[p]
    BY <2>1
  <2>8. pos[p] + 1 - 1 = pos[p]
    BY <2>1
  <2>9. Passed(p)'
    BY <2>1, <2>5, <2>6, <2>7, <2>8 DEF Passed
  <2>10. Claimed(p)'
    BY <2>1 DEF Claimed, ClaimLabel
  <2> QED
    BY <2>0, <2>1, <2>3, <2>9, <2>10, <1>1 DEF Ordered
<1>5. ASSUME NEW p \in Proc, UpBegin(p) \/ UpEnd(p) PROVE Ordering'
  <2>0. \A q \in Proc \ {p} : Quiet(q)
    BY <1>5, <1>ty, OthersQuiet DEF Step
  <2>1. /\ table' = table /\ pc[p] \in ClaimLabel /\ pc'[p] \in ClaimLabel
        /\ input' = input /\ seen' = seen /\ pos' = pos /\ cur' = cur
    BY <1>5, <1>ty DEF UpBegin, UpEnd, Goto, TypeOK, ClaimLabel, RunLabel
  <2>2. pc[p] \in RunLabel
    BY <2>1 DEF ClaimLabel
  <2>3. Ordered(p)'
    BY <2>1, <2>2, <1>or DEF Ordered, Snapshot, Passed, Claimed, TheFile
  <2> QED
    BY <2>0, <2>1, <2>3, <1>1
<1>6. ASSUME NEW p \in Proc, NEW f, NEW state, NEW next \in RepairLabel,
             Repair(p, f, state, next),
             \A q \in Proc \ {p} : Quiet(q)
      PROVE  Ordering'
  <2>1. pc' = [pc EXCEPT ![p] = next] /\ table' = table
    BY <1>6, RepairEffect
  <2>2. pc'[p] = next
    BY <2>1, <1>ty DEF TypeOK
  <2>3. next \notin RunLabel
    BY DEF RepairLabel, RunLabel
  <2>4. Ordered(p)'
    BY <2>2, <2>3, IdleOrdered
  <2> QED
    BY <2>1, <2>4, <1>1, <1>6
<1>7. ASSUME NEW p \in Proc, Return(p), table' = table,
             \A q \in Proc \ {p} : Quiet(q)
      PROVE  Ordering'
  <2>1. pc'[p] \notin RunLabel
    BY <1>7, <1>ty DEF Return, Goto, TypeOK, RunLabel
  <2> QED
    BY <2>1, <1>1, <1>7, IdleOrdered
<1>8. ASSUME NEW p \in Proc, Claim(p) PROVE Ordering'
  <2> DEFINE id == Key(TheFile(p))
  <2>0. \A q \in Proc \ {p} : Quiet(q)
    BY <1>8, <1>ty, OthersQuiet DEF Step
  <2>1. id \in RowId /\ table.row[id] = NoRow
    BY <1>8, <1>ty, ClaimedRow DEF Claim, InsertRecord
  <2>2. Keeps(id) /\ table'.row[id].hash = TheFile(p).hash
    BY <1>8, <1>ty, <1>or, ClaimKeeps DEF Ordered
  <2>3. /\ pc[p] = "run.next" /\ pc'[p] = "run.claimed" /\ cur'[p] = id
        /\ input' = input /\ seen' = seen /\ pos' = pos
        /\ pos[p] \in DOMAIN input[p]
    BY <1>8, <1>ty DEF Claim, AtFile, Goto, TypeOK
  <2>4. Snapshot(p)'
    BY <2>1, <2>2, <2>3, <1>or, SnapshotKeeps DEF Ordered, RunLabel
  <2>5. Passed(p)'
    BY <2>1, <2>2, <2>3, <1>or, PassedKeeps DEF Ordered, Passed, RunLabel
  <2>6. TheFile(p)' = TheFile(p)
    BY <2>3 DEF TheFile
  <2>7. Claimed(p)'
    BY <2>2, <2>3, <2>6 DEF Claimed
  <2> HIDE DEF id
  <2> QED
    BY <2>0, <2>1, <2>2, <2>4, <2>5, <2>7, <1>2 DEF Ordered
<1>9. ASSUME NEW p \in Proc, FinishRecord(p) PROVE Ordering'
  <2>0. \A q \in Proc \ {p} : Quiet(q)
    BY <1>9, <1>ty, OthersQuiet DEF Step
  <2>1. /\ pc[p] = "run.finish" /\ pc'[p] = "run.next"
        /\ input' = input /\ seen' = seen
        /\ pos[p] \in Nat /\ pos'[p] = pos[p] + 1
        /\ UpdateState(p, cur[p], "applied")
    BY <1>9, <1>ty DEF FinishRecord, Goto, TypeOK
  <2>2. Working(p) /\ pc[p] \in ClaimLabel /\ pc[p] \in RunLabel
    BY <2>1 DEF Working, WorkLabel, ClaimLabel, RunLabel
  <2>3. cur[p] \in RowId /\ cur[p] \in Started(table)
    BY <2>1, <2>2, <1>st
  <2>4. /\ Keeps(cur[p])
        /\ cur[p] \in Recorded(table') \ Started(table')
        /\ table'.row[cur[p]].hash = table.row[cur[p]].hash
    BY <2>1, <2>3, <1>ty, UpdateKeeps
  <2>5. /\ pos[p] \in DOMAIN input[p]
        /\ cur[p] = Key(TheFile(p))
        /\ table.row[cur[p]].hash = TheFile(p).hash
    BY <2>2, <1>or DEF Ordered, Claimed
  <2>6. TheFile(p) \in Files
    BY <2>2, <2>5, <1>or DEF Ordered, Snapshot, Files, TheFile
  <2>7. TheFile(p).hash # NoHash
    BY <2>6 DEF Hashed
  <2>8. ByHash(table', TheFile(p))
    BY <2>4, <2>5, <2>7 DEF ByHash, Key, MigrationIdentity
  <2>9. Keyed(table') /\ Chronological(table')
    BY <2>4 DEF Keeps, WellKept
  <2>10. Done(table', input[p][pos[p]])
    BY <2>7, <2>8, <2>9, DoneEither DEF TheFile
  <2>11. Snapshot(p)'
    BY <2>1, <2>2, <2>3, <2>4, <1>or, SnapshotKeeps DEF Ordered
  <2>12. \A k \in 1..(pos[p] - 1) :
           k \in DOMAIN input[p] /\ Done(table', input[p][k])
    BY <2>2, <2>3, <2>4, <1>or, PassedKeeps DEF Ordered
  <2>13. \A k \in 1..pos[p] : k \in 1..(pos[p] - 1) \/ k = pos[p]
    BY <2>1
  <2>14. pos[p] + 1 - 1 = pos[p]
    BY <2>1
  <2>15. Passed(p)'
    BY <2>1, <2>5, <2>10, <2>12, <2>13, <2>14 DEF Passed
  <2>16. Claimed(p)'
    BY <2>1 DEF Claimed, ClaimLabel
  <2> QED
    BY <2>0, <2>2, <2>3, <2>4, <2>11, <2>15, <2>16, <1>2 DEF Ordered
<1>10. ASSUME NEW p \in Proc, MarkWrite(p) \/ RemoveWrite(p) PROVE Ordering'
  <2>0. \A q \in Proc \ {p} : Quiet(q)
    BY <1>10, <1>ty, OthersQuiet DEF Step
  <2>1. pc[p] \in RepairLabel /\ pc[p] # "revert.mark" /\ Return(p)
    BY <1>10 DEF MarkWrite, RemoveWrite, RepairLabel
  <2>2. Working(p)
    BY <2>1 DEF Working, WorkLabel
  <2>3. cur[p] \in RowId /\ cur[p] \in Started(table)
    BY <2>1, <2>2, <1>st
  <2>4. Keeps(cur[p])
    BY <1>10, <2>3, <1>ty, UpdateKeeps, DeleteKeeps DEF MarkWrite, RemoveWrite
  <2>5. pc'[p] \notin RunLabel
    BY <2>1, <1>ty DEF Return, Goto, TypeOK, RunLabel
  <2> QED
    BY <2>0, <2>2, <2>3, <2>4, <2>5, <1>2, IdleOrdered
<1>11. ASSUME NEW p \in Proc,
              \/ \E list \in Inputs : Revert(p, list)
              \/ StartRecord(p) \/ DownBegin(p) \/ DownEnd(p) \/ RevertDone(p)
       PROVE  FALSE
  <2>1. p \in Reverter \/ pc[p] \in RevertLabel
    BY <1>11 DEF Revert, StartRecord, DownBegin, DownEnd, RevertDone, RevertLabel
  <2> QED
    BY <2>1 DEF IInv, Allowed
<1>12. ASSUME NEW p \in Proc, Call(p) PROVE Ordering'
  BY <1>12, <1>3, <1>11 DEF Call
<1>13. ASSUME NEW p \in Proc, Resolve(p) PROVE Ordering'
  <2>0. \A q \in Proc \ {p} : Quiet(q)
    BY <1>13, <1>ty, OthersQuiet
  <2> QED
    BY <2>0, <1>13, <1>6
    DEF Resolve, MarkMigrationApplied, RemoveMigrationRecord, RepairLabel
<1>14. ASSUME NEW p \in Proc, Step(p) \/ Abort(p) PROVE Ordering'
  <2>0. \A q \in Proc \ {p} : Quiet(q)
    BY <1>14, <1>ty, OthersQuiet
  <2>1. CASE RefuseChanged(p) \/ LoseClaim(p) \/ RunDone(p) \/ Abort(p)
    BY <2>0, <2>1, <1>7 DEF RefuseChanged, LoseClaim, RunDone, Abort
  <2> QED
    BY <2>1, <1>14, <1>4, <1>5, <1>8, <1>9, <1>10, <1>11 DEF Step
<1>15. CASE UNCHANGED vars
  <2>1. table' = table /\ \A q \in Proc : Quiet(q)
    BY <1>15 DEF vars, Quiet
  <2>2. WellKept' /\ Inserted'
    BY <2>1, <1>ty DEF WellKept, Inserted
  <2> QED
    BY <2>1, <2>2, <1>or, QuietSame DEF Ordering
<1> QED
  BY <1>12, <1>13, <1>14, <1>15 DEF Next

(* The order of a run holds for any number of runners, operators and clocks: *)
(* when up() of an entry is called, each earlier entry of its list is       *)
(* applied and nobody is at work on it.  It takes that no process reverts   *)
(* and no row is resolved in haste, and tables as the runner leaves them.   *)
THEOREM OrderedRuns ==
  ASSUME Reverter = {}, Hashed, Kept
  PROVE  Spec => []OrderedApplication
<1>0. SerialReverts
  BY DEF SerialReverts
<1> DEFINE I == hasty = {} => Ordering
<1>1. Init => I
  BY OrderingInit
<1>2. IInv /\ I /\ [Next]_vars => I'
  BY OrderingStep, HasteGrows
<1>3. IInv /\ I => OrderedApplication
  <2> SUFFICES ASSUME IInv, I, hasty = {}, NEW p \in Proc,
                      pc[p] \in RunLabel \ {"run.next"},
                      NEW k \in 1..(pos[p] - 1)
               PROVE  Done(table, input[p][k])
    BY DEF OrderedApplication, Done
  <2> QED
    BY DEF Ordering, Ordered, Passed
<1> QED
  BY <1>0, <1>1, <1>2, <1>3, Inductive, PTL DEF Spec

-----------------------------------------------------------------------------
(* migration:check against migration:run.  A row with a hash stays under    *)
(* its key and the rows stay in an order, whoever runs, reverts, repairs.   *)
Tidy(t) == Chronological(t) /\ Keyed(t)

LEMMA StampedTidy ==
  ASSUME table \in Table, Tidy(table), NEW id \in RowId, NEW r \in Row,
         NEW p, NEW later \in Later(p, id),
         r.hash # NoHash => id = DeriveRowId[r.hash],
         table' = Stamped(id, r, later)
  PROVE  Tidy(table)'
<1>1. Chronological(table')
  BY StampedOrder DEF Tidy
<1>2. table'.row = [table.row EXCEPT ![id] = r] /\ table.row \in [RowId -> Row \cup {NoRow}]
  BY StampedTable DEF Table
<1>3. Keyed(table')
  BY <1>2 DEF Keyed, Recorded, Tidy
<1> QED
  BY <1>1, <1>3 DEF Tidy, Chronological, Keyed

LEMMA UpdateTidy ==
  ASSUME table \in Table, Tidy(table), NEW id \in RowId, NEW p,
         NEW s \in {"started", "applied"}, UpdateState(p, id, s)
  PROVE  Tidy(table)'
<1>1. CASE table.row[id] = NoRow
  <2>1. table' = table
    BY <1>1 DEF UpdateState
  <2> QED
    BY <2>1 DEF Tidy, Chronological, Keyed
<1>2. CASE table.row[id] # NoRow
  <2> DEFINE r == [table.row[id] EXCEPT !.state = s]
  <2>1. PICK later \in Later(p, id) : table' = Stamped(id, r, later)
    BY <1>2 DEF UpdateState
  <2>2. r \in Row /\ r.hash = table.row[id].hash
    BY <1>2, RowIsNotNoRow DEF Row
  <2>3. r.hash # NoHash => id = DeriveRowId[r.hash]
    BY <2>2, <1>2 DEF Tidy, Keyed, Recorded
  <2> HIDE DEF r
  <2> QED
    BY <2>1, <2>2, <2>3, StampedTidy
<1> QED
  BY <1>1, <1>2

LEMMA DeleteTidy ==
  ASSUME table \in Table, Tidy(table), NEW id \in RowId, DeleteRecord(id)
  PROVE  Tidy(table)'
<1>1. Chronological(table')
  BY DeleteElsewhere DEF Tidy
<1>2. Keyed(table')
  BY DeleteEffect, NoRowAssumption DEF Tidy, Keyed, Recorded, Table
<1> QED
  BY <1>1, <1>2 DEF Tidy, Chronological, Keyed

(* What a claim records is a file of a list runners are called with.       *)
LEMMA ClaimWrites ==
  ASSUME TypeOK, Hashed, NEW p \in Proc, Claim(p)
  PROVE  LET g == TheFile(p)
             r == [name |-> g.name, hash |-> g.hash, state |-> "started"]
         IN  /\ g \in Files /\ g.hash # NoHash
             /\ Key(g) = DeriveRowId[g.hash] /\ Key(g) \in RowId /\ r \in Row
             /\ \E later \in Later(p, Key(g)) : table' = Stamped(Key(g), r, later)
<1>1. AtFile(p)
  BY DEF Claim
<1>2. input[p] \in Inputs
  BY <1>1 DEF AtFile, TypeOK
<1>3. TheFile(p) \in Files
  BY <1>1, <1>2 DEF AtFile, TheFile, Files
<1>4. TheFile(p).hash # NoHash
  BY <1>3 DEF Hashed
<1>5. Key(TheFile(p)) = DeriveRowId[TheFile(p).hash]
  BY <1>4 DEF Key, MigrationIdentity
<1> QED
  BY <1>1, <1>3, <1>4, <1>5, ClaimedRow DEF Claim, InsertRecord

(* Only these write the table.                                             *)
Writes(p) ==
  Claim(p) \/ FinishRecord(p) \/ StartRecord(p) \/ RevertDone(p) \/ MarkWrite(p) \/ RemoveWrite(p)

LEMMA ReadersWriteNothing ==
  ASSUME [Next]_vars, \A p \in Proc : ~Writes(p)
  PROVE  table' = table
<1>1. CASE UNCHANGED vars
  BY <1>1 DEF vars
<1>2. CASE Next
  <2>1. PICK p \in Proc : Call(p) \/ Resolve(p) \/ Step(p) \/ Abort(p)
    BY <1>2 DEF Next
  <2>2. CASE Call(p)
    BY <2>2 DEF Call, Run, Revert
  <2>3. CASE Resolve(p)
    BY <2>3 DEF Resolve, MarkMigrationApplied, RemoveMigrationRecord, Repair
  <2>4. CASE Step(p)
    BY <2>4 DEF Step, Writes, SkipMatched, RefuseChanged, LoseClaim, UpBegin, UpEnd,
                RunDone, DownBegin, DownEnd
  <2>5. CASE Abort(p)
    BY <2>5 DEF Abort
  <2> QED
    BY <2>1, <2>2, <2>3, <2>4, <2>5
<1> QED
  BY <1>1, <1>2

LEMMA TidyStep ==
  ASSUME Hashed
  PROVE  IInv /\ Tidy(table) /\ [Next]_vars => Tidy(table)'
<1> SUFFICES ASSUME IInv, Tidy(table), [Next]_vars PROVE Tidy(table)'
  OBVIOUS
<1>1. TypeOK /\ table \in Table
  BY DEF IInv, TypeOK
<1>2. ASSUME NEW p \in Proc, Working(p) PROVE cur[p] \in RowId
  BY <1>2 DEF IInv, Placed
<1>3. ASSUME NEW p \in Proc, Claim(p) PROVE Tidy(table)'
  <2> DEFINE g == TheFile(p)
             id == Key(g)
             r == [name |-> g.name, hash |-> g.hash, state |-> "started"]
  <2>1. /\ id = DeriveRowId[g.hash] /\ id \in RowId /\ r \in Row
        /\ \E later \in Later(p, id) : table' = Stamped(id, r, later)
    BY <1>1, <1>3, ClaimWrites
  <2>2. r.hash = g.hash
    OBVIOUS
  <2> HIDE DEF id, r, g
  <2> QED
    BY <1>1, <2>1, <2>2, StampedTidy
<1>4. ASSUME NEW p \in Proc, FinishRecord(p) \/ StartRecord(p) \/ MarkWrite(p)
      PROVE  Tidy(table)'
  <2>1. \E s \in {"started", "applied"} : UpdateState(p, cur[p], s)
    BY <1>4 DEF FinishRecord, StartRecord, MarkWrite
  <2>2. Working(p)
    BY <1>4 DEF FinishRecord, StartRecord, MarkWrite, Working, WorkLabel, ClaimLabel,
                RunLabel, RevertLabel, RepairLabel
  <2> QED
    BY <1>1, <1>2, <2>1, <2>2, UpdateTidy
<1>5. ASSUME NEW p \in Proc, RevertDone(p) \/ RemoveWrite(p)
      PROVE  Tidy(table)'
  <2>1. DeleteRecord(cur[p])
    BY <1>5 DEF RevertDone, RemoveWrite
  <2>2. Working(p)
    BY <1>5 DEF RevertDone, RemoveWrite, Working, WorkLabel, ClaimLabel,
                RunLabel, RevertLabel, RepairLabel
  <2> QED
    BY <1>1, <1>2, <2>1, <2>2, DeleteTidy
<1>6. CASE \A p \in Proc : ~Writes(p)
  <2>1. table' = table
    BY <1>6, ReadersWriteNothing
  <2> QED
    BY <2>1 DEF Tidy, Chronological, Keyed
<1> QED
  BY <1>3, <1>4, <1>5, <1>6 DEF Writes

LEMMA MatchParts ==
  ASSUME NEW t, Tidy(t), NEW f
  PROVE  LET m == MatchAppliedRecord(t, f)
         IN  /\ m.kind \in {"matched", "changed", "pending"}
             /\ m.kind # "pending" => m.id \in Recorded(t)
<1>1. CASE WithHash(t, f.hash) # {}
  <2> DEFINE k == DeriveRowId[f.hash]
  <2>1. f.hash # NoHash
    BY <1>1 DEF WithHash
  <2>2. WithHash(t, f.hash) = {k} /\ k \in Recorded(t)
    BY <1>1, <2>1, OneWithHash DEF Tidy, WithHash
  <2> HIDE DEF k
  <2>3. The(Newest(t, {k})) = k
    <3>1. Newest(t, {k}) = {k}
      BY DEF Newest
    <3> QED
      BY <3>1, TheSingle
  <2>4. MatchAppliedRecord(t, f) = [kind |-> "matched", id |-> k]
    BY <2>2, <2>3 DEF MatchAppliedRecord
  <2> QED
    BY <2>2, <2>4
<1>2. CASE WithHash(t, f.hash) = {} /\ Named(t, f.name) = {}
  BY <1>2 DEF MatchAppliedRecord
<1>3. CASE WithHash(t, f.hash) = {} /\ Named(t, f.name) # {}
  <2>1. First(t, f.name) \in Recorded(t)
    BY <1>3, FirstNamed DEF Tidy, Named
  <2>2. \/ MatchAppliedRecord(t, f) = [kind |-> "matched", id |-> First(t, f.name)]
        \/ MatchAppliedRecord(t, f) = [kind |-> "changed", id |-> First(t, f.name)]
    BY <1>3 DEF MatchAppliedRecord, First
  <2> QED
    BY <2>1, <2>2
<1> QED
  BY <1>1, <1>2, <1>3

(* What a list adds to the reasons not to be ready.                        *)
FileReason(t, f) ==
  LET m == MatchAppliedRecord(t, f)
  IN  IF m.kind = "pending" THEN "pending"
      ELSE IF m.id \in Started(t) THEN "interrupted"
      ELSE IF m.kind = "changed" THEN "modified" ELSE "ok"

LEMMA ReasonOfFile ==
  ASSUME NEW t, Tidy(t), NEW f
  PROVE  Reason(FileStatus(t, f)) = FileReason(t, f)
<1> DEFINE m == MatchAppliedRecord(t, f)
<1>1. /\ m.kind \in {"matched", "changed", "pending"}
      /\ m.kind # "pending" => m.id \in Recorded(t)
  BY MatchParts
<1>2. m.kind # "pending" => (m.id \in Started(t) <=> t.row[m.id].state = "started")
  BY <1>1 DEF Started
<1> QED
  BY <1>1, <1>2 DEF FileStatus, Reason, FileReason

LEMMA ReasonOfOrphan ==
  ASSUME NEW t, NEW i \in Recorded(t)
  PROVE  Reason(OrphanStatus(t.row[i])) = IF i \in Started(t) THEN "interrupted" ELSE "ok"
BY DEF OrphanStatus, Reason, Started

LEMMA ReasonsAre ==
  ASSUME NEW t, Tidy(t), NEW list
  PROVE  Reasons(t, list) =
           ({FileReason(t, list[k]) : k \in DOMAIN list}
              \cup {"interrupted" : i \in Orphans(t, list) \cap Started(t)}) \ {"ok"}
<1> DEFINE R == {FileReason(t, list[k]) : k \in DOMAIN list}
           O == {"interrupted" : i \in Orphans(t, list) \cap Started(t)}
<1>1. ASSUME NEW s \in ComputeMigrationStatuses(t, list), Reason(s) # "ok"
      PROVE  Reason(s) \in R \cup O
  <2>1. CASE \E k \in DOMAIN list : s = FileStatus(t, list[k])
    BY <2>1, ReasonOfFile
  <2>2. CASE \E i \in Orphans(t, list) : s = OrphanStatus(t.row[i])
    <3>1. PICK i \in Orphans(t, list) : s = OrphanStatus(t.row[i])
      BY <2>2
    <3>2. i \in Recorded(t)
      BY DEF Orphans
    <3>3. i \in Started(t) /\ Reason(s) = "interrupted"
      BY <1>1, <3>1, <3>2, ReasonOfOrphan
    <3> QED
      BY <3>3
  <2> QED
    BY <2>1, <2>2 DEF ComputeMigrationStatuses
<1>2. ASSUME NEW k \in DOMAIN list
      PROVE  \E s \in ComputeMigrationStatuses(t, list) : Reason(s) = FileReason(t, list[k])
  BY ReasonOfFile DEF ComputeMigrationStatuses
<1>3. ASSUME NEW i \in Orphans(t, list) \cap Started(t)
      PROVE  \E s \in ComputeMigrationStatuses(t, list) : Reason(s) = "interrupted"
  <2>1. i \in Recorded(t) /\ Reason(OrphanStatus(t.row[i])) = "interrupted"
    BY ReasonOfOrphan DEF Orphans
  <2> QED
    BY <2>1 DEF ComputeMigrationStatuses
<1>4. Reasons(t, list) = {Reason(s) : s \in ComputeMigrationStatuses(t, list)} \ {"ok"}
  BY DEF Reasons
<1> QED
  BY <1>1, <1>2, <1>3, <1>4

(* If nothing is hidden, an interrupted migration is a reason.             *)
LEMMA InterruptionsShow ==
  ASSUME NEW t, Tidy(t), NEW list, Hidden(t, list) = {}
  PROVE  "interrupted" \in Reasons(t, list) <=> Started(t) # {}
<1>1. ASSUME NEW i \in Started(t) PROVE "interrupted" \in Reasons(t, list)
  <2>1. CASE i \in Orphans(t, list)
    BY <2>1, ReasonsAre
  <2>2. CASE i \notin Orphans(t, list)
    <3>1. PICK k \in DOMAIN list : /\ MatchAppliedRecord(t, list[k]).kind # "pending"
                                   /\ MatchAppliedRecord(t, list[k]).id = i
      BY <2>2 DEF Hidden
    <3>2. FileReason(t, list[k]) = "interrupted"
      BY <3>1 DEF FileReason
    <3> QED
      BY <3>2, ReasonsAre
  <2> QED
    BY <2>1, <2>2
<1>2. ASSUME Started(t) = {} PROVE "interrupted" \notin Reasons(t, list)
  <2>1. \A k \in DOMAIN list : FileReason(t, list[k]) # "interrupted"
    BY <1>2 DEF FileReason
  <2> QED
    BY <1>2, <2>1, ReasonsAre
<1> QED
  BY <1>1, <1>2

(* ... and otherwise the reasons are the files that are not matched.       *)
LEMMA FilesShow ==
  ASSUME NEW t, Tidy(t), NEW list, Started(t) = {}
  PROVE  LET kind(k) == MatchAppliedRecord(t, list[k]).kind
         IN  /\ "modified" \in Reasons(t, list) <=> \E k \in DOMAIN list : kind(k) = "changed"
             /\ "pending" \in Reasons(t, list) <=> \E k \in DOMAIN list : kind(k) = "pending"
             /\ Reasons(t, list) \subseteq {"modified", "pending"}
<1> DEFINE kind(k) == MatchAppliedRecord(t, list[k]).kind
<1>1. \A k \in DOMAIN list :
        /\ kind(k) \in {"matched", "changed", "pending"}
        /\ FileReason(t, list[k]) = IF kind(k) = "pending" THEN "pending"
                                    ELSE IF kind(k) = "changed" THEN "modified" ELSE "ok"
  BY MatchParts DEF FileReason
<1>2. Reasons(t, list) = {FileReason(t, list[k]) : k \in DOMAIN list} \ {"ok"}
  BY ReasonsAre
<1> HIDE DEF kind
<1> QED
  BY <1>1, <1>2 DEF kind

LEMMA ReasonKinds ==
  ASSUME NEW t, Tidy(t), NEW list
  PROVE  Reasons(t, list) \subseteq {"interrupted", "modified", "pending"}
<1>1. \A k \in DOMAIN list :
        FileReason(t, list[k]) \in {"interrupted", "modified", "pending", "ok"}
  BY DEF FileReason
<1> QED
  BY <1>1, ReasonsAre

LEMMA StateOfCheck ==
  ASSUME NEW t, Tidy(t), NEW list
  PROVE  LET found == Reasons(t, list)
         IN  CheckState(t, list) = IF "interrupted" \in found THEN "interrupted"
                                   ELSE IF "modified" \in found THEN "modified"
                                   ELSE IF "pending" \in found THEN "pending" ELSE "ok"
<1>1. \/ "interrupted" \in Reasons(t, list)
      \/ "modified" \in Reasons(t, list) /\ "interrupted" \notin Reasons(t, list)
      \/ Reasons(t, list) = {"pending"}
      \/ Reasons(t, list) = {}
  BY ReasonKinds
<1> QED
  BY <1>1 DEF CheckState

(* The lists that reach run() from a directory.                            *)
LEMMA LoadedList ==
  ASSUME Hashed, NEW dir \in Directories, LoadMigrationsFromDir(dir) # Refused
  PROVE  /\ LoadMigrationsFromDir(dir) \in Inputs
         /\ NoDuplicates(LoadMigrationsFromDir(dir))
<1> DEFINE list == LoadMigrationsFromDir(dir)
<1>1. list \in Inputs
  BY DirectoriesAssumption
<1>2. \A k \in DOMAIN list : list[k].hash # NoHash
  BY <1>1 DEF Hashed, Files
<1>3. PICK files : /\ Loadable(files)
                   /\ list = [i \in DOMAIN files |->
                                [name |-> NameOf(files[i]), hash |-> files[i].content]]
  BY DEF LoadMigrationsFromDir
<1> HIDE DEF list
<1>4. DOMAIN list = DOMAIN files
  BY <1>3
<1>5. \A k \in DOMAIN list : /\ list[k].name = NameOf(files[k])
                             /\ MigrationIdentity(list[k]) = files[k].content
  BY <1>2, <1>3 DEF MigrationIdentity
<1>6. NoDuplicates(list)
  BY <1>3, <1>4, <1>5 DEF Loadable, NoDuplicates
<1> QED
  BY <1>1, <1>6 DEF list

LEMMA CodeForetells ==
  ASSUME NEW t, Tidy(t), Hashed, NEW dir \in Directories,
         NEW exists \in BOOLEAN, exists \/ Recorded(t) = {}, NEW drift \in Drift,
         LET list == LoadMigrationsFromDir(dir) IN list = Refused \/ Hidden(t, list) = {}
  PROVE  LET outcome == RunOutcome(t, dir)
             code    == CheckExitCode(dir, t, exists, drift)
         IN  /\ code \in {0, 3} => outcome = "nothing"
             /\ code = 1 => outcome = "applies"
             /\ code = 4 => outcome \in {"stops", "applies"}
             /\ code = 2 => outcome = "refuses"
             /\ code = 5 => outcome = "fails" \/ drift = "error"
<1> DEFINE list    == LoadMigrationsFromDir(dir)
           outcome == RunOutcome(t, dir)
           code    == CheckExitCode(dir, t, exists, drift)
           kind(k) == MatchAppliedRecord(t, list[k]).kind
           state   == VerdictState(t, exists, list, drift)
<1>1. CASE list = Refused \/ drift = "error"
  <2>1. code = 5 /\ (outcome = "fails" \/ drift = "error")
    BY <1>1 DEF CheckExitCode, CommandError, RunOutcome
  <2> HIDE DEF code, outcome
  <2> QED
    BY <2>1 DEF code, outcome
<1>2. CASE list # Refused /\ drift # "error"
  <2>1. list \in Inputs /\ NoDuplicates(list)
    BY <1>2, LoadedList
  <2>2. Hidden(t, list) = {}
    BY <1>2
  <2>3. code = MigrationStateExitCode(state)
    BY <1>2 DEF CheckExitCode
  <2>4. Started(t) # {} => outcome = "refuses"
    BY <1>2, <2>1 DEF RunOutcome
  <2>5. Started(t) = {} =>
          /\ outcome \in {"nothing", "stops", "applies"}
          /\ (\A k \in DOMAIN list : kind(k) = "matched") => outcome = "nothing"
          /\ (\E k \in DOMAIN list : kind(k) # "matched") => outcome # "nothing"
          /\ (\A k \in DOMAIN list : kind(k) # "changed") => outcome # "stops"
    BY <1>2, <2>1 DEF RunOutcome
  <2>6. \A k \in DOMAIN list : kind(k) \in {"matched", "changed", "pending"}
    BY MatchParts
  <2>7. Tidy(t) => /\ "interrupted" \in Reasons(t, list) <=> Started(t) # {}
    BY <2>2, InterruptionsShow
  <2>8. Started(t) = {} =>
          /\ "modified" \in Reasons(t, list) <=> \E k \in DOMAIN list : kind(k) = "changed"
          /\ "pending" \in Reasons(t, list) <=> \E k \in DOMAIN list : kind(k) = "pending"
    BY FilesShow
  <2>9. CheckState(t, list) = IF "interrupted" \in Reasons(t, list) THEN "interrupted"
                              ELSE IF "modified" \in Reasons(t, list) THEN "modified"
                              ELSE IF "pending" \in Reasons(t, list) THEN "pending" ELSE "ok"
    BY StateOfCheck
  <2>10. ~exists => /\ Started(t) = {}
                    /\ \A k \in DOMAIN list : kind(k) = "pending"
    BY DEF Started, MatchAppliedRecord, WithHash, Named
  <2>11. list = << >> <=> DOMAIN list = {}
    <3>1. list \in Seq(File)
      BY <2>1, InputsAssumption
    <3> HIDE DEF list
    <3> QED
      BY <3>1
  <2>12. LET s == IF exists THEN CheckState(t, list)
                  ELSE IF list = << >> THEN "ok" ELSE "pending"
         IN  state = IF s = "ok" /\ drift = "issues" THEN "schema-drift" ELSE s
    BY DEF VerdictState
  <2>13. /\ state = "ok" => code = 0
         /\ state = "schema-drift" => code = 3
         /\ state = "pending" => code = 1
         /\ state = "modified" => code = 4
         /\ state = "interrupted" => code = 2
    BY <2>3 DEF MigrationStateExitCode
  <2> HIDE DEF outcome, code, kind, state, list
  <2>14. \/ state \in {"ok", "schema-drift"} /\ outcome = "nothing"
         \/ state = "pending" /\ outcome = "applies"
         \/ state = "modified" /\ outcome \in {"stops", "applies"}
         \/ state = "interrupted" /\ outcome = "refuses"
    <3>1. CASE ~exists
      BY <3>1, <2>5, <2>10, <2>11, <2>12
    <3>2. CASE exists /\ Started(t) # {}
      BY <3>2, <2>4, <2>7, <2>9, <2>12
    <3>3. CASE exists /\ Started(t) = {}
      BY <3>3, <2>5, <2>6, <2>7, <2>8, <2>9, <2>12
    <3> QED
      BY <3>1, <3>2, <3>3
  <2>15. \/ code \in {0, 3} /\ outcome = "nothing"
         \/ code = 1 /\ outcome = "applies"
         \/ code = 4 /\ outcome \in {"stops", "applies"}
         \/ code = 2 /\ outcome = "refuses"
    BY <2>13, <2>14
  <2> QED
    BY <2>15 DEF code, outcome
<1> QED
  BY <1>1, <1>2

LEMMA ReportHolds ==
  ASSUME NEW t, Tidy(t), NEW list \in Inputs,
         NEW exists \in BOOLEAN, NEW drift \in Drift,
         NEW s, NEW H, \A i \in (Recorded(t) \ Started(t)) \ H : s[i] = "present"
  PROVE  LET report == BuildJsonReport(t, exists, list, drift)
         IN  /\ report.applied <=> report.exitCode \in {0, 3}
             /\ report.ready   <=> report.exitCode = 0
             /\ report.applied => report.appliedCount = report.total
             /\ \A k \in DOMAIN list :
                  report.migrations[k] =>
                    LET id == MatchAppliedRecord(t, list[k]).id
                    IN  id \in H \/ s[id] = "present"
<1> DEFINE state   == VerdictState(t, exists, list, drift)
           healthy == {k \in DOMAIN list : HealthilyApplied(Status(t, exists, list[k]))}
           report  == BuildJsonReport(t, exists, list, drift)
<1>1. report = [ready        |-> state = "ok",
                exitCode     |-> MigrationStateExitCode(state),
                total        |-> Len(list),
                appliedCount |-> Cardinality(healthy),
                applied      |-> BookkeepingApplied(t, exists, list),
                migrations   |-> [k \in DOMAIN list |-> k \in healthy]]
  BY DEF BuildJsonReport
<1>2. list \in Seq(File) /\ Len(list) \in Nat /\ DOMAIN list = 1..Len(list)
      /\ (list = << >> <=> Len(list) = 0)
  BY InputsAssumption
<1>3. CheckState(t, list) \in {"interrupted", "modified", "pending", "ok"}
      /\ (CheckState(t, list) = "ok" <=> Reasons(t, list) = {})
  BY StateOfCheck, ReasonKinds
<1>4. /\ state \in {"interrupted", "modified", "pending", "ok", "schema-drift"}
      /\ BookkeepingApplied(t, exists, list) <=> state \in {"ok", "schema-drift"}
  BY <1>3 DEF VerdictState, BookkeepingApplied
<1>5. /\ MigrationStateExitCode(state) \in {0, 3} <=> state \in {"ok", "schema-drift"}
      /\ MigrationStateExitCode(state) = 0 <=> state = "ok"
  BY <1>4 DEF MigrationStateExitCode
<1>6. ASSUME NEW k \in DOMAIN list, HealthilyApplied(Status(t, exists, list[k]))
      PROVE  LET id == MatchAppliedRecord(t, list[k]).id
             IN  id \in H \/ s[id] = "present"
  <2> DEFINE m == MatchAppliedRecord(t, list[k])
  <2>1. m.kind = "matched" /\ t.row[m.id].state # "started"
    BY <1>6 DEF HealthilyApplied, Status, FileStatus, NotThere
  <2>2. m.id \in Recorded(t) \ Started(t)
    BY <2>1, MatchParts DEF Started
  <2> QED
    BY <2>2
<1>7. ASSUME BookkeepingApplied(t, exists, list)
      PROVE  Cardinality(healthy) = Len(list)
  <2>1. \A k \in DOMAIN list : HealthilyApplied(Status(t, exists, list[k]))
    <3>1. CASE ~exists
      BY <3>1, <1>2, <1>7 DEF BookkeepingApplied
    <3>2. CASE exists
      <4> TAKE k \in DOMAIN list
      <4>0. Reasons(t, list) = {}
        BY <3>2, <1>7 DEF BookkeepingApplied
      <4>1. FileReason(t, list[k]) = "ok"
        <5>1. Reasons(t, list) =
                ({FileReason(t, list[j]) : j \in DOMAIN list}
                   \cup {"interrupted" : i \in Orphans(t, list) \cap Started(t)}) \ {"ok"}
          BY ReasonsAre
        <5> QED
          BY <4>0, <5>1
      <4> DEFINE m == MatchAppliedRecord(t, list[k])
      <4>2. /\ m.kind = "matched" /\ m.id \in Recorded(t) /\ m.id \notin Started(t)
        <5>1. m.kind \notin {"pending", "changed"} /\ m.id \notin Started(t)
          BY <4>1 DEF FileReason
        <5>2. /\ m.kind \in {"matched", "changed", "pending"}
              /\ m.kind # "pending" => m.id \in Recorded(t)
          BY MatchParts
        <5> HIDE DEF m
        <5> QED
          BY <5>1, <5>2
      <4>3. t.row[m.id].state # "started"
        BY <4>2 DEF Started
      <4> QED
        BY <3>2, <4>2, <4>3 DEF Status, FileStatus, HealthilyApplied
    <3> QED
      BY <3>1, <3>2
  <2>2. healthy = 1..Len(list)
    BY <2>1, <1>2
  <2>3. Cardinality(1..Len(list)) = Len(list)
    <3>1. Cardinality(1..Len(list)) = IF 1 > Len(list) THEN 0 ELSE Len(list) - 1 + 1
      BY <1>2, FS_Interval
    <3> QED
      BY <3>1, <1>2
  <2> QED
    BY <2>2, <2>3
<1> HIDE DEF state, healthy, report
<1>8. \A k \in DOMAIN list : report.migrations[k] <=> k \in healthy
  BY <1>1
<1>9. \A k \in healthy : k \in DOMAIN list /\ HealthilyApplied(Status(t, exists, list[k]))
  BY DEF healthy
<1>10. /\ report.applied <=> report.exitCode \in {0, 3}
       /\ report.ready   <=> report.exitCode = 0
       /\ report.applied => report.appliedCount = report.total
  BY <1>1, <1>4, <1>5, <1>7
<1>11. \A k \in DOMAIN list :
         report.migrations[k] =>
           LET id == MatchAppliedRecord(t, list[k]).id
           IN  id \in H \/ s[id] = "present"
  BY <1>6, <1>8, <1>9
<1> QED
  BY <1>10, <1>11 DEF report

(* A verdict on a directory from which a row is hidden is no verdict: run() *)
(* looks at all rows and refuses.  On any other it is right.                *)
LEMMA Foretold == ASSUME Hashed, IInv, Tidy(table) PROVE VerdictForetellsRun
<1>1. \A exists \in MayExist : exists \in BOOLEAN /\ (exists \/ Recorded(table) = {})
  BY DEF MayExist
<1>2. ASSUME NEW dir \in Directories, LoadMigrationsFromDir(dir) # Refused,
             Hidden(table, LoadMigrationsFromDir(dir)) # {}
      PROVE  RunOutcome(table, dir) = "refuses"
  <2>1. Started(table) # {}
    BY <1>2 DEF Hidden
  <2> QED
    BY <1>2, <2>1, LoadedList DEF RunOutcome
<1>3. ExitCodeForetells
  <2> SUFFICES ASSUME NEW dir \in Directories,
                      \/ LoadMigrationsFromDir(dir) = Refused
                      \/ Hidden(table, LoadMigrationsFromDir(dir)) = {},
                      NEW exists \in MayExist, NEW drift \in Drift
               PROVE  LET outcome == RunOutcome(table, dir)
                          code    == CheckExitCode(dir, table, exists, drift)
                      IN  /\ code \in {0, 3} => outcome = "nothing"
                          /\ code = 1 => outcome = "applies"
                          /\ code = 4 => outcome \in {"stops", "applies"}
                          /\ code = 2 => outcome = "refuses"
                          /\ code = 5 => outcome = "fails" \/ drift = "error"
    BY <1>2 DEF ExitCodeForetells
  <2> QED
    BY <1>1, CodeForetells
<1>4. \A i \in (Recorded(table) \ Started(table)) \ hasty : schema[i] = "present"
  <2> SUFFICES ASSUME NEW i \in Recorded(table), i \notin Started(table), i \notin hasty
               PROVE  schema[i] = "present"
    OBVIOUS
  <2>1. i \in RowId /\ table.row[i] # NoRow /\ table.row[i] \in Row
    BY RowIsNotNoRow DEF Recorded, IInv, TypeOK
  <2>2. table.row[i].state = "applied"
    BY <2>1 DEF Started, Row
  <2> QED
    BY <2>1, <2>2 DEF IInv, Ledger
<1>5. ReportIsTrue
  BY <1>1, <1>4, ReportHolds DEF ReportIsTrue
<1> QED
  BY <1>3, <1>5 DEF VerdictForetellsRun

(* A deployment can trust migration:check, and its report, at every moment, *)
(* whatever any number of runners and operators and one reverter are in the *)
(* middle of, with files renamed, edited, copied and removed, except where  *)
(* it names the exception: a list from which a `started` row is hidden is   *)
(* refused, and a row resolved in haste may lie.                            *)
THEOREM VerdictHolds ==
  ASSUME SerialReverts, Hashed, \A t \in InitRows : Tidy(t)
  PROVE  Spec => []VerdictForetellsRun
<1>1. Init => Tidy(table)
  BY DEF Init
<1>2. IInv /\ Tidy(table) /\ [Next]_vars => Tidy(table)'
  BY TidyStep
<1>3. IInv /\ Tidy(table) => VerdictForetellsRun
  BY Foretold
<1> QED
  BY <1>1, <1>2, <1>3, Inductive, PTL DEF Spec

(* A name and a hash go together: no file is ever renamed, edited or copied. *)
Unedited == \A f, g \in Files : f.name = g.name <=> f.hash = g.hash

(* A `started` row is of a file.                                           *)
FromFile == \A i \in Started(table) :
  \E g \in Files : table.row[i].name = g.name /\ table.row[i].hash = g.hash

LEMMA FromFileStep ==
  ASSUME Reverter = {}, Hashed
  PROVE  IInv /\ FromFile /\ [Next]_vars => FromFile'
<1> SUFFICES ASSUME IInv, FromFile, [Next]_vars PROVE FromFile'
  OBVIOUS
<1>1. TypeOK /\ table \in Table
  BY DEF IInv, TypeOK
<1>2. ASSUME NEW p \in Proc, Working(p)
      PROVE  cur[p] \in RowId
  BY <1>2 DEF IInv, Placed
<1>3. ASSUME NEW p \in Proc, Claim(p) PROVE FromFile'
  <2> DEFINE g == TheFile(p)
             id == Key(g)
             r == [name |-> g.name, hash |-> g.hash, state |-> "started"]
  <2>1. /\ g \in Files /\ id \in RowId /\ r \in Row
        /\ \E later \in Later(p, id) : table' = Stamped(id, r, later)
    BY <1>1, <1>3, ClaimWrites
  <2>2. r.hash = g.hash /\ r.name = g.name
    OBVIOUS
  <2> HIDE DEF id, r, g
  <2>3. table'.row = [table.row EXCEPT ![id] = r] /\ table.row \in [RowId -> Row \cup {NoRow}]
    BY <1>1, <2>1, StampedTable DEF Table
  <2>4. ASSUME NEW i \in Started(table'), i # id PROVE i \in Started(table)
    BY <2>3, <2>4 DEF Started, Recorded
  <2>5. \A i \in Started(table') : i # id => table'.row[i] = table.row[i]
    BY <2>3 DEF Started, Recorded
  <2> QED
    BY <2>1, <2>2, <2>3, <2>4, <2>5 DEF FromFile
<1>4. ASSUME NEW p \in Proc, FinishRecord(p) \/ MarkWrite(p)
      PROVE  FromFile'
  <2>1. UpdateState(p, cur[p], "applied")
    BY <1>4 DEF FinishRecord, MarkWrite
  <2>2. Working(p)
    BY <1>4 DEF FinishRecord, MarkWrite, Working, WorkLabel, ClaimLabel,
                RunLabel, RevertLabel, RepairLabel
  <2>3. /\ \A i \in RowId \ {cur[p]} : table'.row[i] = table.row[i]
        /\ table.row[cur[p]] # NoRow => table'.row[cur[p]].state = "applied"
        /\ table.row[cur[p]] = NoRow => table'.row[cur[p]] = NoRow
    BY <1>1, <1>2, <2>1, <2>2, UpdateRows DEF UpdateState
  <2>4. \A i \in Started(table') : i \in Started(table) /\ table'.row[i] = table.row[i]
    BY <2>3 DEF Started, Recorded
  <2> QED
    BY <2>4 DEF FromFile
<1>5. ASSUME NEW p \in Proc, RemoveWrite(p) PROVE FromFile'
  <2>1. DeleteRecord(cur[p])
    BY <1>5 DEF RemoveWrite
  <2>2. Working(p)
    BY <1>5 DEF RemoveWrite, Working, WorkLabel, RepairLabel
  <2>3. table'.row = [table.row EXCEPT ![cur[p]] = NoRow] /\ table.row \in [RowId -> Row \cup {NoRow}]
    BY <1>1, <1>2, <2>1, <2>2, DeleteEffect DEF Table
  <2>4. \A i \in Started(table') : i \in Started(table) /\ table'.row[i] = table.row[i]
    BY <2>3 DEF Started, Recorded
  <2> QED
    BY <2>4 DEF FromFile
<1>6. ASSUME NEW p \in Proc PROVE ~StartRecord(p) /\ ~RevertDone(p)
  BY DEF IInv, Allowed, StartRecord, RevertDone, RevertLabel
<1>7. CASE \A p \in Proc : ~Writes(p)
  <2>1. table' = table
    BY <1>7, ReadersWriteNothing
  <2> QED
    BY <2>1 DEF FromFile
<1> QED
  BY <1>3, <1>4, <1>5, <1>6, <1>7 DEF Writes

LEMMA NothingIsHidden ==
  ASSUME Unedited, Hashed, Tidy(table), FromFile, NEW list \in Inputs
  PROVE  Hidden(table, list) = {}
<1> SUFFICES ASSUME NEW i \in Started(table) \ Orphans(table, list)
             PROVE  \E k \in DOMAIN list :
                      /\ MatchAppliedRecord(table, list[k]).kind # "pending"
                      /\ MatchAppliedRecord(table, list[k]).id = i
  BY DEF Hidden
<1>1. i \in Recorded(table)
  BY DEF Started
<1>2. PICK g \in Files : table.row[i].name = g.name /\ table.row[i].hash = g.hash
  BY DEF FromFile
<1>3. PICK k \in DOMAIN list : list[k].hash = g.hash \/ list[k].name = g.name
  BY <1>1, <1>2 DEF Orphans
<1>4. list[k] \in Files
  BY DEF Files
<1>5. list[k].hash = g.hash /\ g.hash # NoHash
  BY <1>2, <1>3, <1>4 DEF Unedited, Hashed
<1>6. i \in WithHash(table, list[k].hash)
  BY <1>1, <1>2, <1>5 DEF WithHash
<1>7. WithHash(table, list[k].hash) = {i}
  BY <1>5, <1>6, OneWithHash DEF Tidy
<1>8. The(Newest(table, {i})) = i
  <2>1. Newest(table, {i}) = {i}
    BY DEF Newest
  <2> QED
    BY <2>1, TheSingle
<1>9. MatchAppliedRecord(table, list[k]) = [kind |-> "matched", id |-> i]
  BY <1>7, <1>8 DEF MatchAppliedRecord
<1> QED
  BY <1>9

(* With files that keep their names and contents, and nobody reverting, no  *)
(* row is ever hidden from a list, so that the verdict is right on all.     *)
THEOREM NothingHidden ==
  ASSUME Reverter = {}, Hashed, Unedited, \A t \in InitRows : Tidy(t)
  PROVE  Spec => [](\A list \in Inputs : Hidden(table, list) = {})
<1>0. SerialReverts
  BY DEF SerialReverts
<1> DEFINE Seen == \A list \in Inputs : Hidden(table, list) = {}
<1>1. Init => Tidy(table) /\ FromFile
  BY InitRowsAssumption DEF Init, FromFile
<1>2. IInv /\ Tidy(table) /\ FromFile /\ [Next]_vars => (Tidy(table) /\ FromFile)'
  BY TidyStep, FromFileStep
<1>3. Tidy(table) /\ FromFile => Seen
  BY NothingIsHidden
<1> QED
  BY <1>0, <1>1, <1>2, <1>3, Inductive, PTL DEF Spec
=============================================================================
