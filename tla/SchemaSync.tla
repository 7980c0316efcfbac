----------------------------- MODULE SchemaSync -----------------------------
(***************************************************************************)
(* Replicas of an application that call YdbSchemaSyncer.sync() when they    *)
(* start (src/schema/schema-sync.ts), each with its version of the          *)
(* entities: for each table in turn, one DescribeTable and then the         *)
(* statements that bring the table to the entity, decided on that           *)
(* description.  No lock keeps the replicas apart.  A replica whose sync    *)
(* throws is started again by whatever runs it.                            *)
(***************************************************************************)
EXTENDS SchemaCheck

CONSTANTS
  Replica,
  Tables,     \* the names of the tables, in the order of the entity list
  Version,    \* versions of the entities: the schema of each table
  Initial,    \* what the database may hold before: a table, or None, of each
  MaxFaults   \* bound on failed calls and killed replicas

ASSUME SyncAssumption == MaxFaults \in Nat /\ Tables \in Seq(Range(Tables)) /\ Tables # << >>
ASSUME VersionAssumption == Version \subseteq [Range(Tables) -> ExpectedTableSchema]
ASSUME InitialAssumption ==
  Initial \subseteq [Range(Tables) -> YdbTableDescription \cup {None}]

VARIABLES
  tables,   \* the database
  version,  \* of each replica
  pc,
  at,       \* the table a replica is at
  plan,     \* the statements it has left for that table
  faults

vars == <<tables, version, pc, at, plan, faults>>

Expected(r) == version[r][Tables[at[r]]]
Existing(r) == tables[Tables[at[r]]]

TypeOK ==
  /\ tables \in [Range(Tables) -> YdbTableDescription \cup {None}]
  /\ version \in [Replica -> Version]
  /\ pc \in [Replica -> {"describe", "apply", "done", "failed"}]
  /\ at \in [Replica -> DOMAIN Tables]
  /\ \A r \in Replica : \A n \in DOMAIN plan[r] : plan[r][n].kind \in Kinds
  /\ faults \in 0..MaxFaults

Init ==
  /\ tables \in Initial
  /\ version \in [Replica -> Version]
  /\ pc = [r \in Replica |-> "describe"]
  /\ at = [r \in Replica |-> 1]
  /\ plan = [r \in Replica |-> << >>]
  /\ faults = 0

(* What is left for this table, then the next table, then the end. *)
Continue(r, rest) ==
  /\ plan' = [plan EXCEPT ![r] = rest]
  /\ pc' = [pc EXCEPT ![r] = IF rest # << >> THEN "apply" ELSE
                             IF at[r] < Len(Tables) THEN "describe" ELSE "done"]
  /\ at' = [at EXCEPT ![r] = IF rest = << >> /\ @ < Len(Tables) THEN @ + 1 ELSE @]

Throw(r) ==
  /\ pc' = [pc EXCEPT ![r] = "failed"]
  /\ plan' = [plan EXCEPT ![r] = << >>]
  /\ UNCHANGED at

Refused(r) == Existing(r) # None /\ Immutable(Expected(r), Existing(r))

Describe(r) ==
  /\ pc[r] = "describe"
  /\ ~Refused(r)
  /\ Continue(r, SyncPlan(Expected(r), Existing(r)))
  /\ UNCHANGED <<tables, version, faults>>

(* sync() throws before any statement for the table. *)
Refuse(r) ==
  /\ pc[r] = "describe"
  /\ Refused(r)
  /\ Throw(r)
  /\ UNCHANGED <<tables, version, faults>>

ExecuteDdl(r) ==
  /\ pc[r] = "apply"
  /\ Applies(Head(plan[r]), Existing(r))
  /\ tables' = [tables EXCEPT ![Tables[at[r]]] = Effect(Head(plan[r]), @)]
  /\ Continue(r, Tail(plan[r]))
  /\ UNCHANGED <<version, faults>>

(* The table is no longer the one that was described. *)
DdlRejected(r) ==
  /\ pc[r] = "apply"
  /\ ~Applies(Head(plan[r]), Existing(r))
  /\ Throw(r)
  /\ UNCHANGED <<tables, version, faults>>

(* A call fails without effect, or the replica is killed. *)
Fault(r) ==
  /\ pc[r] \in {"describe", "apply"}
  /\ faults < MaxFaults
  /\ faults' = faults + 1
  /\ Throw(r)
  /\ UNCHANGED <<tables, version>>

(* The statement is executed, its answer is lost. *)
AnswerLost(r) ==
  /\ pc[r] = "apply"
  /\ faults < MaxFaults
  /\ Applies(Head(plan[r]), Existing(r))
  /\ tables' = [tables EXCEPT ![Tables[at[r]]] = Effect(Head(plan[r]), @)]
  /\ faults' = faults + 1
  /\ Throw(r)
  /\ UNCHANGED version

Restart(r) ==
  /\ pc[r] = "failed"
  /\ pc' = [pc EXCEPT ![r] = "describe"]
  /\ at' = [at EXCEPT ![r] = 1]
  /\ UNCHANGED <<tables, version, plan, faults>>

Sync(r) == Describe(r) \/ Refuse(r) \/ ExecuteDdl(r) \/ DdlRejected(r)

Next == \E r \in Replica : Sync(r) \/ Restart(r) \/ Fault(r) \/ AnswerLost(r)

(* sync() goes on by itself, and a replica that died is started again.     *)
Fairness == \A r \in Replica : WF_vars(Sync(r)) /\ WF_vars(Restart(r))

Spec == Init /\ [][Next]_vars /\ Fairness

-----------------------------------------------------------------------------
(* A replica whose sync() is over has, and keeps, a table for each of its   *)
(* entities in which nothing it declares is missing or different, whatever  *)
(* the other replicas, of its own or of another version, do meanwhile.      *)
(* Versions that declare different TTLs of one table overwrite each other:  *)
(* then the TTL is left out.                                               *)
SameTtl(r, t) == \A q \in Replica : version[q][t].ttl \in {None, version[r][t].ttl}

SyncedStaysClean ==
  \A r \in Replica : pc[r] = "done" =>
    \A t \in Range(Tables) : tables[t] # None /\
      Clean(IF SameTtl(r, t) THEN version[r][t] ELSE [version[r][t] EXCEPT !.ttl = None],
            tables[t])

(* planMigration never throws and suppresses the column of a likely rename: *)
(* its up list is nevertheless accepted to the end by the table it was made *)
(* for, and leaves nothing missing but that column.  A column of another    *)
(* type, a different key or different index columns are left to the          *)
(* developer, and the first may make the TTL statement fail.                *)
PlanExecutes ==
  \A t \in Range(Tables) : \A v \in Version :
    LET s   == v[t]
        run == Replayed(PlannedUp(s, tables[t]), tables[t])
    IN  tables[t] = None \/ TypeMismatches(s, tables[t]) = {} =>
          /\ run.ok
          /\ MissingIndexes(s, run.table) = {} /\ ~TtlToSet(s, run.table)
          /\ tables[t] # None =>
               MissingColumns(s, run.table) \subseteq {p[2] : p \in LikelyRenames(s, tables[t])}

(* The down list of that plan, run after the up list, is accepted to the    *)
(* end and gives back the table as it was.                                 *)
PlanReverts ==
  \A t \in Range(Tables) : \A v \in Version :
    LET s  == v[t]
        up == Replayed(PlannedUp(s, tables[t]), tables[t])
    IN  up.ok => Replayed(PlannedDown(s, tables[t]), up.table) = [ok |-> TRUE, table |-> tables[t]]

(* A generated migration runs both ways.                                   *)
PlanRuns == PlanExecutes /\ PlanReverts

(* Describing before altering does not keep replicas from rejecting each    *)
(* other's statements, but what is lost is a start: in the end every        *)
(* replica has its tables, unless one of them can never be altered to its   *)
(* version.                                                                *)
Incompatible(r) ==
  \E t \in Range(Tables) : tables[t] # None /\ Immutable(version[r][t], tables[t])

EventuallySynced == \A r \in Replica : <>(pc[r] = "done" \/ Incompatible(r))
=============================================================================
