------------------------- MODULE MigrationMatching -------------------------
(***************************************************************************)
(* The pure half of the migration runner (src/migrations): how a migration *)
(* file is matched against the rows of `ydb_migrations`, and how the       *)
(* readiness check turns the matches into a verdict.                       *)
(*                                                                         *)
(* A file is its name and its content hash (NoHash for a migration object  *)
(* passed to the runner without one).  The bookkeeping table, `applied` in *)
(* the code, is                                                            *)
(*   row    what is stored under each primary key, NoRow where nothing is, *)
(*   older  the order byChronology gives the rows: timestamps are used for *)
(*          nothing but that order, so only the order is kept.             *)
(***************************************************************************)
EXTENDS Naturals, Sequences

CONSTANTS
  Name,         \* migration names
  Hash,         \* content hashes
  NoHash,       \* "hash" is undefined / NULL
  RowId,        \* values of the primary key
  NoRow,        \* no row under this key
  DeriveRowId   \* deriveMigrationRowId: identity -> row id

ASSUME NullAssumption == NoHash \notin Hash

File == [name : Name, hash : Hash \cup {NoHash}]
Row  == [name : Name, hash : Hash \cup {NoHash}, state : {"started", "applied"}]
Table == [row : [RowId -> Row \cup {NoRow}], older : SUBSET (RowId \X RowId)]

ASSUME NoRowAssumption == NoRow \notin Row /\ NoRow \notin RowId

MigrationIdentity(f) == IF f.hash # NoHash THEN f.hash ELSE f.name

ASSUME DeriveRowIdAssumption ==
  \A f \in File : DeriveRowId[MigrationIdentity(f)] \in RowId

Key(f) == DeriveRowId[MigrationIdentity(f)]

(* assertNoDuplicates: two entries with one name, or with one identity, are *)
(* rejected before the table is looked at.                                  *)
NoDuplicates(list) ==
  \A i, j \in DOMAIN list :
    i # j => /\ list[i].name # list[j].name
             /\ MigrationIdentity(list[i]) # MigrationIdentity(list[j])

Recorded(t) == {i \in RowId : t.row[i] # NoRow}
Started(t)  == {i \in Recorded(t) : t.row[i].state = "started"}

(* The first and the last of a set of rows in the order of byChronology, as *)
(* a set that is empty when there are none.                                 *)
Oldest(t, S) == {i \in S : \A j \in S \ {i} : <<i, j>> \in t.older}
Newest(t, S) == {i \in S : \A j \in S \ {i} : <<j, i>> \in t.older}

The(S) == CHOOSE i \in S : TRUE

WithHash(t, h) == {i \in Recorded(t) : t.row[i].hash = h /\ h # NoHash}
Named(t, n)    == {i \in Recorded(t) : t.row[i].name = n}

(* matchAppliedRecord: by content hash; else the first row of that name     *)
(* decides: it matches when either side has no hash or the hashes agree.    *)
MatchAppliedRecord(t, f) ==
  LET byHash == WithHash(t, f.hash)
      byName == Named(t, f.name)
      first  == The(Oldest(t, byName))
  IN  IF byHash # {}
        THEN [kind |-> "matched", id |-> The(Newest(t, byHash))]
      ELSE IF byName = {}
        THEN [kind |-> "pending", id |-> Key(f)]
      ELSE IF NoHash \in {t.row[first].hash, f.hash} \/ t.row[first].hash = f.hash
        THEN [kind |-> "matched", id |-> first]
      ELSE [kind |-> "changed", id |-> first]

(* resolveRecord: the first row with the target's hash, else the first row   *)
(* with its name.                                                           *)
ResolveRecord(t, f) ==
  Oldest(t, IF WithHash(t, f.hash) # {} THEN WithHash(t, f.hash)
                                        ELSE Named(t, f.name))

(* findMigrationForRecord: a row with a hash is found by hash only, a row   *)
(* of the format before hashes by name only.                                *)
FilesForRecord(list, r) ==
  {i \in DOMAIN list : IF r.hash # NoHash THEN list[i].hash = r.hash
                                          ELSE list[i].name = r.name}

-----------------------------------------------------------------------------
(* The readiness check (computeMigrationStatuses, evaluateMigrationCheck).  *)

(* recordMatchesMigration, negated: no file has the row's hash or its name. *)
Orphans(t, list) ==
  {i \in Recorded(t) :
     ~ \E k \in DOMAIN list :
         \/ t.row[i].hash # NoHash /\ list[k].hash = t.row[i].hash
         \/ t.row[i].name = list[k].name}

FileStatus(t, f) ==
  LET m == MatchAppliedRecord(t, f)
  IN  [applied        |-> m.kind = "matched" /\ t.row[m.id].state # "started",
       interrupted    |-> m.kind # "pending" /\ t.row[m.id].state = "started",
       contentChanged |-> m.kind = "changed",
       orphan         |-> FALSE]

OrphanStatus(r) ==
  [applied |-> r.state # "started", interrupted |-> r.state = "started",
   contentChanged |-> FALSE, orphan |-> TRUE]

ComputeMigrationStatuses(t, list) ==
  {FileStatus(t, list[k]) : k \in DOMAIN list}
    \cup {OrphanStatus(t.row[i]) : i \in Orphans(t, list)}

(* Mutant: every orphan is informational. *)
ReasonSkipsOrphans(s) ==
  IF s.orphan THEN "ok"
  ELSE IF s.interrupted THEN "interrupted"
  ELSE IF s.contentChanged THEN "modified"
  ELSE IF s.applied THEN "ok"
  ELSE "pending"

(* evaluateMigrationCheck: each status adds at most one reason; a clean     *)
(* orphan adds none.  (The schema-drift reason does not come from here.)    *)
Reason(s) ==
  IF s.orphan /\ ~s.interrupted /\ ~s.contentChanged THEN "ok"
  ELSE IF s.interrupted THEN "interrupted"
  ELSE IF s.contentChanged THEN "modified"
  ELSE IF s.applied THEN "ok"
  ELSE "pending"

Reasons(t, list) ==
  {Reason(s) : s \in ComputeMigrationStatuses(t, list)} \ {"ok"}

(* MIGRATION_CHECK_STATES: the first reason in priority order decides.      *)
CheckState(t, list) ==
  LET found == Reasons(t, list)
  IN  CASE "interrupted" \in found -> "interrupted"
        [] "modified" \in found /\ "interrupted" \notin found -> "modified"
        [] found = {"pending"} -> "pending"
        [] found = {} -> "ok"
=============================================================================
