----------------------------- MODULE SchemaCheck -----------------------------
(***************************************************************************)
(* The comparison of an entity's expected schema with a described table    *)
(* (checkTableSchema of src/schema/schema-sync.ts), the statements sync()   *)
(* makes of it, and those of a generated migration (planMigration of        *)
(* src/migrations/migration-generator.ts).                                 *)
(*                                                                         *)
(* A schema and a table are records of one shape: the type of each column, *)
(* the key, the definition of each index, the TTL; None stands for what is  *)
(* not there.  TTL intervals are whole seconds.  The database is external: *)
(* Applies and Effect say when a statement is accepted and what it does.   *)
(***************************************************************************)
EXTENDS Naturals, Sequences, SequencesExt, FiniteSets

CONSTANTS
  Column,       \* column names
  Type,         \* primitive types
  Unsupported,  \* Decimal, List, ...: the type of no entity column
  Temporal,     \* the types a TTL column may have
  Blind,        \* the synthetic blind-index column of some columns
  Index,        \* index names
  None

ASSUME NamesAssumption ==
  /\ None \notin Type \cup {Unsupported}
  /\ Temporal \subseteq Type
  /\ DOMAIN Blind \subseteq Column

Has(s)     == {c \in Column : s.columns[c] # None}
Indexed(s) == {i \in Index : s.indexes[i] # None}

ExpectedIndex == [columns : Seq(Column), unique : BOOLEAN]
YdbTableTtl   == [column : Column, seconds : Nat]

Shape(types) == [columns : [Column -> types \cup {None}],
                 key     : Seq(Column),
                 indexes : [Index -> ExpectedIndex \cup {None}],
                 ttl     : YdbTableTtl \cup {None}]

(* The key, the indexes and the TTL are on columns that are there, the TTL  *)
(* on one of a type for it: of an entity that is checked when the schema is *)
(* built, and at startup; of a table the database sees to it.              *)
OnItsColumns(s) ==
  /\ Range(s.key) \subseteq Has(s)
  /\ \A i \in Indexed(s) : Range(s.indexes[i].columns) \subseteq Has(s)
  /\ s.ttl # None => s.columns[s.ttl.column] \in Temporal

ExpectedTableSchema ==
  {s \in Shape(Type) :
     OnItsColumns(s) /\ IsFiniteSet(Has(s)) /\ IsFiniteSet(Indexed(s))}

YdbTableDescription == {t \in Shape(Type \cup {Unsupported}) : OnItsColumns(t)}

ASSUME NoneAssumption == None \notin ExpectedIndex /\ None \notin YdbTableDescription

-----------------------------------------------------------------------------
(* checkTableSchema: s is expected, t exists. *)

MissingColumns(s, t) == Has(s) \ Has(t)
ExtraColumns(s, t)   == Has(t) \ Has(s)
TypeMismatches(s, t) == {c \in Has(s) \cap Has(t) : s.columns[c] # t.columns[c]}

PrimaryKeyMatches(s, t) == s.key = t.key

MissingIndexes(s, t) == Indexed(s) \ Indexed(t)
IndexColumnsMismatches(s, t) ==
  {i \in Indexed(s) \cap Indexed(t) : s.indexes[i].columns # t.indexes[i].columns}

TtlToSet(s, t) == s.ttl # None /\ s.ttl # t.ttl

InIndex(s, c) == \E i \in Indexed(s) : c \in Range(s.indexes[i].columns)
InTtl(s, c)   == s.ttl # None /\ s.ttl.column = c
InBlind(s, c) ==
  \/ c \in Range(Blind)
  \/ c \in DOMAIN Blind /\ Blind[c] \in Has(s)

(* Part of the table's structure: not the mere name of data.               *)
Structural(s, c) == c \in Range(s.key) \/ InIndex(s, c) \/ InTtl(s, c) \/ InBlind(s, c)

(* detectLikelyRenames: one column went, one of its type came. *)
LikelyRenames(s, t) ==
  {p \in ExtraColumns(s, t) \X MissingColumns(s, t) :
     /\ Cardinality(ExtraColumns(s, t)) = 1 /\ Cardinality(MissingColumns(s, t)) = 1
     /\ t.columns[p[1]] = s.columns[p[2]]
     /\ ~Structural(t, p[1]) /\ ~Structural(s, p[2])}

(* What no ALTER can mend. *)
Immutable(s, t) ==
  ~PrimaryKeyMatches(s, t) \/ TypeMismatches(s, t) # {} \/ IndexColumnsMismatches(s, t) # {}

(* verify(): nothing of the entity is missing in the table.  What the table *)
(* has besides, and the unique flag of an index, are reported but not       *)
(* altered.                                                                *)
Clean(s, t) ==
  /\ t # None /\ ~Immutable(s, t)
  /\ MissingColumns(s, t) = {} /\ MissingIndexes(s, t) = {} /\ ~TtlToSet(s, t)

-----------------------------------------------------------------------------
(* Statements. *)

CreateTable(s)    == [kind |-> "create", table |-> s]
DropTable         == [kind |-> "drop"]
AddColumns(s, C)  == [kind |-> "add columns", columns |-> [c \in C |-> s.columns[c]]]
DropColumn(c)     == [kind |-> "drop column", column |-> c]
AddIndex(s, i)    == [kind |-> "add index", index |-> i, as |-> s.indexes[i]]
DropIndex(i)      == [kind |-> "drop index", index |-> i]
SetTtl(ttl)       == [kind |-> "set ttl", ttl |-> ttl]
ResetTtl          == [kind |-> "reset ttl"]

Kinds == {"create", "drop", "add columns", "drop column", "add index", "drop index",
          "set ttl", "reset ttl"}

(* The database takes statement d on table t. *)
Applies(d, t) ==
  IF d.kind = "create" THEN t = None ELSE
    /\ t # None
    /\ d.kind = "add columns" => DOMAIN d.columns \cap Has(t) = {}
    /\ d.kind = "drop column" =>
         d.column \in Has(t) /\ d.column \notin Range(t.key)
           /\ ~InIndex(t, d.column) /\ ~InTtl(t, d.column)
    /\ d.kind = "add index" => t.indexes[d.index] = None /\ Range(d.as.columns) \subseteq Has(t)
    /\ d.kind = "drop index" => t.indexes[d.index] # None
    /\ d.kind = "set ttl" => t.columns[d.ttl.column] \in Temporal

Effect(d, t) ==
  CASE d.kind = "create"      -> d.table
    [] d.kind = "drop"        -> None
    [] d.kind = "add columns" ->
         [t EXCEPT !.columns = [c \in Column |->
            IF c \in DOMAIN d.columns THEN d.columns[c] ELSE @[c]]]
    [] d.kind = "drop column" -> [t EXCEPT !.columns[d.column] = None]
    [] d.kind = "add index"   -> [t EXCEPT !.indexes[d.index] = d.as]
    [] d.kind = "drop index"  -> [t EXCEPT !.indexes[d.index] = None]
    [] d.kind = "set ttl"     -> [t EXCEPT !.ttl = d.ttl]
    [] d.kind = "reset ttl"   -> [t EXCEPT !.ttl = None]

(* A list of statements run to its end, or to the first that is rejected.  *)
Replayed(ds, t) ==
  FoldLeft(LAMBDA run, d : IF run.ok /\ Applies(d, run.table)
                           THEN [run EXCEPT !.table = Effect(d, @)]
                           ELSE [run EXCEPT !.ok = FALSE],
           [ok |-> TRUE, table |-> t], ds)

-----------------------------------------------------------------------------
(* The statements of sync() and of a migration.                            *)

Columns(s, C) == IF C = {} THEN << >> ELSE <<AddColumns(s, C)>>
Indexes(s, I) == LET is == SetToSeq(I) IN [n \in 1..Len(is) |-> AddIndex(s, is[n])]
Ttl(s, t)     == IF TtlToSet(s, t) THEN <<SetTtl(s.ttl)>> ELSE << >>

(* Mutant: the column of a likely rename is left to the developer. *)
SyncPlanHonoursRenames(s, t) ==
  IF t = None THEN <<CreateTable(s)>>
  ELSE Columns(s, MissingColumns(s, t) \ {p[2] : p \in LikelyRenames(s, t)})
         \o Indexes(s, MissingIndexes(s, t)) \o Ttl(s, t)

(* Mutant: indexes come before the columns they are made on. *)
SyncPlanIndexesFirst(s, t) ==
  IF t = None THEN <<CreateTable(s)>>
  ELSE Indexes(s, MissingIndexes(s, t)) \o Columns(s, MissingColumns(s, t)) \o Ttl(s, t)

SyncPlan(s, t) ==
  IF t = None THEN <<CreateTable(s)>>
  ELSE Columns(s, MissingColumns(s, t)) \o Indexes(s, MissingIndexes(s, t)) \o Ttl(s, t)

(* planMigration: a likely rename is only suggested. *)
PlannedColumns(s, t) == MissingColumns(s, t) \ {p[2] : p \in LikelyRenames(s, t)}

PlannedUp(s, t) ==
  IF t = None THEN <<CreateTable(s)>>
  ELSE Columns(s, PlannedColumns(s, t)) \o Indexes(s, MissingIndexes(s, t)) \o Ttl(s, t)

TtlBack(s, t) == IF ~TtlToSet(s, t) THEN << >>
                 ELSE IF t.ttl = None THEN <<ResetTtl>> ELSE <<SetTtl(t.ttl)>>
Dropped(I)    == LET is == Reverse(SetToSeq(I)) IN [n \in 1..Len(is) |-> DropIndex(is[n])]
Removed(C)    == LET cs == Reverse(SetToSeq(C)) IN [n \in 1..Len(cs) |-> DropColumn(cs[n])]

(* Mutant: push in place of unshift. *)
PlannedDownInOrder(s, t) ==
  IF t = None THEN <<DropTable>>
  ELSE Reverse(Removed(PlannedColumns(s, t))) \o Reverse(Dropped(MissingIndexes(s, t)))
         \o TtlBack(s, t)

PlannedDown(s, t) ==
  IF t = None THEN <<DropTable>>
  ELSE TtlBack(s, t) \o Dropped(MissingIndexes(s, t)) \o Removed(PlannedColumns(s, t))
=============================================================================
