-------------------------- MODULE EntityValidation --------------------------
(***************************************************************************)
(* Validation of the declared model when the module starts                 *)
(* (src/metadata/validate-entity.ts), the expected schemas                 *)
(* (src/schema/schema-sync.ts) and the relations that metadata:dump prints *)
(* (src/cli/metadata-dump.ts), over the resolvers of EntityModel.          *)
(***************************************************************************)
EXTENDS EntityModel

CONSTANTS ObjectTypes,   \* AAD_UNSAFE_TYPES: values without one string
          DateTypes,     \* DATE_LIKE_TTL_TYPES
          NumericTypes,  \* NUMERIC_TTL_TYPES
          Text           \* Utf8, the type of a blind index

(* blindIndexColumnName(): injective, and never a declared property.        *)
BlindIndexColumn(f) == <<f, "bi">>

BlindIndexes(m, C) ==
  {BlindIndexColumn(e.field) : e \in {e \in m.of[C].encrypted : e.blindIndex}}

(* validateYdbTtlAgainstSchema(): a column that exists, dates without a     *)
(* unit, numbers with one, nothing else.                                    *)
ValidTtl(ttl, columns) ==
  /\ ttl.column \in DOMAIN columns
  /\ \/ columns[ttl.column] \in DateTypes /\ ttl.unit = Unset
     \/ columns[ttl.column] \in NumericTypes \ DateTypes /\ ttl.unit # Unset

(* The parts of validateEntityMetadataIssues(), each the set of its codes.  *)
If(condition, code) == IF condition THEN {code} ELSE {}

KeyIssues(m, C) ==
  LET c == m.of[C]
  IN  If(c.pks = <<>>, "MISSING_PRIMARY_KEY")
      \cup If(~ Items(c.pks) \subseteq DOMAIN c.schema, "PRIMARY_KEY_UNDECLARED")
      \cup If(~ c.aad \subseteq Items(c.pks), "SECURITY_AAD_NOT_PRIMARY_KEY")
      \cup If(\E f \in c.aad \cap DOMAIN c.schema : c.schema[f] \in ObjectTypes,
              "SECURITY_AAD_UNSAFE_TYPE")
      \cup If(\E e \in c.encrypted : e.field \in Items(c.pks), "ENCRYPTED_PRIMARY_KEY")

ProviderIssues(m, C) ==
  LET c == m.of[C]
  IN  If(c.encrypted # {} /\ "encryption" \notin m.providers,
         "ENCRYPTION_PROVIDER_MISSING")
      \cup If(BlindIndexes(m, C) # {} /\ "blindIndex" \notin m.providers,
              "BLIND_INDEX_PROVIDER_MISSING")

ColumnIssues(m, C) ==
  LET c == m.of[C]
  IN  If(c.ttl # Unset /\ ~ ValidTtl(c.ttl, c.schema), "TTL_INVALID")
      \cup If(<<>> \in c.indexes, "INDEX_WITHOUT_COLUMNS")
      \cup If(\E index \in c.indexes :
                ~ Items(index) \subseteq DOMAIN c.schema \cup BlindIndexes(m, C),
              "INDEX_UNKNOWN_COLUMN")

(* validateRelation(), for a relation by a column of its own.               *)
JoinColumnIssues(m, C, r) ==
  LET column == ResolveRelationJoinColumn(r.joinColumn)
      holder == IF r.type = "one-to-many" THEN r.target ELSE C
  IN  IF column = Fault THEN {"RELATION_JOIN_COLUMN_INVALID"}
      ELSE If(~ HasColumn(m, holder, column), "RELATION_JOIN_COLUMN_MISPLACED")

(* ... and for a many-to-many relation: exactly one side has @JoinTable,    *)
(* and what it declares resolves.                                           *)
Back(m, C, r) ==
  {j \in DOMAIN Relations(m, r.target) :
     /\ Relations(m, r.target)[j].type = "many-to-many"
     /\ Relations(m, r.target)[j].target = C}

InverseRelation(m, C, r) ==
  Relations(m, r.target)[CHOOSE j \in Back(m, C, r) : \A k \in Back(m, C, r) : j <= k]

(* Mutant: validation counts the sides and resolves nothing.                *)
ManyToManyUnresolved(m, C, r) ==
  If(/\ r.prop \notin DOMAIN m.of[C].joins
     /\ Back(m, C, r) = {}, "M2M_NO_JOIN_TABLE")

ManyToManyIssues(m, C, r) ==
  LET ownJoin     == r.prop \in DOMAIN m.of[C].joins
      inverseJoin == /\ Back(m, C, r) # {}
                     /\ InverseRelation(m, C, r).prop \in DOMAIN m.of[r.target].joins
      declared    == IF ownJoin THEN JoinTableDefinition(m, C, r)
                     ELSE JoinTableDefinition(m, r.target, InverseRelation(m, C, r))
  IN  IF ownJoin /\ inverseJoin     THEN {"M2M_BOTH_JOIN_TABLES"}
      ELSE IF ~ (ownJoin \/ inverseJoin) THEN {"M2M_NO_JOIN_TABLE"}
      ELSE If(declared = Fault, "M2M_JOIN_TABLE_INVALID")

RelationIssues(m, C, r) ==
  IF ~ IsEntity(m, r.target)      THEN {"RELATION_TARGET_NOT_ENTITY"}
  ELSE IF r.type = "many-to-many" THEN ManyToManyIssues(m, C, r)
  ELSE JoinColumnIssues(m, C, r)

(* A @JoinTable on a property that is no many-to-many relation.             *)
StrayJoinTable(m, C) ==
  \E p \in DOMAIN m.of[C].joins :
    \A r \in Items(Relations(m, C)) : ~ (r.prop = p /\ r.type = "many-to-many")

(* validateEntityMetadataIssues()                                           *)
ValidateEntityMetadata(m, C) ==
  IF ~ IsEntity(m, C) THEN {"MISSING_ENTITY_DECORATOR"}
  ELSE KeyIssues(m, C) \cup ProviderIssues(m, C) \cup ColumnIssues(m, C)
         \cup If(StrayJoinTable(m, C), "JOIN_TABLE_WITHOUT_MANY_TO_MANY")
         \cup UNION {RelationIssues(m, C, r) : r \in Items(Relations(m, C))}

Accepted(m) == \A C \in Items(m.entities) : ValidateEntityMetadata(m, C) = {}
---------------------------------------------------------------------------
(* buildExpectedTableSchema(): the declared columns and the blind indexes.  *)
Columns(m, C) ==
  [c \in DOMAIN m.of[C].schema \cup BlindIndexes(m, C) |->
     IF c \in BlindIndexes(m, C) THEN Text ELSE m.of[C].schema[c]]

Buildable(m, C) ==
  LET c == m.of[C]
  IN  /\ c.pks # <<>>
      /\ Items(c.pks) \subseteq DOMAIN Columns(m, C)
      /\ c.ttl # Unset => ValidTtl(c.ttl, Columns(m, C))

ExpectedTable(m, C) ==
  [tableName |-> m.of[C].table, columns |-> Columns(m, C), primaryKey |-> m.of[C].pks]

(* buildExpectedJoinTableSchema(): one column of the two if they have one   *)
(* name, of the type that was written last.                                 *)
ExpectedJoinTable(d) ==
  [tableName  |-> d.tableName,
   columns    |-> [c \in {d.joinColumn, d.inverseColumn} |->
                     IF c = d.inverseColumn THEN d.inverseColumnType
                                            ELSE d.joinColumnType],
   primaryKey |-> <<d.joinColumn, d.inverseColumn>>]

(* buildExpectedSchemas(): a class is taken once, one without @YdbEntity    *)
(* is skipped, and two classes do not share a table.                        *)
Built(m) == {C \in Items(m.entities) : IsEntity(m, C)}

(* The list of classes without repetitions.                                 *)
SeenEntities(m) ==
  LET again(i) == \E j \in 1..(i - 1) : m.entities[j] = m.entities[i]
      kept     == {i \in DOMAIN m.entities : ~ again(i)}
  IN  [n \in 1..Cardinality(kept) |->
         m.entities[CHOOSE i \in kept : Cardinality({j \in kept : j <= i}) = n]]

(* What makes it throw.                                                     *)
DuplicateTable(m) ==
  \E C, D \in Built(m) : C # D /\ m.of[C].table = m.of[D].table

Malformed(m) ==
  \/ \E C \in Built(m) : ~ Buildable(m, C)
  \/ Unresolvable(m, SeenEntities(m))

SyncRefuses(m) ==
  DuplicateTable(m) \/ Malformed(m) \/ Conflicting(m, SeenEntities(m))

BuildExpectedSchemas(m) ==
  {ExpectedTable(m, C) : C \in Built(m)}
    \cup {ExpectedJoinTable(d) : d \in GetManyToManyJoinTables(m, SeenEntities(m))}
---------------------------------------------------------------------------
(* findInverseProperty(): the one relation of the target that leads back    *)
(* over the same column, or of one-to-one any that leads back.              *)
FindInverseProperty(m, C, r) ==
  LET column(s) == ResolveRelationJoinColumn(s.joinColumn)
      same(s)   == column(s) # Fault /\ column(s) = column(r)
      pairs(s)  ==
        \/ r.type = "one-to-many" /\ s.type \in {"many-to-one", "one-to-one"} /\ same(s)
        \/ r.type = "many-to-one" /\ s.type = "one-to-many" /\ same(s)
        \/ r.type = "one-to-one"  /\ s.type = "one-to-one"
      back == {j \in DOMAIN Relations(m, r.target) :
                 /\ Relations(m, r.target)[j].target = C
                 /\ pairs(Relations(m, r.target)[j])}
  IN  IF r.type = "many-to-many"
        THEN IF r.inverseSide = Rejected THEN Fault ELSE r.inverseSide
      ELSE IF column(r) # Fault /\ Cardinality(back) = 1
        THEN Relations(m, r.target)[CHOOSE j \in back : TRUE].prop
      ELSE Unset

(* metadata:dump names the table of a many-to-many relation:                *)
(* resolveJoinTableRef() filters the declarations of the target that lead   *)
(* back, by the property its inverseSide names if that leaves one.          *)
DumpedJoinTable(m, C, r) ==
  LET back  == {d \in GetManyToManyJoinTables(m, SeenEntities(m)) :
                  d.owner = r.target /\ d.inverse = C}
      named == {d \in back : d.property = FindInverseProperty(m, C, r)}
      left  == IF named # {} THEN named ELSE back
  IN  IF r.prop \in DOMAIN m.of[C].joins
        THEN JoinTableDefinition(m, C, r).tableName
      ELSE IF Cardinality(left) = 1 THEN (CHOOSE d \in left : TRUE).tableName
      ELSE Unset

(* dumpRelation() throws for a target that is no entity, and for what it    *)
(* cannot resolve.                                                          *)
DumpRelationFails(m, C, r) ==
  \/ ~ IsEntity(m, r.target)
  \/ FindInverseProperty(m, C, r) = Fault
  \/ r.type # "many-to-many" /\ ResolveRelationJoinColumn(r.joinColumn) = Fault
  \/ /\ r.type = "many-to-many"
     /\ r.prop \in DOMAIN m.of[C].joins
     /\ JoinTableDefinition(m, C, r) \in {Unset, Fault}

(* buildMetadataDump(): every class is an entity, sync would not refuse     *)
(* them, and each relation can be printed; or nothing is.                   *)
DumpRefuses(m) ==
  \/ Built(m) # Items(m.entities)
  \/ SyncRefuses(m)
  \/ \E C \in Built(m) : \E r \in Items(Relations(m, C)) : DumpRelationFails(m, C, r)
=============================================================================
