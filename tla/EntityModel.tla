---------------------------- MODULE EntityModel ----------------------------
(***************************************************************************)
(* What the decorators declare about a set of entity classes, and the four *)
(* readers of it: validation when the module starts                        *)
(* (src/metadata/validate-entity.ts), the schemas that sync, verify and    *)
(* migrations build (src/schema/schema-sync.ts), the join table a          *)
(* many-to-many read uses (src/relations/resolve-join-table.ts) and        *)
(* metadata:dump (src/cli/metadata-dump.ts).                               *)
(*                                                                         *)
(* A model m has                                                           *)
(*   m.entities  the classes of the configuration, in its order            *)
(*   m.of        for each class, what its decorators say: entity (has it   *)
(*               its own @YdbEntity), table, pks, schema (column to type), *)
(*               relations, joins (@JoinTable by property), aad,           *)
(*               encrypted, indexes, ttl                                   *)
(*   m.providers the providers of the configuration                        *)
(***************************************************************************)
EXTENDS Integers, Sequences, FiniteSets

CONSTANTS Unset,      \* nothing was given
          Rejected,   \* a join column that is no name and no property access
          Fault       \* the resolver throws

Items(s) == {s[i] : i \in DOMAIN s}

IsEntity(m, C)  == m.of[C].entity
Registered(m)   == {C \in DOMAIN m.of : IsEntity(m, C)}
Relations(m, C) == m.of[C].relations
HasColumn(m, C, c) == c \in DOMAIN m.of[C].schema

(* resolveRelationJoinColumn(): a name, or a selector of one property.      *)
ResolveRelationJoinColumn(c) == IF c \in {Unset, Rejected} THEN Fault ELSE c

(* defaultJoinColumnName() joins the two with an underscore; it is taken to *)
(* tell them apart (tables a and a_b with keys b_c and c would collide).    *)
DefaultJoinColumnName(m, C) == <<m.of[C].table, m.of[C].pks[1]>>

(* A join table links rows by one value on each side, of the exact type of  *)
(* the primary key.                                                         *)
LinksByKey(m, C) ==
  /\ Len(m.of[C].pks) = 1
  /\ HasColumn(m, C, m.of[C].pks[1])

Column(m, C, name) == IF name = Unset THEN DefaultJoinColumnName(m, C) ELSE name

(* resolveRelationJoinTableDefinition(): the table that @JoinTable on the   *)
(* relation r of class C describes, Unset if there is none.                 *)
Declares(m, C, r) ==
  r.type = "many-to-many" /\ IsEntity(m, C) /\ r.prop \in DOMAIN m.of[C].joins

Resolves(m, C, r) ==
  IsEntity(m, r.target) /\ LinksByKey(m, C) /\ LinksByKey(m, r.target)

JoinTableDefinition(m, C, r) ==
  IF ~ Declares(m, C, r)      THEN Unset
  ELSE IF ~ Resolves(m, C, r) THEN Fault
  ELSE LET j == m.of[C].joins[r.prop]
       IN  [tableName         |-> j.tableName,
            owner             |-> C,
            property          |-> r.prop,
            joinColumn        |-> Column(m, C, j.joinColumn),
            joinColumnType    |-> m.of[C].schema[m.of[C].pks[1]],
            inverse           |-> r.target,
            inverseColumn     |-> Column(m, r.target, j.inverseColumn),
            inverseColumnType |-> m.of[r.target].schema[m.of[r.target].pks[1]]]

OwnerSide(d)   == <<d.owner, d.joinColumn, d.joinColumnType>>
InverseSide(d) == <<d.inverse, d.inverseColumn, d.inverseColumnType>>

(* joinTableDefinitionsEquivalent(): the same sides, or the same mirrored.  *)
Equivalent(a, b) ==
  \/ OwnerSide(a) = OwnerSide(b)   /\ InverseSide(a) = InverseSide(b)
  \/ OwnerSide(a) = InverseSide(b) /\ InverseSide(a) = OwnerSide(b)

---------------------------------------------------------------------------
(* The declarations a list of classes makes, in the order they are read: a  *)
(* place is a class of the list and a relation of the class.                *)
DefinitionAt(m, Cs, p) ==
  JoinTableDefinition(m, Cs[p[1]], Relations(m, Cs[p[1]])[p[2]])

Declarations(m, Cs) ==
  {p \in UNION {{i} \X DOMAIN Relations(m, Cs[i]) : i \in DOMAIN Cs} :
     DefinitionAt(m, Cs, p) # Unset}

Before(p, q) == p[1] < q[1] \/ (p[1] = q[1] /\ p[2] < q[2])

Earliest(P) == CHOOSE p \in P : \A q \in P : ~Before(q, p)

Clash(d, e) == d.tableName = e.tableName /\ ~Equivalent(d, e)

(* getManyToManyJoinTables() throws a declaration's own error, and for two  *)
(* declarations of one table that differ.                                   *)
Unresolvable(m, Cs) ==
  \E p \in Declarations(m, Cs) : DefinitionAt(m, Cs, p) = Fault

Conflicting(m, Cs) ==
  \E p, q \in Declarations(m, Cs) :
    /\ DefinitionAt(m, Cs, p) # Fault
    /\ DefinitionAt(m, Cs, q) # Fault
    /\ Clash(DefinitionAt(m, Cs, p), DefinitionAt(m, Cs, q))

(* Otherwise it returns the first declaration of each table.                *)
Kept(m, Cs) ==
  {p \in Declarations(m, Cs) :
     \A q \in Declarations(m, Cs) :
       Before(q, p) => DefinitionAt(m, Cs, q).tableName
                         # DefinitionAt(m, Cs, p).tableName}

GetManyToManyJoinTables(m, Cs) ==
  {DefinitionAt(m, Cs, p) : p \in Kept(m, Cs)}

(* Mutant: only the two classes of the relation are looked at.              *)
NoForeignConflict(m, d) == FALSE

(* assertNoForeignJoinTableConflicts(): no registered entity declares the   *)
(* table differently; declarations that do not resolve are passed over.     *)
ForeignConflict(m, d) ==
  \E C \in Registered(m) :
    \E r \in Items(Relations(m, C)) :
      LET theirs == JoinTableDefinition(m, C, r)
      IN  theirs \notin {Unset, Fault} /\ Clash(d, theirs)

(* resolveManyToManyJoinTable(): the relation's own declaration, or the     *)
(* first one of its target that leads back, with the columns flipped.       *)
OwnPlaces(m, C, r) ==
  {p \in Kept(m, <<C, r.target>>) :
     LET d == DefinitionAt(m, <<C, r.target>>, p)
     IN  d.owner = C /\ d.property = r.prop}

InversePlaces(m, C, r) ==
  {p \in Kept(m, <<C, r.target>>) :
     LET d == DefinitionAt(m, <<C, r.target>>, p)
     IN  d.owner = r.target /\ d.inverse = C}

AsDeclared(d) == [tableName |-> d.tableName, ownerColumn |-> d.joinColumn,
                  ownerColumnType |-> d.joinColumnType, inverseColumn |-> d.inverseColumn]

(* Mutant: the inverse side takes the columns as they are declared.         *)
Unflipped(d) == AsDeclared(d)

Flipped(d) == [tableName |-> d.tableName, ownerColumn |-> d.inverseColumn,
               ownerColumnType |-> d.inverseColumnType, inverseColumn |-> d.joinColumn]

ResolveManyToManyJoinTable(m, C, r) ==
  LET Cs       == <<C, r.target>>
      own      == DefinitionAt(m, Cs, Earliest(OwnPlaces(m, C, r)))
      mirrored == DefinitionAt(m, Cs, Earliest(InversePlaces(m, C, r)))
  IN  IF ~IsEntity(m, C) \/ ~IsEntity(m, r.target)      THEN Unset
      ELSE IF Unresolvable(m, Cs) \/ Conflicting(m, Cs) THEN Fault
      ELSE IF OwnPlaces(m, C, r) # {}
        THEN IF ForeignConflict(m, own) THEN Fault ELSE AsDeclared(own)
      ELSE IF InversePlaces(m, C, r) # {}
        THEN IF ForeignConflict(m, mirrored) THEN Fault ELSE Flipped(mirrored)
      ELSE Unset
=============================================================================
