-------------------------- MODULE SchemaSyncProofs --------------------------
(***************************************************************************)
(* Theorems about SchemaSync for every set of replicas, versions of the    *)
(* entities and databases found: no lock keeps the replicas apart, what one *)
(* of them has synchronised none of the others ever undoes, and a migration *)
(* generated from what they leave runs both ways.                          *)
(***************************************************************************)
EXTENDS SchemaSync, FiniteSetTheorems, SequenceTheorems, WellFoundedInduction, TLAPS

(* The statements sync() makes for an existing table.                      *)
Alterations(s) ==
  {AddColumns(s, C) : C \in SUBSET Has(s)}
    \cup {AddIndex(s, i) : i \in Indexed(s)}
    \cup (IF s.ttl = None THEN {} ELSE {SetTtl(s.ttl)})

(* What sync() can count on of its version: all but a TTL others differ on. *)
Wanted(r, t) == IF SameTtl(r, t) THEN version[r][t]
                                 ELSE [version[r][t] EXCEPT !.ttl = None]

(* All of w is in table t or made by a statement of D.                     *)
Reaching(w, t, D) ==
  /\ t # None /\ t.key = w.key
  /\ \A c \in Has(w) :
       \/ t.columns[c] = w.columns[c]
       \/ \E C \in SUBSET Has(w) : c \in C /\ AddColumns(w, C) \in D
  /\ \A i \in Indexed(w) :
       \/ t.indexes[i] # None /\ t.indexes[i].columns = w.indexes[i].columns
       \/ AddIndex(w, i) \in D
  /\ w.ttl = None \/ t.ttl = w.ttl \/ SetTtl(w.ttl) \in D

(* All that replica r counts on of table t is there, or made by D.         *)
Holds(r, t, D) == Reaching(Wanted(r, t), tables[t], D)

(* The tables that are behind a replica.                                   *)
Past(r) == CASE pc[r] = "done" -> DOMAIN Tables
             [] pc[r] \in {"describe", "apply"} -> 1..(at[r] - 1)
             [] pc[r] = "failed" -> {}

(* The parts of the inductive invariant.                                   *)
Synced(r) == \A n \in Past(r) : Holds(r, Tables[n], {})

Planned(r) ==
  IF pc[r] # "apply" THEN plan[r] = << >>
  ELSE \/ plan[r] = <<CreateTable(Expected(r))>>
       \/ /\ plan[r] \in Seq(Alterations(Expected(r))) /\ plan[r] # << >>
          /\ Holds(r, Tables[at[r]], Range(plan[r]))

Plans == plan = [r \in Replica |-> plan[r]]

IInv == /\ TypeOK
        /\ Plans
        /\ \A r \in Replica : Synced(r)
        /\ \A r \in Replica : Planned(r)

-----------------------------------------------------------------------------
(* The shapes. *)

LEMMA SchemaParts ==
  ASSUME NEW s \in ExpectedTableSchema
  PROVE  /\ s.columns \in [Column -> Type \cup {None}]
         /\ s.key \in Seq(Column)
         /\ s.indexes \in [Index -> ExpectedIndex \cup {None}]
         /\ s.ttl \in YdbTableTtl \cup {None}
         /\ OnItsColumns(s) /\ IsFiniteSet(Has(s)) /\ IsFiniteSet(Indexed(s))
BY DEF ExpectedTableSchema, Shape

LEMMA TableParts ==
  ASSUME NEW t \in YdbTableDescription
  PROVE  /\ t.columns \in [Column -> Type \cup {Unsupported} \cup {None}]
         /\ t.key \in Seq(Column)
         /\ t.indexes \in [Index -> ExpectedIndex \cup {None}]
         /\ t.ttl \in YdbTableTtl \cup {None}
         /\ OnItsColumns(t) /\ t # None
BY NoneAssumption DEF YdbTableDescription, Shape

LEMMA TtlColumn ==
  ASSUME NEW s, OnItsColumns(s), s.ttl # None, s.ttl \in YdbTableTtl \cup {None}
  PROVE  s.ttl.column \in Has(s) /\ s.columns[s.ttl.column] \in Temporal
<1>1. s.ttl.column \in Column
  BY DEF YdbTableTtl
<1>2. s.columns[s.ttl.column] \in Temporal
  BY DEF OnItsColumns
<1>3. s.columns[s.ttl.column] # None
  BY <1>2, NamesAssumption
<1> QED
  BY <1>1, <1>2, <1>3 DEF Has

LEMMA SchemaIsTable ==
  ASSUME NEW s \in ExpectedTableSchema
  PROVE  s \in YdbTableDescription /\ s # None
<1>1. s \in Shape(Type \cup {Unsupported})
  BY DEF ExpectedTableSchema, Shape
<1>2. s \in YdbTableDescription
  BY <1>1 DEF ExpectedTableSchema, YdbTableDescription
<1> QED
  BY <1>2, NoneAssumption

(* A schema without its TTL is one, and asks for the same besides.         *)
LEMMA WithoutTtl ==
  ASSUME NEW s \in ExpectedTableSchema
  PROVE  LET w == [s EXCEPT !.ttl = None]
         IN  /\ w \in ExpectedTableSchema
             /\ w.columns = s.columns /\ w.key = s.key /\ w.indexes = s.indexes
             /\ w.ttl = None
<1> DEFINE w == [s EXCEPT !.ttl = None]
<1>1. /\ w \in Shape(Type)
      /\ w.columns = s.columns /\ w.key = s.key /\ w.indexes = s.indexes
      /\ w.ttl = None
  BY DEF ExpectedTableSchema, Shape
<1> HIDE DEF w
<1>2. Has(w) = Has(s) /\ Indexed(w) = Indexed(s)
  BY <1>1 DEF Has, Indexed
<1>3. OnItsColumns(w)
  BY <1>1, <1>2, SchemaParts DEF OnItsColumns
<1>4. w \in ExpectedTableSchema
  BY <1>1, <1>2, <1>3, SchemaParts DEF ExpectedTableSchema
<1> QED
  BY <1>1, <1>4 DEF w

-----------------------------------------------------------------------------
(* The plan of sync() has all that is missing. *)

LEMMA SetToSeqRange ==
  ASSUME NEW S, IsFiniteSet(S)
  PROVE  /\ SetToSeq(S) \in Seq(S) /\ Range(SetToSeq(S)) = S
         /\ \A i, j \in 1..Len(SetToSeq(S)) : SetToSeq(S)[i] = SetToSeq(S)[j] => i = j
<1> DEFINE n == Cardinality(S)
           Q(f) == f \in [1..n -> S] /\ IsInjective(f)
<1>1. n \in Nat /\ ExistsBijection(1..n, S)
  BY FS_CardinalityType
<1>2. \E f : Q(f)
  BY <1>1 DEF ExistsBijection, Bijection, Injection
<1>3. Q(SetToSeq(S))
  BY <1>2 DEF SetToSeq
<1> DEFINE f == SetToSeq(S)
<1> HIDE DEF f
<1>4. f \in Injection(1..n, S)
  BY <1>3 DEF f, Injection
<1>5. IsFiniteSet(1..n) /\ Cardinality(1..n) = n
  BY <1>1, FS_Interval
<1>6. f \in Surjection(1..n, S)
  BY <1>4, <1>5, FS_Injection
<1>7. f \in Seq(S)
  BY <1>1, <1>3 DEF f
<1>8. Range(f) = S
  BY <1>3, <1>6 DEF Range, Surjection, f
<1>9. \A i, j \in 1..Len(f) : f[i] = f[j] => i = j
  BY <1>1, <1>3, <1>7 DEF f, IsInjective
<1> QED
  BY <1>7, <1>8, <1>9 DEF f

LEMMA RangeConcat ==
  ASSUME NEW S, NEW a \in Seq(S), NEW b \in Seq(S)
  PROVE  a \o b \in Seq(S) /\ Range(a \o b) = Range(a) \cup Range(b)
<1>1. a \o b \in Seq(S) /\ Len(a \o b) = Len(a) + Len(b)
  OBVIOUS
<1>2. Range(a \o b) \subseteq Range(a) \cup Range(b)
  <2> SUFFICES ASSUME NEW i \in 1..(Len(a) + Len(b))
               PROVE  (a \o b)[i] \in Range(a) \cup Range(b)
    BY <1>1 DEF Range
  <2>1. CASE i <= Len(a)
    BY <2>1 DEF Range
  <2>2. CASE i > Len(a)
    <3>1. i - Len(a) \in DOMAIN b /\ (a \o b)[i] = b[i - Len(a)]
      BY <2>2
    <3> QED
      BY <3>1 DEF Range
  <2> QED
    BY <2>1, <2>2
<1>3. Range(a) \subseteq Range(a \o b)
  BY <1>1 DEF Range
<1>4. Range(b) \subseteq Range(a \o b)
  <2> SUFFICES ASSUME NEW i \in 1..Len(b) PROVE b[i] \in Range(a \o b)
    BY DEF Range
  <2>1. Len(a) + i \in DOMAIN (a \o b) /\ (a \o b)[Len(a) + i] = b[i]
    BY <1>1
  <2> QED
    BY <2>1 DEF Range
<1> QED
  BY <1>1, <1>2, <1>3, <1>4

LEMMA IndexStatements ==
  ASSUME NEW s, NEW I, IsFiniteSet(I)
  PROVE  Indexes(s, I) \in Seq({AddIndex(s, i) : i \in I})
         /\ Range(Indexes(s, I)) = {AddIndex(s, i) : i \in I}
<1> DEFINE is == SetToSeq(I)
<1>1. is \in Seq(I) /\ Range(is) = I
  BY SetToSeqRange
<1> HIDE DEF is
<1>2. Indexes(s, I) = [n \in 1..Len(is) |-> AddIndex(s, is[n])]
  BY DEF Indexes, is
<1>3. \A n \in 1..Len(is) : is[n] \in I
  BY <1>1
<1>4. Len(is) \in Nat /\ DOMAIN is = 1..Len(is)
  BY <1>1
<1>5. Indexes(s, I) \in Seq({AddIndex(s, i) : i \in I})
  BY <1>2, <1>3, <1>4
<1>6. \A i \in I : \E n \in 1..Len(is) : is[n] = i
  BY <1>1, <1>4 DEF Range
<1>7. Range(Indexes(s, I)) = {AddIndex(s, i) : i \in I}
  BY <1>2, <1>3, <1>6 DEF Range
<1> QED
  BY <1>5, <1>7

LEMMA RangeOne == ASSUME NEW x PROVE Range(<<x>>) = {x} /\ Range(<< >>) = {}
BY DEF Range


LEMMA OneStatement ==
  ASSUME NEW S, NEW x \in S
  PROVE  <<x>> \in Seq(S) /\ Range(<<x>>) = {x}
<1>1. <<x>> \in Seq(S)
  OBVIOUS
<1> QED
  BY <1>1, RangeOne

(* The two requests a replica can make of a table: with its TTL or without. *)
Requests(s) == {s, [s EXCEPT !.ttl = None]}

LEMMA RequestParts ==
  ASSUME NEW s \in ExpectedTableSchema, NEW w \in Requests(s)
  PROVE  /\ w \in ExpectedTableSchema
         /\ w.columns = s.columns /\ w.key = s.key /\ w.indexes = s.indexes
         /\ w.ttl \in {s.ttl, None}
         /\ Has(w) = Has(s) /\ Indexed(w) = Indexed(s)
         /\ \A C : AddColumns(w, C) = AddColumns(s, C)
         /\ \A i : AddIndex(w, i) = AddIndex(s, i)
<1>1. /\ w \in ExpectedTableSchema
      /\ w.columns = s.columns /\ w.key = s.key /\ w.indexes = s.indexes
      /\ w.ttl \in {s.ttl, None}
  BY WithoutTtl DEF Requests
<1> QED
  BY <1>1 DEF Has, Indexed, AddColumns, AddIndex

LEMMA PlanReaches ==
  ASSUME NEW s \in ExpectedTableSchema, NEW t \in YdbTableDescription,
         ~Immutable(s, t), NEW w \in Requests(s)
  PROVE  /\ SyncPlan(s, t) \in Seq(Alterations(s))
         /\ Reaching(w, t, Range(SyncPlan(s, t)))
<1> DEFINE A == Alterations(s)
           M == MissingColumns(s, t)
           I == MissingIndexes(s, t)
           a == Columns(s, M)
           b == Indexes(s, I)
           c == Ttl(s, t)
<1>1. M \in SUBSET Has(s) /\ I \subseteq Indexed(s) /\ IsFiniteSet(I)
  BY SchemaParts, FS_Subset DEF MissingColumns, MissingIndexes
<1>2. a \in Seq(A) /\ Range(a) = (IF M = {} THEN {} ELSE {AddColumns(s, M)})
  <2>1. AddColumns(s, M) \in A
    BY <1>1 DEF Alterations
  <2>2. CASE M = {}
    BY <2>2, RangeOne, EmptySeq DEF Columns
  <2>3. CASE M # {}
    BY <2>1, <2>3, OneStatement DEF Columns
  <2> QED
    BY <2>2, <2>3
<1>3. b \in Seq(A) /\ Range(b) = {AddIndex(s, i) : i \in I}
  <2>1. b \in Seq({AddIndex(s, i) : i \in I}) /\ Range(b) = {AddIndex(s, i) : i \in I}
    BY <1>1, IndexStatements
  <2>2. {AddIndex(s, i) : i \in I} \subseteq A
    BY <1>1 DEF Alterations
  <2> QED
    BY <2>1, <2>2, SeqMonotonic
<1>4. c \in Seq(A) /\ Range(c) = (IF TtlToSet(s, t) THEN {SetTtl(s.ttl)} ELSE {})
  <2>1. TtlToSet(s, t) => SetTtl(s.ttl) \in A
    BY DEF Alterations, TtlToSet
  <2>2. CASE TtlToSet(s, t)
    BY <2>1, <2>2, OneStatement DEF Ttl
  <2>3. CASE ~TtlToSet(s, t)
    BY <2>3, RangeOne, EmptySeq DEF Ttl
  <2> QED
    BY <2>2, <2>3
<1>5. SyncPlan(s, t) = (a \o b) \o c
  BY TableParts DEF SyncPlan
<1> HIDE DEF A, M, I, a, b, c
<1>6. a \o b \in Seq(A) /\ Range(a \o b) = Range(a) \cup Range(b)
  BY <1>2, <1>3, RangeConcat
<1>7. /\ SyncPlan(s, t) \in Seq(A)
      /\ Range(SyncPlan(s, t)) = Range(a) \cup Range(b) \cup Range(c)
  <2> DEFINE e == a \o b
  <2>1. e \in Seq(A) /\ c \in Seq(A) /\ Range(e) = Range(a) \cup Range(b)
    BY <1>4, <1>6
  <2>2. SyncPlan(s, t) = e \o c
    BY <1>5
  <2> HIDE DEF e
  <2>3. e \o c \in Seq(A) /\ Range(e \o c) = Range(e) \cup Range(c)
    BY <2>1, RangeConcat
  <2> QED
    BY <2>1, <2>2, <2>3
<1> DEFINE D == Range(SyncPlan(s, t))
<1> HIDE DEF D
<1>8. /\ M # {} => AddColumns(s, M) \in D
      /\ \A i \in I : AddIndex(s, i) \in D
      /\ TtlToSet(s, t) => SetTtl(s.ttl) \in D
  BY <1>2, <1>3, <1>4, <1>7 DEF D
<1>w. /\ w.columns = s.columns /\ w.key = s.key /\ w.indexes = s.indexes
      /\ w.ttl \in {s.ttl, None}
      /\ Has(w) = Has(s) /\ Indexed(w) = Indexed(s)
      /\ AddColumns(w, M) = AddColumns(s, M)
      /\ \A i : AddIndex(w, i) = AddIndex(s, i)
  BY RequestParts
<1>9. t # None /\ t.key = w.key
  BY <1>w, TableParts DEF Immutable, PrimaryKeyMatches
<1>10. ASSUME NEW k \in Has(w)
       PROVE  \/ t.columns[k] = w.columns[k]
              \/ \E C \in SUBSET Has(w) : k \in C /\ AddColumns(w, C) \in D
  <2>1. CASE k \in M
    BY <2>1, <1>1, <1>8, <1>w
  <2>2. CASE k \notin M
    BY <2>2, <1>10, <1>w DEF M, MissingColumns, Immutable, TypeMismatches
  <2> QED
    BY <2>1, <2>2
<1>11. ASSUME NEW i \in Indexed(w)
       PROVE  \/ t.indexes[i] # None /\ t.indexes[i].columns = w.indexes[i].columns
              \/ AddIndex(w, i) \in D
  <2>1. CASE i \in I
    BY <2>1, <1>8, <1>w
  <2>2. CASE i \notin I
    <3>1. i \in Indexed(s) /\ i \in Indexed(t)
      BY <2>2, <1>11, <1>w DEF I, MissingIndexes
    <3>2. i \notin IndexColumnsMismatches(s, t)
      BY DEF Immutable
    <3> QED
      BY <3>1, <3>2, <1>w DEF IndexColumnsMismatches, Indexed
  <2> QED
    BY <2>1, <2>2
<1>12. w.ttl = None \/ t.ttl = w.ttl \/ SetTtl(w.ttl) \in D
  BY <1>8, <1>w DEF TtlToSet
<1>13. Reaching(w, t, D)
  BY <1>9, <1>10, <1>11, <1>12 DEF Reaching
<1> QED
  BY <1>7, <1>13 DEF D, A

-----------------------------------------------------------------------------
(* What the statements of one replica do to the table of another: it grows. *)
Grown(t, u) ==
  /\ u # None /\ u.key = t.key
  /\ \A c \in Column : t.columns[c] # None => u.columns[c] = t.columns[c]
  /\ \A i \in Index : t.indexes[i] # None => u.indexes[i] = t.indexes[i]

LEMMA GrownReaching ==
  ASSUME NEW w, NEW t, NEW u, NEW D, Grown(t, u), Reaching(w, t, D),
         w.ttl = None \/ u.ttl = t.ttl \/ u.ttl = w.ttl
  PROVE  Reaching(w, u, D)
<1>1. u # None /\ u.key = w.key
  BY DEF Grown, Reaching
<1>2. \A c \in Has(w) :
        \/ u.columns[c] = w.columns[c]
        \/ \E C \in SUBSET Has(w) : c \in C /\ AddColumns(w, C) \in D
  <2> SUFFICES ASSUME NEW c \in Has(w), t.columns[c] = w.columns[c]
               PROVE  u.columns[c] = w.columns[c]
    BY DEF Reaching
  <2> QED
    BY DEF Grown, Has
<1>3. \A i \in Indexed(w) :
        \/ u.indexes[i] # None /\ u.indexes[i].columns = w.indexes[i].columns
        \/ AddIndex(w, i) \in D
  BY DEF Grown, Reaching, Indexed
<1>4. w.ttl = None \/ u.ttl = w.ttl \/ SetTtl(w.ttl) \in D
  BY DEF Reaching
<1> QED
  BY <1>1, <1>2, <1>3, <1>4 DEF Reaching

LEMMA AddColumnsEffect ==
  ASSUME NEW s \in ExpectedTableSchema, NEW t \in YdbTableDescription,
         NEW C \in SUBSET Has(s), Applies(AddColumns(s, C), t)
  PROVE  LET u == Effect(AddColumns(s, C), t)
         IN  /\ u.columns = [c \in Column |-> IF c \in C THEN s.columns[c] ELSE t.columns[c]]
             /\ u.key = t.key /\ u.indexes = t.indexes /\ u.ttl = t.ttl
             /\ u \in YdbTableDescription
             /\ C \cap Has(t) = {}
<1> DEFINE d == AddColumns(s, C)
           u == Effect(d, t)
<1>1. /\ d.kind = "add columns" /\ DOMAIN d.columns = C
      /\ \A c \in C : d.columns[c] = s.columns[c]
  BY DEF AddColumns
<1>2. u = [t EXCEPT !.columns = [c \in Column |->
             IF c \in DOMAIN d.columns THEN d.columns[c] ELSE @[c]]]
  BY <1>1 DEF Effect
<1>3. C \cap Has(t) = {}
  BY <1>1 DEF Applies
<1> HIDE DEF d, u
<1>4. t \in Shape(Type \cup {Unsupported}) /\ OnItsColumns(t)
      /\ t.ttl \in YdbTableTtl \cup {None}
  BY TableParts DEF YdbTableDescription
<1>5. [c \in Column |-> IF c \in DOMAIN d.columns THEN d.columns[c] ELSE t.columns[c]]
        = [c \in Column |-> IF c \in C THEN s.columns[c] ELSE t.columns[c]]
  BY <1>1
<1>6. /\ u.columns = [c \in Column |-> IF c \in C THEN s.columns[c] ELSE t.columns[c]]
      /\ u.key = t.key /\ u.indexes = t.indexes /\ u.ttl = t.ttl
      /\ u = [t EXCEPT !.columns = u.columns]
  BY <1>2, <1>4, <1>5 DEF Shape
<1>7. u.columns \in [Column -> Type \cup {Unsupported} \cup {None}]
  BY <1>6, SchemaParts, TableParts
<1>8. u \in Shape(Type \cup {Unsupported})
  BY <1>4, <1>6, <1>7 DEF Shape
<1>9. Has(t) \subseteq Has(u) /\ Indexed(u) = Indexed(t)
  BY <1>6, <1>3 DEF Has, Indexed
<1>10. OnItsColumns(u)
  <2>1. ASSUME u.ttl # None PROVE u.columns[u.ttl.column] \in Temporal
    <3>1. t.ttl.column \in Has(t) /\ t.columns[t.ttl.column] \in Temporal
      BY <1>4, <1>6, <2>1, TtlColumn
    <3> QED BY <1>3, <1>6, <3>1 DEF Has
  <2> QED BY <1>4, <1>6, <1>9, <2>1 DEF OnItsColumns
<1> QED
  BY <1>3, <1>6, <1>8, <1>10 DEF YdbTableDescription, u, d

LEMMA AddIndexEffect ==
  ASSUME NEW s \in ExpectedTableSchema, NEW t \in YdbTableDescription,
         NEW i \in Indexed(s), Applies(AddIndex(s, i), t)
  PROVE  LET u == Effect(AddIndex(s, i), t)
         IN  /\ u.indexes = [t.indexes EXCEPT ![i] = s.indexes[i]]
             /\ u.key = t.key /\ u.columns = t.columns /\ u.ttl = t.ttl
             /\ u \in YdbTableDescription
             /\ t.indexes[i] = None
<1> DEFINE d == AddIndex(s, i)
           u == Effect(d, t)
<1>1. d.kind = "add index" /\ d.index = i /\ d.as = s.indexes[i]
  BY DEF AddIndex
<1>2. u = [t EXCEPT !.indexes[i] = s.indexes[i]]
  BY <1>1 DEF Effect
<1>3. t.indexes[i] = None /\ Range(s.indexes[i].columns) \subseteq Has(t)
  BY <1>1 DEF Applies
<1> HIDE DEF d, u
<1>4. t \in Shape(Type \cup {Unsupported}) /\ OnItsColumns(t)
  BY DEF YdbTableDescription
<1>5. /\ u.indexes = [t.indexes EXCEPT ![i] = s.indexes[i]]
      /\ u.key = t.key /\ u.columns = t.columns /\ u.ttl = t.ttl
      /\ u = [t EXCEPT !.indexes = u.indexes]
  BY <1>2, <1>4 DEF Shape
<1>6. i \in Index /\ s.indexes[i] \in ExpectedIndex
  BY SchemaParts DEF Indexed
<1>7. u.indexes \in [Index -> ExpectedIndex \cup {None}]
  BY <1>5, <1>6, TableParts
<1>8. u \in Shape(Type \cup {Unsupported})
  BY <1>4, <1>5, <1>7 DEF Shape
<1>9. /\ Has(u) = Has(t)
      /\ u.indexes[i] = s.indexes[i]
      /\ \A j \in Index \ {i} : u.indexes[j] = t.indexes[j]
  BY <1>5, <1>6, TableParts DEF Has
<1>10. OnItsColumns(u)
  BY <1>3, <1>4, <1>5, <1>9 DEF OnItsColumns, Indexed
<1> QED
  BY <1>3, <1>5, <1>8, <1>10 DEF YdbTableDescription, u, d

LEMMA SetTtlEffect ==
  ASSUME NEW s \in ExpectedTableSchema, NEW t \in YdbTableDescription, s.ttl # None,
         Applies(SetTtl(s.ttl), t)
  PROVE  LET u == Effect(SetTtl(s.ttl), t)
         IN  /\ u.ttl = s.ttl
             /\ u.key = t.key /\ u.columns = t.columns /\ u.indexes = t.indexes
             /\ u \in YdbTableDescription
<1> DEFINE d == SetTtl(s.ttl)
           u == Effect(d, t)
<1>1. d.kind = "set ttl" /\ d.ttl = s.ttl
  BY DEF SetTtl
<1>2. u = [t EXCEPT !.ttl = s.ttl]
  BY <1>1 DEF Effect
<1>0. t.columns[s.ttl.column] \in Temporal
  BY <1>1 DEF Applies
<1> HIDE DEF d, u
<1>3. t \in Shape(Type \cup {Unsupported}) /\ OnItsColumns(t)
  BY DEF YdbTableDescription
<1>4. s.ttl \in YdbTableTtl
  BY SchemaParts
<1>5. /\ u.ttl = s.ttl
      /\ u.key = t.key /\ u.columns = t.columns /\ u.indexes = t.indexes
      /\ u \in Shape(Type \cup {Unsupported})
  BY <1>2, <1>3, <1>4 DEF Shape
<1>6. OnItsColumns(u)
  BY <1>0, <1>3, <1>5 DEF OnItsColumns, Has, Indexed
<1> QED
  BY <1>5, <1>6 DEF YdbTableDescription, u, d


LEMMA AlterationGrows ==
  ASSUME NEW s \in ExpectedTableSchema, NEW t \in YdbTableDescription,
         NEW d \in Alterations(s), Applies(d, t)
  PROVE  /\ Effect(d, t) \in YdbTableDescription
         /\ Grown(t, Effect(d, t))
         /\ \/ Effect(d, t).ttl = t.ttl
            \/ s.ttl # None /\ Effect(d, t).ttl = s.ttl
<1>0. t # None /\ t.columns \in [Column -> Type \cup {Unsupported} \cup {None}]
      /\ t.indexes \in [Index -> ExpectedIndex \cup {None}]
  BY TableParts
<1>1. ASSUME NEW C \in SUBSET Has(s), d = AddColumns(s, C)
      PROVE  /\ Effect(d, t) \in YdbTableDescription
             /\ Grown(t, Effect(d, t))
             /\ Effect(d, t).ttl = t.ttl
  <2> DEFINE u == Effect(d, t)
  <2>1. /\ u.columns = [c \in Column |-> IF c \in C THEN s.columns[c] ELSE t.columns[c]]
        /\ u.key = t.key /\ u.indexes = t.indexes /\ u.ttl = t.ttl
        /\ u \in YdbTableDescription /\ C \cap Has(t) = {}
    BY <1>1, AddColumnsEffect
  <2>2. u # None
    BY <2>1, TableParts
  <2> HIDE DEF u
  <2>3. Grown(t, u)
    BY <2>1, <2>2 DEF Grown, Has
  <2> QED
    BY <2>1, <2>3 DEF u
<1>2. ASSUME NEW i \in Indexed(s), d = AddIndex(s, i)
      PROVE  /\ Effect(d, t) \in YdbTableDescription
             /\ Grown(t, Effect(d, t))
             /\ Effect(d, t).ttl = t.ttl
  <2> DEFINE u == Effect(d, t)
  <2>1. /\ u.indexes = [t.indexes EXCEPT ![i] = s.indexes[i]]
        /\ u.key = t.key /\ u.columns = t.columns /\ u.ttl = t.ttl
        /\ u \in YdbTableDescription /\ t.indexes[i] = None
    BY <1>2, AddIndexEffect
  <2>2. u # None
    BY <2>1, TableParts
  <2> HIDE DEF u
  <2>3. Grown(t, u)
    BY <1>0, <2>1, <2>2 DEF Grown
  <2> QED
    BY <2>1, <2>3 DEF u
<1>3. ASSUME s.ttl # None, d = SetTtl(s.ttl)
      PROVE  /\ Effect(d, t) \in YdbTableDescription
             /\ Grown(t, Effect(d, t))
             /\ Effect(d, t).ttl = s.ttl
  <2> DEFINE u == Effect(d, t)
  <2>1. /\ u.ttl = s.ttl
        /\ u.key = t.key /\ u.columns = t.columns /\ u.indexes = t.indexes
        /\ u \in YdbTableDescription
    BY <1>3, SetTtlEffect
  <2>2. u # None
    BY <2>1, TableParts
  <2> HIDE DEF u
  <2>3. Grown(t, u)
    BY <2>1, <2>2 DEF Grown
  <2> QED
    BY <2>1, <2>3 DEF u
<1>4. \/ \E C \in SUBSET Has(s) : d = AddColumns(s, C)
      \/ \E i \in Indexed(s) : d = AddIndex(s, i)
      \/ s.ttl # None /\ d = SetTtl(s.ttl)
  BY DEF Alterations
<1> QED
  BY <1>1, <1>2, <1>3, <1>4

(* A statement of the plan brings about what it stood for.                 *)
LEMMA OwnStatement ==
  ASSUME NEW s \in ExpectedTableSchema, NEW t \in YdbTableDescription,
         NEW d \in Alterations(s), Applies(d, t), NEW w \in Requests(s),
         NEW D, NEW E, D \subseteq E \cup {d}, Reaching(w, t, D)
  PROVE  Reaching(w, Effect(d, t), E)
<1> DEFINE u == Effect(d, t)
<1>0. Grown(t, Effect(d, t))
  BY ONLY s \in ExpectedTableSchema, t \in YdbTableDescription,
          d \in Alterations(s), Applies(d, t), AlterationGrows
<1>1. \/ Effect(d, t).ttl = t.ttl
      \/ s.ttl # None /\ Effect(d, t).ttl = s.ttl
  BY ONLY s \in ExpectedTableSchema, t \in YdbTableDescription,
          d \in Alterations(s), Applies(d, t), AlterationGrows
<1>w. /\ w.columns = s.columns /\ w.key = s.key /\ w.indexes = s.indexes
      /\ w.ttl \in {s.ttl, None}
      /\ Has(w) = Has(s) /\ Indexed(w) = Indexed(s)
      /\ \A C : AddColumns(w, C) = AddColumns(s, C)
      /\ \A i : AddIndex(w, i) = AddIndex(s, i)
  BY RequestParts
<1>2. Reaching(w, u, D)
  BY <1>0, <1>1, <1>w, GrownReaching
<1>3. ASSUME NEW C \in SUBSET Has(s), d = AddColumns(s, C), NEW c \in C
      PROVE  u.columns[c] = w.columns[c]
  <2>1. u.columns = [k \in Column |-> IF k \in C THEN s.columns[k] ELSE t.columns[k]]
    BY <1>3, AddColumnsEffect
  <2>2. c \in Column
    BY <1>3 DEF Has
  <2> HIDE DEF u
  <2>3. u.columns[c] = s.columns[c]
    BY <2>1, <2>2, <1>3
  <2> QED
    BY <2>3, <1>w
<1>4. ASSUME NEW i \in Indexed(s), d = AddIndex(s, i)
      PROVE  u.indexes[i] # None /\ u.indexes[i] = w.indexes[i]
  <2>1. u.indexes = [t.indexes EXCEPT ![i] = s.indexes[i]]
    BY <1>4, AddIndexEffect
  <2>2. i \in Index /\ s.indexes[i] # None
    BY <1>4 DEF Indexed
  <2>3. t.indexes \in [Index -> ExpectedIndex \cup {None}]
    BY TableParts
  <2> HIDE DEF u
  <2>4. u.indexes[i] = s.indexes[i]
    BY <2>1, <2>2, <2>3
  <2> QED
    BY <2>2, <2>4, <1>w
<1>5. s.ttl # None /\ d = SetTtl(s.ttl) => u.ttl = s.ttl
  BY SetTtlEffect
<1> HIDE DEF u
<1>6. ASSUME NEW c \in Has(w)
      PROVE  \/ u.columns[c] = w.columns[c]
             \/ \E C \in SUBSET Has(w) : c \in C /\ AddColumns(w, C) \in E
  <2>1. ASSUME NEW C \in SUBSET Has(w), c \in C, AddColumns(w, C) \in D,
               AddColumns(w, C) \notin E
        PROVE  u.columns[c] = w.columns[c]
    <3>1. d = AddColumns(s, C) /\ C \in SUBSET Has(s)
      BY <2>1, <1>w
    <3> QED
      BY <3>1, <2>1, <1>3
  <2> QED
    BY <2>1, <1>2 DEF Reaching
<1>7. ASSUME NEW i \in Indexed(w)
      PROVE  \/ u.indexes[i] # None /\ u.indexes[i].columns = w.indexes[i].columns
             \/ AddIndex(w, i) \in E
  <2>1. ASSUME AddIndex(w, i) \in D, AddIndex(w, i) \notin E
        PROVE  u.indexes[i] # None /\ u.indexes[i].columns = w.indexes[i].columns
    <3>1. d = AddIndex(s, i) /\ i \in Indexed(s)
      BY <2>1, <1>w
    <3> QED
      BY <3>1, <1>4
  <2> QED
    BY <2>1, <1>2 DEF Reaching
<1>8. w.ttl = None \/ u.ttl = w.ttl \/ SetTtl(w.ttl) \in E
  <2>1. ASSUME w.ttl # None, SetTtl(w.ttl) \in D, SetTtl(w.ttl) \notin E
        PROVE  u.ttl = w.ttl
    BY <2>1, <1>w, <1>5
  <2> QED
    BY <2>1, <1>2 DEF Reaching
<1>9. u # None /\ u.key = w.key
  BY <1>2 DEF Reaching
<1> QED
  BY <1>6, <1>7, <1>8, <1>9 DEF Reaching, u

LEMMA CreatedReaches ==
  ASSUME NEW s \in ExpectedTableSchema, NEW w \in Requests(s)
  PROVE  /\ Effect(CreateTable(s), None) = s
         /\ Reaching(w, s, {})
<1>1. Effect(CreateTable(s), None) = s
  BY DEF Effect, CreateTable
<1>2. Reaching(w, s, {})
  BY RequestParts, SchemaIsTable DEF Reaching, Indexed
<1> QED
  BY <1>1, <1>2

LEMMA KindsOfPlan ==
  ASSUME NEW s, NEW p,
         p = << >> \/ p = <<CreateTable(s)>> \/ p \in Seq(Alterations(s))
  PROVE  \A n \in DOMAIN p : p[n].kind \in Kinds
<1>1. ASSUME NEW d \in Alterations(s) PROVE d.kind \in Kinds
  <2>1. \A C : AddColumns(s, C).kind \in Kinds
    BY DEF AddColumns, Kinds
  <2>2. \A i : AddIndex(s, i).kind \in Kinds
    BY DEF AddIndex, Kinds
  <2>3. SetTtl(s.ttl).kind \in Kinds
    BY DEF SetTtl, Kinds
  <2> QED
    BY <2>1, <2>2, <2>3 DEF Alterations
<1>2. CreateTable(s).kind \in Kinds
  BY DEF CreateTable, Kinds
<1>3. CASE p \in Seq(Alterations(s))
  BY <1>1, <1>3, ElementOfSeq, LenProperties
<1>4. CASE p = <<CreateTable(s)>>
  BY <1>2, <1>4
<1>5. CASE p = << >>
  BY <1>5
<1> QED
  BY <1>3, <1>4, <1>5

-----------------------------------------------------------------------------
(* The steps. *)

LEMMA TablesParts ==
  /\ Tables \in Seq(Range(Tables)) /\ Len(Tables) \in Nat /\ Len(Tables) > 0
  /\ DOMAIN Tables = 1..Len(Tables)
  /\ \A n \in 1..Len(Tables) : Tables[n] \in Range(Tables)
  /\ \A t \in Range(Tables) : \E n \in 1..Len(Tables) : t = Tables[n]
<1>1. Tables \in Seq(Range(Tables)) /\ Tables # << >>
  BY SyncAssumption
<1>2. Len(Tables) \in Nat /\ DOMAIN Tables = 1..Len(Tables) /\ Len(Tables) # 0
  BY <1>1, LenProperties, EmptySeq
<1> QED
  BY <1>1, <1>2 DEF Range

LEMMA Typing ==
  ASSUME TypeOK
  PROVE  \A r \in Replica :
           /\ at[r] \in 1..Len(Tables) /\ Tables[at[r]] \in Range(Tables)
           /\ \A t \in Range(Tables) :
                /\ version[r][t] \in ExpectedTableSchema
                /\ Wanted(r, t) \in Requests(version[r][t])
                /\ tables[t] \in YdbTableDescription \cup {None}
<1> SUFFICES ASSUME NEW r \in Replica
             PROVE  /\ at[r] \in 1..Len(Tables) /\ Tables[at[r]] \in Range(Tables)
                    /\ \A t \in Range(Tables) :
                         /\ version[r][t] \in ExpectedTableSchema
                         /\ Wanted(r, t) \in Requests(version[r][t])
                         /\ tables[t] \in YdbTableDescription \cup {None}
  OBVIOUS
<1>1. at[r] \in 1..Len(Tables) /\ Tables[at[r]] \in Range(Tables)
  BY TablesParts DEF TypeOK
<1>2. version[r] \in [Range(Tables) -> ExpectedTableSchema]
  BY VersionAssumption DEF TypeOK
<1>3. \A t : Wanted(r, t) \in Requests(version[r][t])
  BY DEF Wanted, Requests
<1> QED
  BY <1>1, <1>2, <1>3 DEF TypeOK

(* Two replicas that both count on a TTL of a table count on the same.     *)
LEMMA OneTtl ==
  ASSUME NEW q \in Replica, NEW r \in Replica, NEW t, TypeOK, t \in Range(Tables)
  PROVE  Wanted(q, t).ttl = None \/ version[r][t].ttl = None
           \/ Wanted(q, t).ttl = version[r][t].ttl
<1>1. CASE SameTtl(q, t)
  BY <1>1 DEF SameTtl, Wanted
<1>2. CASE ~SameTtl(q, t)
  BY <1>2, Typing, WithoutTtl DEF Wanted
<1> QED
  BY <1>1, <1>2

(* What a statement of replica r makes of its table takes nothing from any. *)
LEMMA NothingLost ==
  ASSUME TypeOK, NEW r \in Replica, NEW u, NEW new,
         new = [tables EXCEPT ![Tables[at[r]]] = u],
         \/ Existing(r) = None
         \/ /\ Grown(Existing(r), u)
            /\ \/ u.ttl = Existing(r).ttl
               \/ Expected(r).ttl # None /\ u.ttl = Expected(r).ttl
  PROVE  \A q \in Replica : \A t \in Range(Tables) : \A D :
           Holds(q, t, D) => Reaching(Wanted(q, t), new[t], D)
<1> SUFFICES ASSUME NEW q \in Replica, NEW t \in Range(Tables), NEW D, Holds(q, t, D)
             PROVE  Reaching(Wanted(q, t), new[t], D)
  OBVIOUS
<1>1. CASE t # Tables[at[r]]
  <2>1. new[t] = tables[t]
    BY <1>1
  <2> QED
    BY <2>1 DEF Holds
<1>2. CASE t = Tables[at[r]]
  <2>1. new[t] = u
    BY <1>2 DEF TypeOK
  <2>2. tables[t] # None /\ tables[t] = Existing(r) /\ version[r][t] = Expected(r)
    BY <1>2 DEF Holds, Reaching, Existing, Expected
  <2>3. Grown(tables[t], u)
    BY <2>2
  <2>4. Wanted(q, t).ttl = None \/ u.ttl = tables[t].ttl \/ u.ttl = Wanted(q, t).ttl
    BY <2>2, OneTtl
  <2>5. Reaching(Wanted(q, t), tables[t], D)
    BY DEF Holds
  <2> DEFINE w == Wanted(q, t)
  <2> HIDE DEF w
  <2>6. Reaching(w, u, D)
    BY <2>3, <2>4, <2>5, GrownReaching DEF w
  <2> QED
    BY <2>1, <2>6 DEF w
<1> QED
  BY <1>1, <1>2

LEMMA StaysWanted ==
  ASSUME version' = version
  PROVE  \A q, t : Wanted(q, t)' = Wanted(q, t)
BY DEF Wanted, SameTtl

LEMMA HoldsThen ==
  ASSUME version' = version
  PROVE  \A q, t, D : Holds(q, t, D)' <=> Reaching(Wanted(q, t), tables'[t], D)
BY StaysWanted DEF Holds

(* What a step leaves of the replicas that do not take it.                 *)
LEMMA OthersKeep ==
  ASSUME NEW q \in Replica, TypeOK, Synced(q), Planned(q), version' = version,
         pc'[q] = pc[q], at'[q] = at[q], plan'[q] = plan[q],
         \A t \in Range(Tables) : \A D : Holds(q, t, D) => Holds(q, t, D)'
  PROVE  Synced(q)' /\ Planned(q)'
<1>1. Past(q)' = Past(q)
  BY DEF Past
<1>2. Past(q) \subseteq 1..Len(Tables)
  BY Typing, TablesParts DEF Past, TypeOK
<1>3. Synced(q)'
  BY <1>1, <1>2, TablesParts DEF Synced
<1>4. Planned(q)'
  BY Typing DEF Planned, Expected
<1> QED
  BY <1>3, <1>4

(* The frame of a step of replica r.                                       *)
Others(r) ==
  /\ Plans'
  /\ pc' \in [Replica -> {"describe", "apply", "done", "failed"}]
  /\ at' \in [Replica -> DOMAIN Tables]
  /\ \A q \in Replica \ {r} : pc'[q] = pc[q] /\ at'[q] = at[q] /\ plan'[q] = plan[q]

LEMMA ContinueParts ==
  ASSUME TypeOK, Plans, NEW r \in Replica, NEW rest, Continue(r, rest)
  PROVE  /\ Others(r) /\ plan'[r] = rest
         /\ pc'[r] = IF rest # << >> THEN "apply" ELSE
                     IF at[r] < Len(Tables) THEN "describe" ELSE "done"
         /\ at'[r] = IF rest = << >> /\ at[r] < Len(Tables) THEN at[r] + 1 ELSE at[r]
<1>1. plan' = [plan EXCEPT ![r] = rest]
  BY DEF Continue
<1>2. Plans' /\ plan'[r] = rest /\ \A q \in Replica \ {r} : plan'[q] = plan[q]
  BY <1>1 DEF Plans
<1>3. /\ pc' \in [Replica -> {"describe", "apply", "done", "failed"}]
      /\ \A q \in Replica \ {r} : pc'[q] = pc[q]
      /\ pc'[r] = IF rest # << >> THEN "apply" ELSE
                  IF at[r] < Len(Tables) THEN "describe" ELSE "done"
  BY DEF Continue, TypeOK
<1>4. /\ at[r] \in 1..Len(Tables) /\ Len(Tables) \in Nat /\ DOMAIN Tables = 1..Len(Tables)
      /\ at \in [Replica -> DOMAIN Tables]
  BY Typing, TablesParts DEF TypeOK
<1>5. /\ at' \in [Replica -> DOMAIN Tables]
      /\ \A q \in Replica \ {r} : at'[q] = at[q]
      /\ at'[r] = IF rest = << >> /\ at[r] < Len(Tables) THEN at[r] + 1 ELSE at[r]
  BY <1>4 DEF Continue
<1> QED
  BY <1>2, <1>3, <1>5 DEF Others

LEMMA ThrowParts ==
  ASSUME TypeOK, Plans, NEW r \in Replica, Throw(r)
  PROVE  Others(r) /\ plan'[r] = << >> /\ pc'[r] = "failed"
<1>1. plan' = [plan EXCEPT ![r] = << >>]
  BY DEF Throw
<1>2. Plans' /\ plan'[r] = << >> /\ \A q \in Replica \ {r} : plan'[q] = plan[q]
  BY <1>1 DEF Plans
<1> QED
  BY <1>2 DEF Others, Throw, TypeOK

(* A replica that goes on: what it did for the table it is at is done.     *)
LEMMA ContinueKeeps ==
  ASSUME TypeOK, Plans, NEW r \in Replica, NEW rest, Continue(r, rest),
         pc[r] \in {"describe", "apply"}, Synced(r), version' = version,
         \A t \in Range(Tables) : \A D : Holds(r, t, D) => Holds(r, t, D)',
         rest \in Seq(Alterations(Expected(r))),
         Reaching(Wanted(r, Tables[at[r]]), tables'[Tables[at[r]]], Range(rest))
  PROVE  Synced(r)' /\ Planned(r)'
<1>1. /\ plan'[r] = rest
      /\ pc'[r] = IF rest # << >> THEN "apply" ELSE
                  IF at[r] < Len(Tables) THEN "describe" ELSE "done"
      /\ at'[r] = IF rest = << >> /\ at[r] < Len(Tables) THEN at[r] + 1 ELSE at[r]
  BY ContinueParts
<1>2. /\ at[r] \in 1..Len(Tables) /\ Len(Tables) \in Nat /\ DOMAIN Tables = 1..Len(Tables)
      /\ \A n \in 1..Len(Tables) : Tables[n] \in Range(Tables)
  BY Typing, TablesParts
<1> PICK m : m = at[r]
  OBVIOUS
<1>3. Holds(r, Tables[m], Range(rest))'
  BY HoldsThen
<1>4. \A n \in 1..(m - 1) : Holds(r, Tables[n], {})'
  <2>1. \A n \in 1..(m - 1) : Holds(r, Tables[n], {}) /\ Tables[n] \in Range(Tables)
    BY <1>2 DEF Synced, Past
  <2> QED
    BY <2>1
<1>5. Expected(r)' = Expected(r) \/ rest = << >>
  BY <1>1 DEF Expected
<1>6. CASE rest # << >>
  <2>1. pc'[r] = "apply" /\ at'[r] = m
    BY <1>1, <1>6
  <2>2. Past(r)' = 1..(m - 1)
    BY <2>1 DEF Past
  <2>3. Synced(r)'
    BY <1>4, <2>2 DEF Synced
  <2>4. Planned(r)'
    BY <1>1, <1>3, <1>5, <1>6, <2>1 DEF Planned
  <2> QED
    BY <2>3, <2>4
<1>7. CASE rest = << >>
  <2>1. pc'[r] = "describe" \/ pc'[r] = "done"
    BY <1>1, <1>7
  <2>2. Planned(r)'
    BY <1>1, <1>7, <2>1 DEF Planned
  <2>3. Past(r)' = 1..m
    <3>1. CASE at[r] < Len(Tables)
      <4>1. pc'[r] = "describe" /\ at'[r] - 1 = m
        BY <1>1, <1>2, <1>7, <3>1
      <4> QED
        BY <4>1 DEF Past
    <3>2. CASE ~(at[r] < Len(Tables))
      <4>1. pc'[r] = "done" /\ m = Len(Tables)
        BY <1>1, <1>2, <1>7, <3>2
      <4> QED
        BY <4>1, <1>2 DEF Past
    <3> QED
      BY <3>1, <3>2
  <2>4. Holds(r, Tables[m], {})'
    BY <1>3, <1>7, RangeOne
  <2>5. \A n \in 1..m : n = m \/ n \in 1..(m - 1)
    BY <1>2
  <2>6. Synced(r)'
    BY <1>4, <2>3, <2>4, <2>5 DEF Synced
  <2> QED
    BY <2>2, <2>6
<1> QED
  BY <1>6, <1>7

LEMMA ThrowKeeps ==
  ASSUME TypeOK, Plans, NEW r \in Replica, Throw(r)
  PROVE  Synced(r)' /\ Planned(r)'
<1>1. plan'[r] = << >> /\ pc'[r] = "failed"
  BY ThrowParts
<1>2. Past(r)' = {}
  BY <1>1 DEF Past
<1> QED
  BY <1>1, <1>2 DEF Synced, Planned

(* The invariant from its parts.                                           *)
LEMMA Concluded ==
  ASSUME IInv, NEW r \in Replica, Others(r), version' = version, faults' \in 0..MaxFaults,
         tables' \in [Range(Tables) -> YdbTableDescription \cup {None}],
         \A q \in Replica : \A t \in Range(Tables) : \A D : Holds(q, t, D) => Holds(q, t, D)',
         Synced(r)', Planned(r)'
  PROVE  IInv'
<1>1. ASSUME NEW q \in Replica PROVE Synced(q)' /\ Planned(q)'
  <2>1. CASE q = r
    BY <2>1
  <2>2. CASE q # r
    BY <2>2, OthersKeep DEF Others, IInv
  <2> QED
    BY <2>1, <2>2
<1>2. \A q \in Replica : \A n \in DOMAIN plan'[q] : plan'[q][n].kind \in Kinds
  <2> SUFFICES ASSUME NEW q \in Replica
               PROVE  \A n \in DOMAIN plan'[q] : plan'[q][n].kind \in Kinds
    OBVIOUS
  <2>1. \/ plan'[q] = << >> \/ plan'[q] = <<CreateTable(Expected(q)')>>
        \/ plan'[q] \in Seq(Alterations(Expected(q)'))
    BY <1>1 DEF Planned
  <2> QED
    BY <2>1, KindsOfPlan
<1>3. TypeOK'
  BY <1>2 DEF TypeOK, IInv, Others
<1> QED
  BY <1>1, <1>3 DEF IInv, Others

LEMMA HeadAndTail ==
  ASSUME NEW S, NEW p \in Seq(S), p # << >>
  PROVE  /\ Head(p) \in S /\ Tail(p) \in Seq(S)
         /\ Range(p) \subseteq Range(Tail(p)) \cup {Head(p)}
<1>1. /\ Head(p) \in S /\ Tail(p) \in Seq(S) /\ Len(p) \in Nat /\ Len(p) > 0
      /\ Head(p) = p[1] /\ Len(Tail(p)) = Len(p) - 1
      /\ \A n \in 1..Len(Tail(p)) : Tail(p)[n] = p[n + 1]
      /\ DOMAIN p = 1..Len(p) /\ DOMAIN Tail(p) = 1..Len(Tail(p))
  OBVIOUS
<1>2. ASSUME NEW n \in 1..Len(p), n # 1 PROVE p[n] \in Range(Tail(p))
  <2>1. n - 1 \in DOMAIN Tail(p) /\ Tail(p)[n - 1] = p[n]
    BY <1>1, <1>2
  <2> QED
    BY <2>1 DEF Range
<1> QED
  BY <1>1, <1>2 DEF Range

LEMMA OnWhat ==
  ASSUME NEW s, NEW t, NEW d, Applies(d, t)
  PROVE  /\ d \in Alterations(s) => t # None
         /\ d = CreateTable(s) => t = None
<1>1. CreateTable(s).kind = "create"
  BY DEF CreateTable
<1>2. ASSUME d \in Alterations(s) PROVE d.kind # "create"
  <2>1. \A C : AddColumns(s, C).kind = "add columns"
    BY DEF AddColumns
  <2>2. \A j : AddIndex(s, j).kind = "add index"
    BY DEF AddIndex
  <2>3. SetTtl(s.ttl).kind = "set ttl"
    BY DEF SetTtl
  <2> QED
    BY <1>2, <2>1, <2>2, <2>3 DEF Alterations
<1> QED
  BY <1>1, <1>2 DEF Applies

(* The statement at the head of a plan, when the database takes it.        *)
LEMMA StatementEffect ==
  ASSUME IInv, NEW r \in Replica, pc[r] = "apply", NEW u,
         Applies(Head(plan[r]), Existing(r)), u = Effect(Head(plan[r]), Existing(r))
  PROVE  /\ u \in YdbTableDescription
         /\ \/ Existing(r) = None
            \/ /\ Grown(Existing(r), u)
               /\ \/ u.ttl = Existing(r).ttl
                  \/ Expected(r).ttl # None /\ u.ttl = Expected(r).ttl
         /\ Tail(plan[r]) \in Seq(Alterations(Expected(r)))
         /\ Reaching(Wanted(r, Tables[at[r]]), u, Range(Tail(plan[r])))
<1> DEFINE s == Expected(r)
           t == Existing(r)
           w == Wanted(r, Tables[at[r]])
           d == Head(plan[r])
<1>1. s \in ExpectedTableSchema /\ w \in Requests(s) /\ t \in YdbTableDescription \cup {None}
  BY Typing DEF IInv, Expected, Existing
<1>2. \/ plan[r] = <<CreateTable(s)>>
      \/ /\ plan[r] \in Seq(Alterations(s)) /\ plan[r] # << >>
         /\ Reaching(w, t, Range(plan[r]))
  BY DEF IInv, Planned, Holds, Existing
<1>3. Applies(d, t) /\ u = Effect(d, t)
  OBVIOUS
<1> HIDE DEF s, t, w
<1>4. CASE plan[r] = <<CreateTable(s)>>
  <2>1. d = CreateTable(s) /\ Tail(plan[r]) = << >>
    BY <1>4
  <2>2. t = None
    BY <1>3, <2>1, OnWhat
  <2>3. u = s /\ Reaching(w, s, {})
    BY <1>1, <1>3, <2>1, <2>2, CreatedReaches
  <2>4. u \in YdbTableDescription
    BY <1>1, <2>3, SchemaIsTable
  <2>5. Tail(plan[r]) \in Seq(Alterations(s)) /\ Range(Tail(plan[r])) = {}
    BY <2>1, EmptySeq, RangeOne
  <2> QED
    BY <2>2, <2>3, <2>4, <2>5 DEF s, t, w
<1>5. CASE /\ plan[r] \in Seq(Alterations(s)) /\ plan[r] # << >>
           /\ Reaching(w, t, Range(plan[r]))
  <2>1. /\ d \in Alterations(s) /\ Tail(plan[r]) \in Seq(Alterations(s))
        /\ Range(plan[r]) \subseteq Range(Tail(plan[r])) \cup {d}
    BY <1>5, HeadAndTail
  <2>2. t \in YdbTableDescription
    BY <1>1, <1>3, <2>1, OnWhat
  <2> DEFINE D == Range(plan[r])
             E == Range(Tail(plan[r]))
  <2>3. D \subseteq E \cup {d} /\ Reaching(w, t, D)
    BY <1>5, <2>1
  <2> HIDE DEF D, E, d
  <2>4. /\ u \in YdbTableDescription
        /\ Grown(t, u)
        /\ \/ u.ttl = t.ttl
           \/ s.ttl # None /\ u.ttl = s.ttl
    BY <1>1, <1>3, <2>1, <2>2, AlterationGrows
  <2>5. Reaching(w, u, E)
    BY <1>1, <1>3, <2>1, <2>2, <2>3, OwnStatement
  <2> QED
    BY <2>1, <2>4, <2>5 DEF s, t, w, E
<1> QED
  BY <1>2, <1>4, <1>5

(* What it leaves of what each replica counts on.                          *)
LEMMA StatementKeeps ==
  ASSUME IInv, NEW r \in Replica, pc[r] = "apply", version' = version,
         Applies(Head(plan[r]), Existing(r)),
         tables' = [tables EXCEPT ![Tables[at[r]]] = Effect(Head(plan[r]), @)]
  PROVE  /\ tables' \in [Range(Tables) -> YdbTableDescription \cup {None}]
         /\ \A q \in Replica : \A t \in Range(Tables) : \A D :
              Holds(q, t, D) => Holds(q, t, D)'
         /\ Tail(plan[r]) \in Seq(Alterations(Expected(r)))
         /\ Reaching(Wanted(r, Tables[at[r]]), tables'[Tables[at[r]]], Range(Tail(plan[r])))
         /\ \A t \in Range(Tables) : tables[t] # None => Grown(tables[t], tables'[t])
<1>1. PICK u : u = Effect(Head(plan[r]), Existing(r))
  OBVIOUS
<1>2. tables' = [tables EXCEPT ![Tables[at[r]]] = u]
  BY <1>1 DEF Existing
<1>3. /\ u \in YdbTableDescription
      /\ \/ Existing(r) = None
         \/ /\ Grown(Existing(r), u)
            /\ \/ u.ttl = Existing(r).ttl
               \/ Expected(r).ttl # None /\ u.ttl = Expected(r).ttl
      /\ Tail(plan[r]) \in Seq(Alterations(Expected(r)))
      /\ Reaching(Wanted(r, Tables[at[r]]), u, Range(Tail(plan[r])))
  BY <1>1, StatementEffect
<1>4. Tables[at[r]] \in Range(Tables) /\ DOMAIN tables = Range(Tables)
  BY Typing DEF IInv, TypeOK
<1>5. /\ tables'[Tables[at[r]]] = u
      /\ \A t \in Range(Tables) : t # Tables[at[r]] => tables'[t] = tables[t]
      /\ tables' \in [Range(Tables) -> YdbTableDescription \cup {None}]
  BY <1>2, <1>3, <1>4 DEF IInv, TypeOK
<1>6. \A q \in Replica : \A t \in Range(Tables) : \A D :
        Holds(q, t, D) => Reaching(Wanted(q, t), tables'[t], D)
  BY <1>2, <1>3, NothingLost DEF IInv
<1>7. \A q \in Replica : \A t \in Range(Tables) : \A D :
        Holds(q, t, D) => Holds(q, t, D)'
  BY <1>6, HoldsThen
<1>8. Reaching(Wanted(r, Tables[at[r]]), tables'[Tables[at[r]]], Range(Tail(plan[r])))
  BY <1>3, <1>5
<1>9. ASSUME NEW t \in Range(Tables), tables[t] # None
      PROVE  Grown(tables[t], tables'[t])
  <2>1. CASE t = Tables[at[r]]
    BY <2>1, <1>3, <1>5, <1>9 DEF Existing
  <2>2. CASE t # Tables[at[r]]
    BY <2>2, <1>5, <1>9 DEF Grown
  <2> QED
    BY <2>1, <2>2
<1> QED
  BY <1>3, <1>5, <1>7, <1>8, <1>9

LEMMA QuietKeeps ==
  ASSUME version' = version, tables' = tables
  PROVE  \A q \in Replica : \A t \in Range(Tables) : \A D : Holds(q, t, D) => Holds(q, t, D)'
BY HoldsThen DEF Holds

LEMMA DescribeStep ==
  ASSUME IInv, NEW r \in Replica, Describe(r)
  PROVE  IInv'
<1> DEFINE T == Tables[at[r]]
           rest == SyncPlan(Expected(r), Existing(r))
<1>1. /\ pc[r] = "describe" /\ ~Refused(r) /\ Continue(r, rest)
      /\ version' = version /\ tables' = tables /\ faults' = faults
  BY DEF Describe
<1>2. TypeOK /\ Plans /\ Synced(r)
  BY DEF IInv
<1>3. Others(r)
  BY <1>1, <1>2, ContinueParts
<1>4. T \in Range(Tables) /\ Expected(r) \in ExpectedTableSchema
      /\ Wanted(r, T) \in Requests(Expected(r))
      /\ Existing(r) \in YdbTableDescription \cup {None}
  BY <1>2, Typing DEF Expected, Existing
<1>5. \A q \in Replica : \A t \in Range(Tables) : \A D : Holds(q, t, D) => Holds(q, t, D)'
  BY <1>1, QuietKeeps
<1>6. CASE Existing(r) # None
  <2>1. ~Immutable(Expected(r), Existing(r)) /\ Existing(r) \in YdbTableDescription
    BY <1>1, <1>4, <1>6 DEF Refused
  <2>2. /\ rest \in Seq(Alterations(Expected(r)))
        /\ Reaching(Wanted(r, T), Existing(r), Range(rest))
    BY <1>4, <2>1, PlanReaches
  <2>3. Reaching(Wanted(r, T), tables'[T], Range(rest))
    BY <1>1, <2>2 DEF Existing
  <2> HIDE DEF rest
  <2>4. Synced(r)' /\ Planned(r)'
    BY <1>1, <1>2, <1>5, <2>2, <2>3, ContinueKeeps
  <2> QED
    BY <1>1, <1>2, <1>3, <1>5, <2>4, Concluded DEF TypeOK
<1>7. CASE Existing(r) = None
  <2>1. rest = <<CreateTable(Expected(r))>> /\ rest # << >>
    BY <1>7 DEF SyncPlan
  <2> HIDE DEF rest
  <2>2. plan'[r] = rest /\ pc'[r] = "apply" /\ at'[r] = at[r]
    BY <1>1, <1>2, <2>1, ContinueParts
  <2>3. Expected(r)' = Expected(r)
    BY <1>1, <2>2 DEF Expected
  <2>4. Planned(r)'
    BY <2>1, <2>2, <2>3 DEF Planned
  <2>5. Past(r)' = Past(r)
    BY <1>1, <2>2 DEF Past
  <2>6. \A n \in Past(r) : Tables[n] \in Range(Tables)
    BY <1>1, <1>2, Typing, TablesParts DEF Past
  <2>7. Synced(r)'
    BY <1>2, <1>5, <2>5, <2>6 DEF Synced
  <2> QED
    BY <1>1, <1>2, <1>3, <1>5, <2>4, <2>7, Concluded DEF TypeOK
<1> QED
  BY <1>6, <1>7

LEMMA ExecuteDdlStep ==
  ASSUME IInv, NEW r \in Replica, ExecuteDdl(r)
  PROVE  IInv'
<1> DEFINE rest == Tail(plan[r])
<1>1. /\ pc[r] = "apply" /\ Applies(Head(plan[r]), Existing(r)) /\ Continue(r, rest)
      /\ version' = version /\ faults' = faults
      /\ tables' = [tables EXCEPT ![Tables[at[r]]] = Effect(Head(plan[r]), @)]
  BY DEF ExecuteDdl
<1>2. TypeOK /\ Plans /\ Synced(r)
  BY DEF IInv
<1>3. /\ tables' \in [Range(Tables) -> YdbTableDescription \cup {None}]
      /\ \A q \in Replica : \A t \in Range(Tables) : \A D :
           Holds(q, t, D) => Holds(q, t, D)'
      /\ rest \in Seq(Alterations(Expected(r)))
      /\ Reaching(Wanted(r, Tables[at[r]]), tables'[Tables[at[r]]], Range(rest))
  BY <1>1, StatementKeeps
<1> HIDE DEF rest
<1>4. Others(r)
  BY <1>1, <1>2, ContinueParts
<1>5. Synced(r)' /\ Planned(r)'
  BY <1>1, <1>2, <1>3, ContinueKeeps
<1> QED
  BY <1>1, <1>2, <1>3, <1>4, <1>5, Concluded DEF TypeOK

LEMMA AnswerLostStep ==
  ASSUME IInv, NEW r \in Replica, AnswerLost(r)
  PROVE  IInv'
<1>1. /\ pc[r] = "apply" /\ Applies(Head(plan[r]), Existing(r)) /\ Throw(r)
      /\ version' = version /\ faults' = faults + 1 /\ faults < MaxFaults
      /\ tables' = [tables EXCEPT ![Tables[at[r]]] = Effect(Head(plan[r]), @)]
  BY DEF AnswerLost
<1>2. /\ tables' \in [Range(Tables) -> YdbTableDescription \cup {None}]
      /\ \A q \in Replica : \A t \in Range(Tables) : \A D :
           Holds(q, t, D) => Holds(q, t, D)'
  BY <1>1, StatementKeeps
<1>3. Others(r) /\ Synced(r)' /\ Planned(r)'
  BY <1>1, ThrowParts, ThrowKeeps DEF IInv
<1>4. faults' \in 0..MaxFaults
  BY <1>1, SyncAssumption DEF IInv, TypeOK
<1> QED
  BY <1>1, <1>2, <1>3, <1>4, Concluded

(* sync() throws, or the replica is killed, and nothing was written.       *)
LEMMA ThrowStep ==
  ASSUME IInv, NEW r \in Replica, Refuse(r) \/ DdlRejected(r) \/ Fault(r)
  PROVE  IInv'
<1>1. Throw(r) /\ version' = version /\ tables' = tables /\ faults' \in 0..MaxFaults
  BY SyncAssumption DEF Refuse, DdlRejected, Fault, IInv, TypeOK
<1>2. Others(r) /\ Synced(r)' /\ Planned(r)'
  BY <1>1, ThrowParts, ThrowKeeps DEF IInv
<1>3. tables' \in [Range(Tables) -> YdbTableDescription \cup {None}]
  BY <1>1 DEF IInv, TypeOK
<1> QED
  BY <1>1, <1>2, <1>3, QuietKeeps, Concluded

LEMMA RestartStep ==
  ASSUME IInv, NEW r \in Replica, Restart(r)
  PROVE  IInv'
<1>1. /\ version' = version /\ tables' = tables /\ faults' = faults /\ plan' = plan
      /\ pc[r] = "failed"
      /\ pc' = [pc EXCEPT ![r] = "describe"] /\ at' = [at EXCEPT ![r] = 1]
  BY DEF Restart
<1>2. /\ pc'[r] = "describe" /\ at'[r] = 1
      /\ pc' \in [Replica -> {"describe", "apply", "done", "failed"}]
      /\ at' \in [Replica -> DOMAIN Tables]
      /\ \A q \in Replica \ {r} : pc'[q] = pc[q] /\ at'[q] = at[q]
  BY <1>1, TablesParts DEF IInv, TypeOK
<1>3. Others(r)
  BY <1>1, <1>2 DEF Others, IInv, Plans
<1>4. Past(r)' = 1..0
  BY <1>2 DEF Past
<1>5. Synced(r)'
  BY <1>4 DEF Synced
<1>6. Planned(r)'
  BY <1>1, <1>2 DEF IInv, Planned
<1>7. tables' \in [Range(Tables) -> YdbTableDescription \cup {None}] /\ faults' \in 0..MaxFaults
  BY <1>1 DEF IInv, TypeOK
<1> QED
  BY <1>1, <1>3, <1>5, <1>6, <1>7, QuietKeeps, Concluded

LEMMA InitIInv == ASSUME Init PROVE IInv
<1>1. TypeOK
  BY InitialAssumption, SyncAssumption, TablesParts DEF Init, TypeOK
<1>2. Plans /\ \A r \in Replica : Planned(r)
  BY DEF Init, Plans, Planned
<1>3. \A r \in Replica : Past(r) = 1..0
  BY DEF Init, Past
<1>4. \A r \in Replica : Synced(r)
  BY <1>3 DEF Synced
<1> QED
  BY <1>1, <1>2, <1>4 DEF IInv

LEMMA StepIInv == ASSUME IInv, [Next]_vars PROVE IInv'
<1>1. CASE Next
  <2>1. PICK r \in Replica : Sync(r) \/ Restart(r) \/ Fault(r) \/ AnswerLost(r)
    BY <1>1 DEF Next
  <2> QED
    BY <2>1, DescribeStep, ExecuteDdlStep, AnswerLostStep, ThrowStep, RestartStep DEF Sync
<1>2. CASE UNCHANGED vars
  <2>1. /\ tables' = tables /\ version' = version /\ pc' = pc /\ at' = at
        /\ plan' = plan /\ faults' = faults
    BY <1>2 DEF vars
  <2>2. ASSUME NEW q \in Replica PROVE Synced(q)' /\ Planned(q)'
    BY <2>1, QuietKeeps, OthersKeep DEF IInv
  <2>3. TypeOK' /\ Plans'
    BY <2>1 DEF IInv, TypeOK, Plans
  <2> QED
    BY <2>2, <2>3 DEF IInv
<1> QED
  BY <1>1, <1>2

-----------------------------------------------------------------------------
(* The database only ever holds tables whose key and indexes are on columns *)
(* they have, each replica is at a table of its list, and all that it is    *)
(* about to execute are statements.                                        *)
THEOREM TypeCorrect == Spec => []TypeOK
<1>1. Init => IInv
  BY InitIInv
<1>2. IInv /\ [Next]_vars => IInv'
  BY StepIInv
<1>3. IInv => TypeOK
  BY DEF IInv
<1> QED
  BY <1>1, <1>2, <1>3, PTL DEF Spec

(* In a table that has all that is wanted, verify() finds nothing missing. *)
LEMMA ReachedIsClean ==
  ASSUME NEW w, NEW t, Reaching(w, t, {})
  PROVE  t # None /\ Clean(w, t)
<1>1. t # None /\ t.key = w.key
  BY DEF Reaching
<1>2. \A c \in Has(w) : t.columns[c] = w.columns[c]
  BY DEF Reaching
<1>3. \A i \in Indexed(w) : t.indexes[i] # None /\ t.indexes[i].columns = w.indexes[i].columns
  BY DEF Reaching
<1>4. w.ttl = None \/ t.ttl = w.ttl
  BY DEF Reaching
<1>5. MissingColumns(w, t) = {} /\ TypeMismatches(w, t) = {}
  BY <1>2 DEF MissingColumns, TypeMismatches, Has
<1>6. MissingIndexes(w, t) = {} /\ IndexColumnsMismatches(w, t) = {}
  BY <1>3 DEF MissingIndexes, IndexColumnsMismatches, Indexed
<1> QED
  BY <1>1, <1>4, <1>5, <1>6 DEF Clean, Immutable, PrimaryKeyMatches, TtlToSet

(* A replica whose sync() returned has a table for each of its entities in  *)
(* which nothing it declares is missing or different, from then on and      *)
(* however many replicas of however many versions start, fail, are killed   *)
(* and start again meanwhile: without a lock, what sync() promised when it  *)
(* returned stays true.                                                    *)
THEOREM SyncedForGood == Spec => []SyncedStaysClean
<1>1. Init => IInv
  BY InitIInv
<1>2. IInv /\ [Next]_vars => IInv'
  BY StepIInv
<1>3. ASSUME IInv PROVE SyncedStaysClean
  <2> SUFFICES ASSUME NEW r \in Replica, pc[r] = "done", NEW t \in Range(Tables)
               PROVE  tables[t] # None /\ Clean(Wanted(r, t), tables[t])
    BY DEF SyncedStaysClean, Wanted
  <2>1. Past(r) = 1..Len(Tables)
    BY TablesParts DEF Past
  <2>2. \E n \in 1..Len(Tables) : t = Tables[n]
    BY TablesParts
  <2>3. Reaching(Wanted(r, t), tables[t], {})
    BY <1>3, <2>1, <2>2 DEF IInv, Synced, Holds
  <2> QED
    BY <2>3, ReachedIsClean
<1> QED
  BY <1>1, <1>2, <1>3, PTL DEF Spec

(* No statement takes anything from a table: sync() adds columns and        *)
(* indexes, and sets the TTL.                                              *)
OnlyAdds == [][\A t \in Range(Tables) : tables[t] # None => Grown(tables[t], tables'[t])]_vars

(* sync() only adds: whatever replicas of whatever versions do to a table   *)
(* that is there, it stays, with its key, and no column of it and no index  *)
(* is dropped or redefined.                                                *)
THEOREM NothingIsDropped == Spec => OnlyAdds
<1> DEFINE Adds == \A t \in Range(Tables) : tables[t] # None => Grown(tables[t], tables'[t])
<1>1. Init => IInv
  BY InitIInv
<1>2. IInv /\ [Next]_vars => IInv'
  BY StepIInv
<1>3. ASSUME IInv, Next PROVE Adds
  <2>1. PICK r \in Replica : Sync(r) \/ Restart(r) \/ Fault(r) \/ AnswerLost(r)
    BY <1>3 DEF Next
  <2>2. CASE ExecuteDdl(r) \/ AnswerLost(r)
    <3>1. /\ pc[r] = "apply" /\ Applies(Head(plan[r]), Existing(r)) /\ version' = version
          /\ tables' = [tables EXCEPT ![Tables[at[r]]] = Effect(Head(plan[r]), @)]
      BY <2>2 DEF ExecuteDdl, AnswerLost
    <3> QED
      BY <1>3, <3>1, StatementKeeps
  <2>3. CASE ~(ExecuteDdl(r) \/ AnswerLost(r))
    <3>1. tables' = tables
      BY <2>1, <2>3 DEF Sync, Describe, Refuse, DdlRejected, Fault, Restart
    <3> QED
      BY <3>1 DEF Grown
  <2> QED
    BY <2>2, <2>3
<1>4. IInv /\ [Next]_vars => [Adds]_vars
  BY <1>3
<1> HIDE DEF Adds
<1>5. Spec => [][Adds]_vars
  BY <1>1, <1>2, <1>4, PTL DEF Spec
<1> QED
  BY <1>5 DEF OnlyAdds, Adds

-----------------------------------------------------------------------------
(* Lists of statements run to their end.                                   *)

LEMMA LeastNumber ==
  ASSUME NEW S \in SUBSET Nat, S # {}
  PROVE  \E n \in S : \A m \in S : n <= m
<1> PICK b \in S : TRUE
  OBVIOUS
<1> DEFINE R == StrictSubsetOrdering(0..b)
           F == {0..n : n \in S \cap 0..b}
<1>1. IsFiniteSet(0..b)
  BY FS_Interval
<1>2. IsWellFoundedOn(R, SUBSET (0..b))
  BY <1>1, FS_StrictSubsetOrderingWellFounded, FS_FiniteSubsetsOfFinite
<1>3. F \subseteq SUBSET (0..b) /\ F # {}
  OBVIOUS
<1>4. PICK T \in F : \A U \in F : ~ (<<U, T>> \in R)
  <2> HIDE DEF F, R
  <2> QED BY <1>2, <1>3, WFMin
<1>5. PICK n \in S \cap 0..b : T = 0..n
  BY <1>4
<1>6. ASSUME NEW m \in S, m < n PROVE FALSE
  <2>1. 0..m \in F
    BY <1>6
  <2>2. 0..m \subseteq 0..n /\ 0..m # 0..n
    <3>1. n \in 0..n /\ n \notin 0..m
      BY <1>6
    <3> QED BY <1>6, <3>1
  <2>3. <<0..m, T>> \in R
    BY <1>5, <2>1, <2>2, <1>3, <1>4 DEF StrictSubsetOrdering
  <2> QED BY <2>1, <2>3, <1>4
<1> QED BY <1>6

(* One statement of a list. *)
Ran(d, run) == IF run.ok /\ Applies(d, run.table) THEN [run EXCEPT !.table = Effect(d, @)]
                                                  ELSE [run EXCEPT !.ok = FALSE]

Fresh(t) == [ok |-> TRUE, table |-> t]

(* Replayed folds over the positions of the list: f has what each set of    *)
(* them makes of the table.                                                *)
Replays(ds, t, f, S) ==
  f = [s \in SUBSET S |-> IF s = {} THEN Fresh(t) ELSE Ran(ds[Max(s)], f[s \ {Max(s)}])]

Replayable(ds, t, n) == \E f : Replays(ds, t, f, 1..n)

LEMMA ReplayedIsFold ==
  ASSUME NEW ds, NEW t
  PROVE  Replayed(ds, t) = (CHOOSE f : Replays(ds, t, f, DOMAIN ds))[DOMAIN ds]
BY DEF Replayed, FoldLeft, MapThenFoldSet, Replays, Ran, Fresh

LEMMA LastOf ==
  ASSUME NEW n \in Nat \ {0}, NEW s \in SUBSET (1..n), n \in s
  PROVE  Max(s) = n
<1>1. n \in s /\ \A y \in s : n >= y
  OBVIOUS
<1>2. \A x \in s : (\A y \in s : x >= y) => x = n
  OBVIOUS
<1> DEFINE Q(x) == x \in s /\ \A y \in s : x >= y
<1>3. Q(n) /\ \A x : Q(x) => x = n
  BY <1>1, <1>2
<1> HIDE DEF Q
<1>4. (CHOOSE x : Q(x)) = n
  BY <1>3
<1> QED
  BY <1>4 DEF Max, Q

LEMMA AllReplayable ==
  ASSUME NEW ds, NEW t, NEW n \in Nat
  PROVE  Replayable(ds, t, n)
<1> SUFFICES ASSUME ~Replayable(ds, t, n) PROVE FALSE
  OBVIOUS
<1> DEFINE S == {m \in Nat : ~Replayable(ds, t, m)}
<1>1. S \in SUBSET Nat /\ S # {}
  OBVIOUS
<1> HIDE DEF S
<1>2. PICK j \in S : \A m \in S : j <= m
  BY <1>1, LeastNumber
<1>3. j \in Nat /\ ~Replayable(ds, t, j)
  BY DEF S
<1>4. CASE j = 0
  <2> DEFINE f == [s \in SUBSET (1..j) |-> Fresh(t)]
  <2>1. SUBSET (1..j) = {{}}
    BY <1>4
  <2>2. Replays(ds, t, f, 1..j)
    BY <2>1 DEF Replays
  <2> HIDE DEF f
  <2> QED
    BY <1>3, <2>2 DEF Replayable
<1>5. CASE j # 0
  <2>1. j - 1 \in Nat /\ j \in Nat \ {0}
    BY <1>3, <1>5
  <2>2. j - 1 \notin S
    BY <1>2, <2>1
  <2>3. PICK f : Replays(ds, t, f, 1..(j - 1))
    BY <2>1, <2>2 DEF S, Replayable
  <2> DEFINE g == [s \in SUBSET (1..j) |->
                     IF j \in s THEN Ran(ds[j], f[s \ {j}]) ELSE f[s]]
  <2>4. ASSUME NEW s \in SUBSET (1..j)
        PROVE  g[s] = IF s = {} THEN Fresh(t) ELSE Ran(ds[Max(s)], g[s \ {Max(s)}])
    <3>1. CASE j \in s
      <4>1. Max(s) = j /\ s # {}
        BY <2>1, <3>1, LastOf
      <4>2. s \ {j} \in SUBSET (1..j) /\ j \notin s \ {j}
        OBVIOUS
      <4>3. g[s \ {j}] = f[s \ {j}]
        BY <4>2
      <4> QED
        BY <3>1, <4>1, <4>3
    <3>2. CASE j \notin s
      <4>1. s \in SUBSET (1..(j - 1))
        BY <2>1, <3>2
      <4>2. g[s] = f[s]
        BY <3>2
      <4>3. f[s] = IF s = {} THEN Fresh(t) ELSE Ran(ds[Max(s)], f[s \ {Max(s)}])
        BY <2>3, <4>1 DEF Replays
      <4>4. s \ {Max(s)} \in SUBSET (1..j) /\ j \notin s \ {Max(s)}
        BY <3>2
      <4>5. g[s \ {Max(s)}] = f[s \ {Max(s)}]
        BY <4>4
      <4> QED
        BY <4>2, <4>3, <4>5
    <3> QED
      BY <3>1, <3>2
  <2>5. g = [s \in SUBSET (1..j) |-> g[s]]
    OBVIOUS
  <2> HIDE DEF g
  <2>6. Replays(ds, t, g, 1..j)
    BY <2>4, <2>5 DEF Replays
  <2> QED
    BY <1>3, <2>6 DEF Replayable
<1> QED
  BY <1>4, <1>5

(* The runs of the beginnings of a list. *)
LEMMA ReplayedRuns ==
  ASSUME NEW S, NEW ds \in Seq(S), NEW t
  PROVE  \E run : /\ run[0] = Fresh(t)
                  /\ \A k \in 1..Len(ds) : run[k] = Ran(ds[k], run[k - 1])
                  /\ Replayed(ds, t) = run[Len(ds)]
<1> DEFINE N == Len(ds)
           f == CHOOSE f : Replays(ds, t, f, 1..N)
<1>1. N \in Nat /\ DOMAIN ds = 1..N
  OBVIOUS
<1>2. Replays(ds, t, f, 1..N)
  BY <1>1, AllReplayable DEF Replayable
<1>3. Replayed(ds, t) = f[1..N]
  BY <1>1, ReplayedIsFold
<1> HIDE DEF N, f
<1> DEFINE run == [k \in 0..N |-> f[1..k]]
<1>4. run[0] = Fresh(t)
  <2>1. 1..0 = {} /\ 0 \in 0..N /\ {} \in SUBSET (1..N)
    BY <1>1
  <2>2. f[{}] = Fresh(t)
    BY <1>2, <2>1 DEF Replays
  <2> QED
    BY <2>1, <2>2
<1>5. ASSUME NEW k \in 1..N PROVE run[k] = Ran(ds[k], run[k - 1])
  <2>1. k \in Nat \ {0} /\ k \in 0..N /\ k - 1 \in 0..N /\ 1..k \in SUBSET (1..N) /\ k \in 1..k
    BY <1>1, <1>5
  <2>2. Max(1..k) = k
    BY <2>1, LastOf
  <2>3. (1..k) \ {k} = 1..(k - 1) /\ 1..k # {}
    BY <2>1
  <2>4. f[1..k] = Ran(ds[k], f[1..(k - 1)])
    BY <1>2, <2>1, <2>2, <2>3 DEF Replays
  <2> QED
    BY <2>1, <2>4
<1>6. run[N] = f[1..N]
  BY <1>1
<1> HIDE DEF run
<1> QED
  BY <1>3, <1>4, <1>5, <1>6 DEF N

(* A list that is accepted to its end, through the tables of e.            *)
Leads(ds, e) ==
  \A k \in 1..Len(ds) : Applies(ds[k], e[k - 1]) /\ e[k] = Effect(ds[k], e[k - 1])

Along(ds, t, u) == \E e : e[0] = t /\ e[Len(ds)] = u /\ Leads(ds, e)

(* Where every statement is accepted, the run goes through the tables of e. *)
LEMMA RunAlong ==
  ASSUME NEW n \in Nat, NEW ds, NEW e, NEW run, run[0] = Fresh(e[0]),
         \A k \in 1..n : /\ run[k] = Ran(ds[k], run[k - 1])
                        /\ Applies(ds[k], e[k - 1]) /\ e[k] = Effect(ds[k], e[k - 1])
  PROVE  run[n] = Fresh(e[n])
<1> DEFINE B == {k \in 0..n : run[k] # Fresh(e[k])}
<1>1. ASSUME B # {} PROVE FALSE
  <2>1. B \in SUBSET Nat
    OBVIOUS
  <2> HIDE DEF B
  <2>2. PICK j \in B : \A m \in B : j <= m
    BY <1>1, <2>1, LeastNumber
  <2>3. j \in 0..n /\ run[j] # Fresh(e[j])
    BY DEF B
  <2>4. j \in 1..n /\ j - 1 \in 0..n /\ ~(j <= j - 1)
    BY <2>3
  <2>5. run[j - 1] = Fresh(e[j - 1])
    BY <2>2, <2>4 DEF B
  <2>6. Applies(ds[j], e[j - 1]) /\ e[j] = Effect(ds[j], e[j - 1])
        /\ run[j] = Ran(ds[j], Fresh(e[j - 1]))
    BY <2>4, <2>5
  <2>7. Ran(ds[j], Fresh(e[j - 1])) = Fresh(Effect(ds[j], e[j - 1]))
    BY <2>6 DEF Ran, Fresh
  <2> QED
    BY <2>3, <2>6, <2>7
<1> QED
  BY <1>1

LEMMA AlongReplayed ==
  ASSUME NEW S, NEW ds \in Seq(S), NEW t, NEW u, Along(ds, t, u)
  PROVE  Replayed(ds, t) = Fresh(u)
<1>1. PICK e : e[0] = t /\ e[Len(ds)] = u /\ Leads(ds, e)
  BY DEF Along
<1>2. PICK run : /\ run[0] = Fresh(t)
                 /\ \A k \in 1..Len(ds) : run[k] = Ran(ds[k], run[k - 1])
                 /\ Replayed(ds, t) = run[Len(ds)]
  BY ReplayedRuns
<1>3. Len(ds) \in Nat /\ run[0] = Fresh(e[0])
  BY <1>1, <1>2
<1>4. \A k \in 1..Len(ds) : /\ run[k] = Ran(ds[k], run[k - 1])
                           /\ Applies(ds[k], e[k - 1]) /\ e[k] = Effect(ds[k], e[k - 1])
  BY <1>1, <1>2 DEF Leads
<1>5. run[Len(ds)] = Fresh(e[Len(ds)])
  BY <1>3, <1>4, RunAlong
<1> QED
  BY <1>1, <1>2, <1>5

LEMMA AlongNothing == ASSUME NEW t PROVE Along(<< >>, t, t)
<1> DEFINE e == [k \in {0} |-> t]
<1>1. e[0] = t /\ e[Len(<< >>)] = t /\ Leads(<< >>, e)
  BY DEF Leads
<1> QED
  BY <1>1 DEF Along

LEMMA AlongOne ==
  ASSUME NEW d, NEW t, Applies(d, t)
  PROVE  Along(<<d>>, t, Effect(d, t))
<1> DEFINE u == Effect(d, t)
<1> HIDE DEF u
<1> DEFINE e == [k \in {0, 1} |-> IF k = 0 THEN t ELSE u]
<1>1. e[0] = t /\ e[1] = u /\ Len(<<d>>) = 1 /\ <<d>>[1] = d
  OBVIOUS
<1>2. Leads(<<d>>, e)
  BY <1>1 DEF Leads, u
<1> HIDE DEF e
<1> QED
  BY <1>1, <1>2 DEF Along, u

LEMMA AlongBoth ==
  ASSUME NEW S, NEW a \in Seq(S), NEW b \in Seq(S), NEW t, NEW u, NEW v,
         Along(a, t, u), Along(b, u, v)
  PROVE  Along(a \o b, t, v)
<1>1. PICK e : e[0] = t /\ e[Len(a)] = u /\ Leads(a, e)
  BY DEF Along
<1>2. PICK f : f[0] = u /\ f[Len(b)] = v /\ Leads(b, f)
  BY DEF Along
<1> DEFINE g == [k \in 0..(Len(a) + Len(b)) |-> IF k <= Len(a) THEN e[k] ELSE f[k - Len(a)]]
<1>3. /\ Len(a) \in Nat /\ Len(b) \in Nat /\ Len(a \o b) = Len(a) + Len(b)
      /\ \A k \in 1..(Len(a) + Len(b)) :
           (a \o b)[k] = IF k <= Len(a) THEN a[k] ELSE b[k - Len(a)]
  OBVIOUS
<1>4. /\ \A k \in 0..Len(a) : g[k] = e[k]
      /\ \A k \in 0..Len(b) : g[Len(a) + k] = f[k]
  BY <1>1, <1>2, <1>3
<1> HIDE DEF g
<1>5. ASSUME NEW k \in 1..(Len(a) + Len(b))
      PROVE  Applies((a \o b)[k], g[k - 1]) /\ g[k] = Effect((a \o b)[k], g[k - 1])
  <2>1. CASE k <= Len(a)
    <3>1. k \in 1..Len(a) /\ k \in 0..Len(a) /\ k - 1 \in 0..Len(a)
      BY <1>3, <2>1
    <3>2. (a \o b)[k] = a[k] /\ g[k] = e[k] /\ g[k - 1] = e[k - 1]
      BY <1>3, <1>4, <2>1, <3>1
    <3>3. Applies(a[k], e[k - 1]) /\ e[k] = Effect(a[k], e[k - 1])
      BY <1>1, <3>1 DEF Leads
    <3> QED
      BY <3>2, <3>3
  <2>2. CASE k > Len(a)
    <3> DEFINE l == k - Len(a)
    <3>1. l \in 1..Len(b) /\ l \in 0..Len(b) /\ l - 1 \in 0..Len(b)
          /\ k = Len(a) + l /\ k - 1 = Len(a) + (l - 1) /\ ~(k <= Len(a))
      BY <1>3, <2>2
    <3>2. (a \o b)[k] = b[l]
      BY <1>3, <3>1
    <3> HIDE DEF l
    <3>3. g[k] = f[l] /\ g[k - 1] = f[l - 1]
      BY <1>4, <3>1
    <3>4. Applies(b[l], f[l - 1]) /\ f[l] = Effect(b[l], f[l - 1])
      BY <1>2, <3>1 DEF Leads
    <3> QED
      BY <3>2, <3>3, <3>4
  <2> QED
    BY <1>3, <2>1, <2>2
<1>6. Leads(a \o b, g)
  BY <1>3, <1>5 DEF Leads
<1>7. g[0] = t /\ g[Len(a \o b)] = v
  BY <1>1, <1>2, <1>3, <1>4
<1> QED
  BY <1>6, <1>7 DEF Along

(* A last statement that is rejected. *)
LEMMA RejectedLast ==
  ASSUME NEW S, NEW a \in Seq(S), NEW d \in S, NEW t, NEW u, Along(a, t, u), ~Applies(d, u)
  PROVE  ~Replayed(a \o <<d>>, t).ok
<1> DEFINE ds == a \o <<d>>
<1>1. /\ ds \in Seq(S) /\ Len(a) \in Nat /\ Len(ds) = Len(a) + 1 /\ ds[Len(a) + 1] = d
      /\ \A k \in 1..Len(a) : ds[k] = a[k]
  OBVIOUS
<1> HIDE DEF ds
<1>2. PICK e : e[0] = t /\ e[Len(a)] = u /\ Leads(a, e)
  BY DEF Along
<1>3. PICK run : /\ run[0] = Fresh(t)
                 /\ \A k \in 1..Len(ds) : run[k] = Ran(ds[k], run[k - 1])
                 /\ Replayed(ds, t) = run[Len(ds)]
  BY <1>1, ReplayedRuns
<1>4. \A k \in 1..Len(a) : /\ run[k] = Ran(a[k], run[k - 1])
                          /\ Applies(a[k], e[k - 1]) /\ e[k] = Effect(a[k], e[k - 1])
  BY <1>1, <1>2, <1>3 DEF Leads
<1>a. run[Len(a)] = Fresh(e[Len(a)])
  <2>1. Len(a) \in Nat /\ run[0] = Fresh(e[0])
    BY <1>1, <1>2, <1>3
  <2> QED
    BY <1>4, <2>1, RunAlong
<1>5. run[Len(a)] = Fresh(u)
  BY <1>2, <1>a
<1>6. Len(ds) \in 1..Len(ds) /\ Len(ds) - 1 = Len(a)
  BY <1>1
<1>7. run[Len(ds)] = Ran(d, Fresh(u))
  BY <1>1, <1>3, <1>5, <1>6
<1>8. ~Ran(d, Fresh(u)).ok
  BY DEF Ran, Fresh
<1> QED
  BY <1>3, <1>7, <1>8 DEF ds

-----------------------------------------------------------------------------
(* The statements of a migration. *)

(* Table t with columns K, indexes J of schema s besides its own. *)
Altered(t, s, K, J, ttl) ==
  [columns |-> [c \in Column |-> IF c \in K THEN s.columns[c] ELSE t.columns[c]],
   key     |-> t.key,
   indexes |-> [i \in Index |-> IF i \in J THEN s.indexes[i] ELSE t.indexes[i]],
   ttl     |-> ttl]

(* One that a migration from t to s goes through. *)
OnTheWay(t, s, K, J, ttl) ==
  /\ K \subseteq MissingColumns(s, t) /\ J \subseteq MissingIndexes(s, t)
  /\ \A i \in J : Range(s.indexes[i].columns) \subseteq Has(t) \cup K
  /\ \/ ttl = t.ttl
     \/ ttl = s.ttl /\ ttl # None /\ Altered(t, s, K, J, ttl).columns[ttl.column] \in Temporal

LEMMA AlteredParts ==
  ASSUME NEW s \in ExpectedTableSchema, NEW t \in YdbTableDescription, NEW K, NEW J, NEW ttl,
         OnTheWay(t, s, K, J, ttl)
  PROVE  LET u == Altered(t, s, K, J, ttl)
         IN  /\ u \in YdbTableDescription /\ u # None
             /\ Has(u) = Has(t) \cup K /\ Indexed(u) = Indexed(t) \cup J
<1> DEFINE u == Altered(t, s, K, J, ttl)
<1>1. /\ u.columns = [c \in Column |-> IF c \in K THEN s.columns[c] ELSE t.columns[c]]
      /\ u.key = t.key
      /\ u.indexes = [i \in Index |-> IF i \in J THEN s.indexes[i] ELSE t.indexes[i]]
      /\ u.ttl = ttl
      /\ u = [columns |-> u.columns, key |-> u.key, indexes |-> u.indexes, ttl |-> u.ttl]
  BY DEF Altered
<1> HIDE DEF u
<1>2. /\ K \subseteq Has(s) /\ K \cap Has(t) = {}
      /\ J \subseteq Indexed(s) /\ J \cap Indexed(t) = {}
      /\ \A i \in J : Range(s.indexes[i].columns) \subseteq Has(t) \cup K
  BY DEF OnTheWay, MissingColumns, MissingIndexes
<1>3. Has(u) = Has(t) \cup K
  BY <1>1, <1>2 DEF Has
<1>4. Indexed(u) = Indexed(t) \cup J
  BY <1>1, <1>2 DEF Indexed
<1>5. /\ u.columns \in [Column -> Type \cup {Unsupported} \cup {None}]
      /\ u.key \in Seq(Column)
      /\ u.indexes \in [Index -> ExpectedIndex \cup {None}]
      /\ u.ttl \in YdbTableTtl \cup {None}
  BY <1>1, SchemaParts, TableParts DEF OnTheWay
<1>6. u \in Shape(Type \cup {Unsupported})
  BY <1>1, <1>5 DEF Shape
<1>7. Range(u.key) \subseteq Has(u)
  BY <1>1, <1>3, TableParts DEF OnItsColumns
<1>8. ASSUME NEW i \in Indexed(u) PROVE Range(u.indexes[i].columns) \subseteq Has(u)
  <2>1. CASE i \in J
    BY <1>1, <1>2, <1>3, <2>1 DEF Indexed
  <2>2. CASE i \notin J
    <3>1. i \in Indexed(t) /\ u.indexes[i] = t.indexes[i]
      BY <1>1, <1>4, <1>8, <2>2 DEF Indexed
    <3> QED
      BY <1>3, <3>1, TableParts DEF OnItsColumns
  <2> QED
    BY <2>1, <2>2
<1>9. ASSUME u.ttl # None PROVE u.columns[u.ttl.column] \in Temporal
  <2>1. CASE ttl = t.ttl
    <3>1. t.ttl.column \in Has(t) /\ t.columns[t.ttl.column] \in Temporal
      BY <1>1, <1>9, <2>1, TableParts, TtlColumn
    <3> QED
      BY <1>1, <1>2, <2>1, <3>1 DEF Has
  <2>2. CASE ttl # t.ttl
    BY <1>1, <2>2 DEF OnTheWay, u
  <2> QED
    BY <2>1, <2>2
<1>10. OnItsColumns(u)
  BY <1>7, <1>8, <1>9 DEF OnItsColumns
<1>11. u \in YdbTableDescription
  BY <1>6, <1>10 DEF YdbTableDescription
<1> QED
  BY <1>3, <1>4, <1>11, TableParts DEF u

LEMMA TableIsRecord ==
  ASSUME NEW t \in YdbTableDescription
  PROVE  t = [columns |-> t.columns, key |-> t.key, indexes |-> t.indexes, ttl |-> t.ttl]
BY DEF YdbTableDescription, Shape

LEMMA Unaltered ==
  ASSUME NEW s, NEW t \in YdbTableDescription
  PROVE  Altered(t, s, {}, {}, t.ttl) = t /\ OnTheWay(t, s, {}, {}, t.ttl)
<1>1. t.columns = [c \in Column |-> t.columns[c]] /\ t.indexes = [i \in Index |-> t.indexes[i]]
  BY TableParts
<1>2. Altered(t, s, {}, {}, t.ttl)
        = [columns |-> [c \in Column |-> t.columns[c]], key |-> t.key,
           indexes |-> [i \in Index |-> t.indexes[i]], ttl |-> t.ttl]
  BY DEF Altered
<1>3. OnTheWay(t, s, {}, {}, t.ttl)
  BY DEF OnTheWay
<1> QED
  BY <1>1, <1>2, <1>3, TableIsRecord

LEMMA ColumnsAdded ==
  ASSUME NEW s \in ExpectedTableSchema, NEW t \in YdbTableDescription,
         NEW C \in SUBSET MissingColumns(s, t)
  PROVE  Along(Columns(s, C), t, Altered(t, s, C, {}, t.ttl))
<1>1. CASE C = {}
  BY <1>1, Unaltered, AlongNothing DEF Columns
<1>2. CASE C # {}
  <2> DEFINE d == AddColumns(s, C)
  <2>1. /\ d.kind = "add columns" /\ DOMAIN d.columns = C
        /\ \A c \in C : d.columns[c] = s.columns[c]
    BY DEF AddColumns
  <2>2. C \cap Has(t) = {}
    BY DEF MissingColumns
  <2>3. Applies(d, t)
    BY <2>1, <2>2, TableParts DEF Applies
  <2>4. C \in SUBSET Has(s)
    BY DEF MissingColumns
  <2>5. Effect(d, t) = [t EXCEPT !.columns = [c \in Column |->
             IF c \in DOMAIN d.columns THEN d.columns[c] ELSE @[c]]]
    BY <2>1 DEF Effect
  <2> HIDE DEF d
  <2>6. [c \in Column |-> IF c \in DOMAIN d.columns THEN d.columns[c] ELSE t.columns[c]]
          = [c \in Column |-> IF c \in C THEN s.columns[c] ELSE t.columns[c]]
    BY <2>1
  <2>7. Effect(d, t)
          = [columns |-> [c \in Column |-> IF c \in C THEN s.columns[c] ELSE t.columns[c]],
             key |-> t.key, indexes |-> t.indexes, ttl |-> t.ttl]
    BY <2>5, <2>6, TableIsRecord
  <2>8. t.indexes = [i \in Index |-> t.indexes[i]]
    BY TableParts
  <2>9. Altered(t, s, C, {}, t.ttl)
          = [columns |-> [c \in Column |-> IF c \in C THEN s.columns[c] ELSE t.columns[c]],
             key |-> t.key, indexes |-> [i \in Index |-> t.indexes[i]], ttl |-> t.ttl]
    BY DEF Altered
  <2>10. Effect(d, t) = Altered(t, s, C, {}, t.ttl)
    BY <2>7, <2>8, <2>9
  <2>11. Along(<<d>>, t, Effect(d, t))
    BY <2>3, AlongOne
  <2> QED
    BY <1>2, <2>10, <2>11 DEF Columns, d
<1> QED
  BY <1>1, <1>2

LEMMA IndexAdded ==
  ASSUME NEW s \in ExpectedTableSchema, NEW t \in YdbTableDescription,
         NEW K, NEW J, NEW i, OnTheWay(t, s, K, J \cup {i}, t.ttl), i \notin J
  PROVE  /\ Applies(AddIndex(s, i), Altered(t, s, K, J, t.ttl))
         /\ Effect(AddIndex(s, i), Altered(t, s, K, J, t.ttl)) = Altered(t, s, K, J \cup {i}, t.ttl)
<1> DEFINE d == AddIndex(s, i)
           u == Altered(t, s, K, J, t.ttl)
<1>1. d.kind = "add index" /\ d.index = i /\ d.as = s.indexes[i]
  BY DEF AddIndex
<1>2. OnTheWay(t, s, K, J, t.ttl)
  BY DEF OnTheWay
<1>3. u # None /\ Has(u) = Has(t) \cup K
  BY <1>2, AlteredParts
<1>4. i \in Index /\ t.indexes[i] = None /\ Range(s.indexes[i].columns) \subseteq Has(t) \cup K
  BY DEF OnTheWay, MissingIndexes, Indexed
<1>5. u.indexes[i] = None
  BY <1>4 DEF Altered
<1>6. Effect(d, u) = [u EXCEPT !.indexes[i] = s.indexes[i]]
  BY <1>1 DEF Effect
<1>7. [u EXCEPT !.indexes[i] = s.indexes[i]] = Altered(t, s, K, J \cup {i}, t.ttl)
  <2> DEFINE f == [j \in Index |-> IF j \in J THEN s.indexes[j] ELSE t.indexes[j]]
             g == [j \in Index |-> IF j \in J \cup {i} THEN s.indexes[j] ELSE t.indexes[j]]
  <2>1. [f EXCEPT ![i] = s.indexes[i]] = g
    BY <1>4
  <2> DEFINE cs == [c \in Column |-> IF c \in K THEN s.columns[c] ELSE t.columns[c]]
  <2>2. u = [columns |-> cs, key |-> t.key, indexes |-> f, ttl |-> t.ttl]
    BY DEF Altered
  <2>3. Altered(t, s, K, J \cup {i}, t.ttl)
          = [columns |-> cs, key |-> t.key, indexes |-> g, ttl |-> t.ttl]
    BY DEF Altered
  <2> HIDE DEF u, cs, f, g
  <2> QED
    BY <2>1, <2>2, <2>3
<1> HIDE DEF d, u
<1>8. Applies(d, u)
  BY <1>1, <1>3, <1>4, <1>5 DEF Applies
<1> QED
  BY <1>6, <1>7, <1>8 DEF d, u

LEMMA IndexDropped ==
  ASSUME NEW s \in ExpectedTableSchema, NEW t \in YdbTableDescription,
         NEW K, NEW J, NEW i \in J, NEW L, L = J \ {i}, OnTheWay(t, s, K, J, t.ttl)
  PROVE  /\ Applies(DropIndex(i), Altered(t, s, K, J, t.ttl))
         /\ Effect(DropIndex(i), Altered(t, s, K, J, t.ttl)) = Altered(t, s, K, L, t.ttl)
<1> DEFINE d == DropIndex(i)
           u == Altered(t, s, K, J, t.ttl)
<1>1. d.kind = "drop index" /\ d.index = i
  BY DEF DropIndex
<1>2. u # None
  BY AlteredParts
<1>3. i \in Index /\ t.indexes[i] = None /\ s.indexes[i] # None
  BY DEF OnTheWay, MissingIndexes, Indexed
<1>4. u.indexes[i] = s.indexes[i]
  BY <1>3 DEF Altered
<1>5. Effect(d, u) = [u EXCEPT !.indexes[i] = None]
  BY <1>1 DEF Effect
<1>6. [u EXCEPT !.indexes[i] = None] = Altered(t, s, K, L, t.ttl)
  <2> DEFINE f == [j \in Index |-> IF j \in J THEN s.indexes[j] ELSE t.indexes[j]]
             g == [j \in Index |-> IF j \in L THEN s.indexes[j] ELSE t.indexes[j]]
  <2>1. [f EXCEPT ![i] = None] = g
    BY <1>3
  <2> DEFINE cs == [c \in Column |-> IF c \in K THEN s.columns[c] ELSE t.columns[c]]
  <2>2. u = [columns |-> cs, key |-> t.key, indexes |-> f, ttl |-> t.ttl]
    BY DEF Altered
  <2>3. Altered(t, s, K, L, t.ttl)
          = [columns |-> cs, key |-> t.key, indexes |-> g, ttl |-> t.ttl]
    BY DEF Altered
  <2> HIDE DEF u, cs, f, g
  <2> QED
    BY <2>1, <2>2, <2>3
<1> HIDE DEF d, u
<1>7. Applies(d, u)
  BY <1>1, <1>2, <1>3, <1>4 DEF Applies
<1> QED
  BY <1>5, <1>6, <1>7 DEF d, u

LEMMA ColumnDropped ==
  ASSUME NEW s \in ExpectedTableSchema, NEW t \in YdbTableDescription,
         NEW K, NEW c \in K, OnTheWay(t, s, K, {}, t.ttl)
  PROVE  /\ Applies(DropColumn(c), Altered(t, s, K, {}, t.ttl))
         /\ Effect(DropColumn(c), Altered(t, s, K, {}, t.ttl)) = Altered(t, s, K \ {c}, {}, t.ttl)
<1> DEFINE d == DropColumn(c)
           u == Altered(t, s, K, {}, t.ttl)
<1>1. d.kind = "drop column" /\ d.column = c
  BY DEF DropColumn
<1>2. u # None /\ Has(u) = Has(t) \cup K /\ Indexed(u) = Indexed(t)
  BY AlteredParts
<1>3. c \in Column /\ c \notin Has(t) /\ t.columns[c] = None
  BY DEF OnTheWay, MissingColumns, Has
<1>4. /\ u.key = t.key /\ u.ttl = t.ttl
      /\ \A i \in Index : u.indexes[i] = t.indexes[i]
  BY DEF Altered
<1>5. c \notin Range(u.key)
  BY <1>3, <1>4, TableParts DEF OnItsColumns
<1>6. ~InIndex(u, c)
  BY <1>2, <1>3, <1>4, TableParts DEF OnItsColumns, InIndex, Indexed
<1>7. ~InTtl(u, c)
  BY <1>3, <1>4, TableParts, TtlColumn DEF InTtl
<1>8. Effect(d, u) = [u EXCEPT !.columns[c] = None]
  BY <1>1 DEF Effect
<1>9. [u EXCEPT !.columns[c] = None] = Altered(t, s, K \ {c}, {}, t.ttl)
  <2> DEFINE f == [k \in Column |-> IF k \in K THEN s.columns[k] ELSE t.columns[k]]
             g == [k \in Column |-> IF k \in K \ {c} THEN s.columns[k] ELSE t.columns[k]]
  <2>1. [f EXCEPT ![c] = None] = g
    BY <1>3
  <2> DEFINE is == [i \in Index |-> IF i \in {} THEN s.indexes[i] ELSE t.indexes[i]]
  <2>2. u = [columns |-> f, key |-> t.key, indexes |-> is, ttl |-> t.ttl]
    BY DEF Altered
  <2>3. Altered(t, s, K \ {c}, {}, t.ttl)
          = [columns |-> g, key |-> t.key, indexes |-> is, ttl |-> t.ttl]
    BY DEF Altered
  <2> HIDE DEF u, is, f, g
  <2> QED
    BY <2>1, <2>2, <2>3
<1> HIDE DEF d, u
<1>10. Applies(d, u)
  BY <1>1, <1>2, <1>5, <1>6, <1>7 DEF Applies
<1> QED
  BY <1>8, <1>9, <1>10 DEF d, u

LEMMA TtlSet ==
  ASSUME NEW s, NEW t, NEW K, NEW J, NEW old, NEW ttl, Altered(t, s, K, J, old) # None,
         Altered(t, s, K, J, old).columns[ttl.column] \in Temporal
  PROVE  Along(<<SetTtl(ttl)>>, Altered(t, s, K, J, old), Altered(t, s, K, J, ttl))
<1> DEFINE d == SetTtl(ttl)
           u == Altered(t, s, K, J, old)
<1>1. d.kind = "set ttl" /\ d.ttl = ttl
  BY DEF SetTtl
<1>2. Effect(d, u) = [u EXCEPT !.ttl = ttl]
  BY <1>1 DEF Effect
<1>3. [u EXCEPT !.ttl = ttl] = Altered(t, s, K, J, ttl)
  <2> DEFINE cs == [c \in Column |-> IF c \in K THEN s.columns[c] ELSE t.columns[c]]
             is == [i \in Index |-> IF i \in J THEN s.indexes[i] ELSE t.indexes[i]]
  <2>1. \A x : Altered(t, s, K, J, x) = [columns |-> cs, key |-> t.key, indexes |-> is, ttl |-> x]
    BY DEF Altered
  <2> HIDE DEF cs, is
  <2> QED
    BY <2>1
<1> HIDE DEF d, u
<1>4. Applies(d, u)
  BY <1>1 DEF Applies, u
<1>5. Along(<<d>>, u, Effect(d, u))
  BY <1>4, AlongOne
<1> QED
  BY <1>2, <1>3, <1>5 DEF d, u

LEMMA TtlReset ==
  ASSUME NEW s, NEW t, NEW K, NEW J, NEW old, Altered(t, s, K, J, old) # None
  PROVE  Along(<<ResetTtl>>, Altered(t, s, K, J, old), Altered(t, s, K, J, None))
<1> DEFINE d == ResetTtl
           u == Altered(t, s, K, J, old)
<1>1. d.kind = "reset ttl"
  BY DEF ResetTtl
<1>2. Effect(d, u) = [u EXCEPT !.ttl = None]
  BY <1>1 DEF Effect
<1>3. [u EXCEPT !.ttl = None] = Altered(t, s, K, J, None)
  <2> DEFINE cs == [c \in Column |-> IF c \in K THEN s.columns[c] ELSE t.columns[c]]
             is == [i \in Index |-> IF i \in J THEN s.indexes[i] ELSE t.indexes[i]]
  <2>1. \A x : Altered(t, s, K, J, x) = [columns |-> cs, key |-> t.key, indexes |-> is, ttl |-> x]
    BY DEF Altered
  <2> HIDE DEF cs, is
  <2> QED
    BY <2>1
<1> HIDE DEF d, u
<1>4. Applies(d, u)
  BY <1>1 DEF Applies, u
<1>5. Along(<<d>>, u, Effect(d, u))
  BY <1>4, AlongOne
<1> QED
  BY <1>2, <1>3, <1>5 DEF d, u

(* A set, one after the other. *)
Enumerates(is, S) ==
  /\ is \in Seq(S) /\ Range(is) = S
  /\ \A m, n \in 1..Len(is) : is[m] = is[n] => m = n

Listed(is, k) == {is[n] : n \in 1..k}

LEMMA Enumerated ==
  ASSUME NEW S, IsFiniteSet(S)
  PROVE  Enumerates(SetToSeq(S), S) /\ Enumerates(Reverse(SetToSeq(S)), S)
<1> DEFINE is == SetToSeq(S)
           rs == Reverse(is)
<1>1. /\ is \in Seq(S) /\ Range(is) = S
      /\ \A i, j \in 1..Len(is) : is[i] = is[j] => i = j
  BY SetToSeqRange
<1> HIDE DEF is
<1>2. Len(is) \in Nat /\ DOMAIN is = 1..Len(is)
  BY <1>1
<1>3. rs = [i \in 1..Len(is) |-> is[(Len(is) - i) + 1]]
  BY DEF Reverse
<1>4. \A i \in 1..Len(is) : (Len(is) - i) + 1 \in 1..Len(is)
  BY <1>2
<1>5. rs \in Seq(S) /\ Len(rs) = Len(is)
  BY <1>1, <1>2, <1>3, <1>4
<1>6. Range(rs) = S
  <2>1. Range(rs) \subseteq S
    BY <1>5 DEF Range
  <2>2. ASSUME NEW x \in S PROVE x \in Range(rs)
    <3>1. PICK i \in 1..Len(is) : is[i] = x
      BY <1>1, <1>2 DEF Range
    <3> DEFINE j == (Len(is) - i) + 1
    <3>2. j \in 1..Len(is) /\ (Len(is) - j) + 1 = i
      BY <1>2, <3>1
    <3>3. rs[j] = x /\ j \in DOMAIN rs
      BY <1>3, <3>1, <3>2
    <3> QED
      BY <3>3 DEF Range
  <2> QED
    BY <2>1, <2>2
<1>7. ASSUME NEW i \in 1..Len(is), NEW j \in 1..Len(is), rs[i] = rs[j] PROVE i = j
  <2>1. (Len(is) - i) + 1 = (Len(is) - j) + 1
    BY <1>1, <1>3, <1>4, <1>7
  <2> QED
    BY <1>2, <2>1
<1> HIDE DEF rs
<1> QED
  BY <1>1, <1>5, <1>6, <1>7 DEF Enumerates, is, rs

LEMMA ListedParts ==
  ASSUME NEW S, NEW is, Enumerates(is, S)
  PROVE  /\ Len(is) \in Nat
         /\ Listed(is, 0) = {} /\ Listed(is, Len(is)) = S
         /\ \A k \in 1..Len(is) :
              /\ is[k] \in S /\ is[k] \notin Listed(is, k - 1)
              /\ Listed(is, k) = Listed(is, k - 1) \cup {is[k]}
              /\ Listed(is, k) \subseteq S
<1>1. Len(is) \in Nat /\ DOMAIN is = 1..Len(is) /\ \A k \in 1..Len(is) : is[k] \in S
  BY DEF Enumerates
<1>2. Listed(is, 0) = {} /\ Listed(is, Len(is)) = S
  BY <1>1 DEF Listed, Enumerates, Range
<1>3. ASSUME NEW k \in 1..Len(is)
      PROVE  /\ is[k] \notin Listed(is, k - 1)
             /\ Listed(is, k) = Listed(is, k - 1) \cup {is[k]}
             /\ Listed(is, k) \subseteq S
  <2>1. 1..k = 1..(k - 1) \cup {k} /\ 1..k \subseteq 1..Len(is) /\ k \notin 1..(k - 1)
    BY <1>1
  <2>2. Listed(is, k) = Listed(is, k - 1) \cup {is[k]}
    BY <2>1 DEF Listed
  <2>3. is[k] \notin Listed(is, k - 1)
    BY <2>1 DEF Listed, Enumerates
  <2>4. Listed(is, k) \subseteq S
    BY <1>1, <2>1 DEF Listed
  <2> QED
    BY <2>2, <2>3, <2>4
<1> QED
  BY <1>1, <1>2, <1>3

LEMMA IndexesAdded ==
  ASSUME NEW s \in ExpectedTableSchema, NEW t \in YdbTableDescription,
         NEW K, NEW I, IsFiniteSet(I), OnTheWay(t, s, K, I, t.ttl)
  PROVE  Along(Indexes(s, I), Altered(t, s, K, {}, t.ttl), Altered(t, s, K, I, t.ttl))
<1> DEFINE is == SetToSeq(I)
           ds == [n \in 1..Len(is) |-> AddIndex(s, is[n])]
           e == [k \in 0..Len(is) |-> Altered(t, s, K, Listed(is, k), t.ttl)]
<1>1. Enumerates(is, I) /\ Indexes(s, I) = ds
  BY Enumerated DEF Indexes
<1> HIDE DEF is
<1>2. /\ Len(is) \in Nat
      /\ Listed(is, 0) = {} /\ Listed(is, Len(is)) = I
      /\ \A k \in 1..Len(is) :
           /\ is[k] \in I /\ is[k] \notin Listed(is, k - 1)
           /\ Listed(is, k) = Listed(is, k - 1) \cup {is[k]}
           /\ Listed(is, k) \subseteq I
  BY <1>1, ListedParts
<1>3. Len(ds) = Len(is)
  BY <1>2
<1>4. ASSUME NEW k \in 1..Len(is)
      PROVE  Applies(ds[k], e[k - 1]) /\ e[k] = Effect(ds[k], e[k - 1])
  <2>1. k \in 0..Len(is) /\ k - 1 \in 0..Len(is)
    BY <1>2
  <2> DEFINE J == Listed(is, k - 1)
             i == is[k]
  <2>2. /\ ds[k] = AddIndex(s, i) /\ e[k - 1] = Altered(t, s, K, J, t.ttl)
        /\ e[k] = Altered(t, s, K, J \cup {i}, t.ttl)
    BY <1>2, <2>1
  <2>3. J \cup {i} \subseteq I /\ i \notin J
    BY <1>2
  <2> HIDE DEF J, i
  <2>4. OnTheWay(t, s, K, J \cup {i}, t.ttl)
    BY <2>3 DEF OnTheWay
  <2> QED
    BY <2>2, <2>3, <2>4, IndexAdded
<1>5. e[0] = Altered(t, s, K, {}, t.ttl) /\ e[Len(ds)] = Altered(t, s, K, I, t.ttl)
  BY <1>2, <1>3
<1> HIDE DEF e
<1>6. Leads(ds, e)
  BY <1>3, <1>4 DEF Leads
<1> QED
  BY <1>1, <1>5, <1>6 DEF Along

LEMMA IndexesDropped ==
  ASSUME NEW s \in ExpectedTableSchema, NEW t \in YdbTableDescription,
         NEW K, NEW I, IsFiniteSet(I), OnTheWay(t, s, K, I, t.ttl)
  PROVE  Along(Dropped(I), Altered(t, s, K, I, t.ttl), Altered(t, s, K, {}, t.ttl))
<1> DEFINE is == Reverse(SetToSeq(I))
           ds == [n \in 1..Len(is) |-> DropIndex(is[n])]
           e == [k \in 0..Len(is) |-> Altered(t, s, K, I \ Listed(is, k), t.ttl)]
<1>1. Enumerates(is, I) /\ Dropped(I) = ds
  BY Enumerated DEF Dropped
<1> HIDE DEF is
<1>2. /\ Len(is) \in Nat
      /\ Listed(is, 0) = {} /\ Listed(is, Len(is)) = I
      /\ \A k \in 1..Len(is) :
           /\ is[k] \in I /\ is[k] \notin Listed(is, k - 1)
           /\ Listed(is, k) = Listed(is, k - 1) \cup {is[k]}
           /\ Listed(is, k) \subseteq I
  BY <1>1, ListedParts
<1>3. Len(ds) = Len(is)
  BY <1>2
<1>4. ASSUME NEW k \in 1..Len(is)
      PROVE  Applies(ds[k], e[k - 1]) /\ e[k] = Effect(ds[k], e[k - 1])
  <2>1. k \in 0..Len(is) /\ k - 1 \in 0..Len(is)
    BY <1>2
  <2> DEFINE J == I \ Listed(is, k - 1)
             L == I \ Listed(is, k)
             i == is[k]
  <2>2. J \subseteq I /\ i \in J /\ L = J \ {i}
    BY <1>2
  <2>3. /\ ds[k] = DropIndex(i) /\ e[k - 1] = Altered(t, s, K, J, t.ttl)
        /\ e[k] = Altered(t, s, K, L, t.ttl)
    BY <2>1
  <2> HIDE DEF J, L, i, ds, e
  <2>4. OnTheWay(t, s, K, J, t.ttl)
    BY <2>2 DEF OnTheWay
  <2>5. /\ Applies(DropIndex(i), Altered(t, s, K, J, t.ttl))
        /\ Effect(DropIndex(i), Altered(t, s, K, J, t.ttl)) = Altered(t, s, K, L, t.ttl)
    BY <2>2, <2>4, IndexDropped
  <2> QED
    BY <2>3, <2>5
<1>5. e[0] = Altered(t, s, K, I, t.ttl) /\ e[Len(ds)] = Altered(t, s, K, {}, t.ttl)
  <2>1. I \ Listed(is, 0) = I /\ I \ Listed(is, Len(is)) = {}
    BY <1>2
  <2>2. /\ e[0] = Altered(t, s, K, I \ Listed(is, 0), t.ttl)
        /\ e[Len(ds)] = Altered(t, s, K, I \ Listed(is, Len(is)), t.ttl)
    BY <1>2, <1>3
  <2> HIDE DEF e, ds
  <2> QED
    BY <2>1, <2>2
<1> HIDE DEF e
<1>6. Leads(ds, e)
  BY <1>3, <1>4 DEF Leads
<1> QED
  BY <1>1, <1>5, <1>6 DEF Along

LEMMA ColumnsDropped ==
  ASSUME NEW s \in ExpectedTableSchema, NEW t \in YdbTableDescription,
         NEW C \in SUBSET MissingColumns(s, t), IsFiniteSet(C)
  PROVE  Along(Removed(C), Altered(t, s, C, {}, t.ttl), Altered(t, s, {}, {}, t.ttl))
<1> DEFINE cs == Reverse(SetToSeq(C))
           ds == [n \in 1..Len(cs) |-> DropColumn(cs[n])]
           e == [k \in 0..Len(cs) |-> Altered(t, s, C \ Listed(cs, k), {}, t.ttl)]
<1>1. Enumerates(cs, C) /\ Removed(C) = ds
  BY Enumerated DEF Removed
<1> HIDE DEF cs
<1>2. /\ Len(cs) \in Nat
      /\ Listed(cs, 0) = {} /\ Listed(cs, Len(cs)) = C
      /\ \A k \in 1..Len(cs) :
           /\ cs[k] \in C /\ cs[k] \notin Listed(cs, k - 1)
           /\ Listed(cs, k) = Listed(cs, k - 1) \cup {cs[k]}
           /\ Listed(cs, k) \subseteq C
  BY <1>1, ListedParts
<1>3. Len(ds) = Len(cs)
  BY <1>2
<1>4. ASSUME NEW k \in 1..Len(cs)
      PROVE  Applies(ds[k], e[k - 1]) /\ e[k] = Effect(ds[k], e[k - 1])
  <2>1. k \in 0..Len(cs) /\ k - 1 \in 0..Len(cs)
    BY <1>2
  <2> DEFINE K == C \ Listed(cs, k - 1)
             c == cs[k]
  <2>2. C \ Listed(cs, k) = K \ {c}
    BY <1>2
  <2>3. /\ ds[k] = DropColumn(c) /\ e[k - 1] = Altered(t, s, K, {}, t.ttl)
        /\ e[k] = Altered(t, s, K \ {c}, {}, t.ttl)
    BY <2>1, <2>2
  <2>4. K \subseteq C /\ c \in K
    BY <1>2
  <2> HIDE DEF K, c, ds, e
  <2>5. OnTheWay(t, s, K, {}, t.ttl)
    BY <2>4 DEF OnTheWay
  <2>6. /\ Applies(DropColumn(c), Altered(t, s, K, {}, t.ttl))
        /\ Effect(DropColumn(c), Altered(t, s, K, {}, t.ttl)) = Altered(t, s, K \ {c}, {}, t.ttl)
    BY <2>4, <2>5, ColumnDropped
  <2> QED
    BY <2>3, <2>6
<1>5. e[0] = Altered(t, s, C, {}, t.ttl) /\ e[Len(ds)] = Altered(t, s, {}, {}, t.ttl)
  <2>1. C \ Listed(cs, 0) = C /\ C \ Listed(cs, Len(cs)) = {}
    BY <1>2
  <2>2. /\ e[0] = Altered(t, s, C \ Listed(cs, 0), {}, t.ttl)
        /\ e[Len(ds)] = Altered(t, s, C \ Listed(cs, Len(cs)), {}, t.ttl)
    BY <1>2, <1>3
  <2> HIDE DEF e, ds
  <2> QED
    BY <2>1, <2>2
<1> HIDE DEF e
<1>6. Leads(ds, e)
  BY <1>3, <1>4 DEF Leads
<1> QED
  BY <1>1, <1>5, <1>6 DEF Along

-----------------------------------------------------------------------------
(* A migration, up and down. *)

(* What a likely rename keeps from the plan is no part of the structure.    *)
LEMMA PlannedParts ==
  ASSUME NEW s \in ExpectedTableSchema, NEW t \in YdbTableDescription
  PROVE  LET C == PlannedColumns(s, t)
             I == MissingIndexes(s, t)
         IN  /\ C \subseteq MissingColumns(s, t) /\ IsFiniteSet(C) /\ IsFiniteSet(I)
             /\ OnTheWay(t, s, C, I, t.ttl)
             /\ \A c \in Has(s) : Structural(s, c) => c \in Has(t) \cup C
<1> DEFINE C == PlannedColumns(s, t)
           I == MissingIndexes(s, t)
<1>1. C \subseteq MissingColumns(s, t)
  BY DEF PlannedColumns
<1>2. IsFiniteSet(C) /\ IsFiniteSet(I)
  BY SchemaParts, FS_Subset DEF PlannedColumns, MissingColumns, MissingIndexes
<1>3. ASSUME NEW c \in Has(s), Structural(s, c) PROVE c \in Has(t) \cup C
  <2>1. \A p \in LikelyRenames(s, t) : ~Structural(s, p[2])
    BY DEF LikelyRenames
  <2> QED
    BY <1>3, <2>1 DEF PlannedColumns, MissingColumns
<1>4. ASSUME NEW i \in I PROVE Range(s.indexes[i].columns) \subseteq Has(t) \cup C
  <2>1. i \in Indexed(s)
    BY <1>4 DEF MissingIndexes
  <2>2. Range(s.indexes[i].columns) \subseteq Has(s)
    BY <2>1, SchemaParts DEF OnItsColumns
  <2>3. \A c \in Range(s.indexes[i].columns) : Structural(s, c)
    BY <2>1 DEF Structural, InIndex
  <2> QED
    BY <1>3, <2>2, <2>3
<1>5. OnTheWay(t, s, C, I, t.ttl)
  BY <1>1, <1>4 DEF OnTheWay
<1> QED
  BY <1>1, <1>2, <1>3, <1>5

(* The table a migration leads to, if its TTL is accepted. *)
NewTtl(s, t) == IF TtlToSet(s, t) THEN s.ttl ELSE t.ttl
Migrated(s, t, ttl) == Altered(t, s, PlannedColumns(s, t), MissingIndexes(s, t), ttl)

TtlAccepted(s, t) ==
  TtlToSet(s, t) => Migrated(s, t, t.ttl).columns[s.ttl.column] \in Temporal

LEMMA UpTo ==
  ASSUME NEW s \in ExpectedTableSchema, NEW t \in YdbTableDescription
  PROVE  IF TtlAccepted(s, t)
         THEN Replayed(PlannedUp(s, t), t) = Fresh(Migrated(s, t, NewTtl(s, t)))
         ELSE ~Replayed(PlannedUp(s, t), t).ok
<1> DEFINE C == PlannedColumns(s, t)
           I == MissingIndexes(s, t)
           a == Columns(s, C)
           b == Indexes(s, I)
           S == {AddColumns(s, C), SetTtl(s.ttl)} \cup {AddIndex(s, i) : i \in I}
           n == Altered(t, s, C, {}, t.ttl)
           m == Altered(t, s, C, I, t.ttl)
<1>1. /\ C \in SUBSET MissingColumns(s, t) /\ IsFiniteSet(I) /\ OnTheWay(t, s, C, I, t.ttl)
  BY PlannedParts
<1>2. PlannedUp(s, t) = (a \o b) \o Ttl(s, t)
  BY TableParts DEF PlannedUp
<1>3. a \in Seq(S)
  <2>1. AddColumns(s, C) \in S
    OBVIOUS
  <2> QED
    BY <2>1, EmptySeq, OneStatement DEF Columns
<1>4. b \in Seq(S)
  <2>1. b \in Seq({AddIndex(s, i) : i \in I}) /\ {AddIndex(s, i) : i \in I} \subseteq S
    BY <1>1, IndexStatements
  <2> QED
    BY <2>1, SeqMonotonic
<1>5. Along(a, t, n) /\ Along(b, n, m)
  BY <1>1, ColumnsAdded, IndexesAdded
<1>6. m # None /\ m = Migrated(s, t, t.ttl)
  BY <1>1, AlteredParts DEF Migrated
<1>7. SetTtl(s.ttl) \in S
  OBVIOUS
<1> HIDE DEF a, b, S, n, m
<1>8. a \o b \in Seq(S) /\ Along(a \o b, t, m)
  BY <1>3, <1>4, <1>5, AlongBoth
<1> DEFINE ab == a \o b
<1>9. ab \in Seq(S) /\ Along(ab, t, m) /\ PlannedUp(s, t) = ab \o Ttl(s, t)
  BY <1>2, <1>8
<1> HIDE DEF ab
<1>10. CASE ~TtlToSet(s, t)
  <2>1. PlannedUp(s, t) = ab
    BY <1>9, <1>10, EmptySeq, ConcatEmptySeq DEF Ttl
  <2>2. NewTtl(s, t) = t.ttl /\ TtlAccepted(s, t)
    BY <1>10 DEF NewTtl, TtlAccepted
  <2> QED
    BY <1>6, <1>9, <2>1, <2>2, AlongReplayed
<1>11. CASE TtlToSet(s, t) /\ TtlAccepted(s, t)
  <2> DEFINE u == Migrated(s, t, NewTtl(s, t))
  <2>1. Along(<<SetTtl(s.ttl)>>, m, u)
    BY <1>6, <1>11, TtlSet DEF TtlAccepted, Migrated, NewTtl
  <2>2. <<SetTtl(s.ttl)>> \in Seq(S) /\ Ttl(s, t) = <<SetTtl(s.ttl)>>
    BY <1>7, <1>11, OneStatement DEF Ttl
  <2> HIDE DEF u
  <2> DEFINE z == <<SetTtl(s.ttl)>>
  <2> HIDE DEF z
  <2>3. Along(ab \o z, t, u)
    BY <1>9, <2>1, <2>2, AlongBoth DEF z
  <2>4. ab \o z \in Seq(S)
    BY <1>9, <2>2 DEF z
  <2>5. Replayed(ab \o z, t) = Fresh(u)
    BY <2>3, <2>4, AlongReplayed
  <2> QED
    BY <1>9, <1>11, <2>2, <2>5 DEF u, z
<1>12. CASE TtlToSet(s, t) /\ ~TtlAccepted(s, t)
  <2>1. ~(m.columns[s.ttl.column] \in Temporal)
    BY <1>6, <1>12 DEF TtlAccepted
  <2> DEFINE d == SetTtl(s.ttl)
  <2>2. d.kind = "set ttl" /\ d.ttl = s.ttl
    BY DEF SetTtl
  <2>3. ~Applies(d, m)
    BY <2>1, <2>2 DEF Applies
  <2>4. Ttl(s, t) = <<d>> /\ d \in S
    BY <1>7, <1>12 DEF Ttl
  <2> HIDE DEF d
  <2>5. ~Replayed(ab \o <<d>>, t).ok
    BY <1>9, <2>3, <2>4, RejectedLast
  <2> QED
    BY <1>9, <1>12, <2>4, <2>5
<1> QED
  BY <1>10, <1>11, <1>12

LEMMA DownFrom ==
  ASSUME NEW s \in ExpectedTableSchema, NEW t \in YdbTableDescription, TtlAccepted(s, t)
  PROVE  Replayed(PlannedDown(s, t), Migrated(s, t, NewTtl(s, t))) = Fresh(t)
<1> DEFINE C == PlannedColumns(s, t)
           I == MissingIndexes(s, t)
           a == TtlBack(s, t)
           b == Dropped(I)
           c == Removed(C)
           S == {ResetTtl, SetTtl(t.ttl)} \cup {DropIndex(i) : i \in I}
                  \cup {DropColumn(k) : k \in C}
           u == Altered(t, s, C, I, NewTtl(s, t))
           m == Altered(t, s, C, I, t.ttl)
           n == Altered(t, s, C, {}, t.ttl)
<1>1. /\ C \in SUBSET MissingColumns(s, t) /\ IsFiniteSet(C) /\ IsFiniteSet(I)
      /\ OnTheWay(t, s, C, I, t.ttl)
  BY PlannedParts
<1>2. PlannedDown(s, t) = (a \o b) \o c /\ u = Migrated(s, t, NewTtl(s, t))
  BY TableParts DEF PlannedDown, Migrated
<1>3. a \in Seq(S)
  <2>1. ResetTtl \in S /\ SetTtl(t.ttl) \in S
    OBVIOUS
  <2> HIDE DEF S
  <2> QED
    BY <2>1, EmptySeq, OneStatement DEF TtlBack
<1>4. b \in Seq(S)
  <2> DEFINE is == Reverse(SetToSeq(I))
  <2>1. Enumerates(is, I) /\ b = [k \in 1..Len(is) |-> DropIndex(is[k])]
    BY <1>1, Enumerated DEF Dropped
  <2> HIDE DEF is
  <2>2. Len(is) \in Nat /\ \A k \in 1..Len(is) : DropIndex(is[k]) \in S
    BY <2>1 DEF Enumerates
  <2> HIDE DEF S, b
  <2> QED
    BY <2>1, <2>2
<1>5. c \in Seq(S)
  <2> DEFINE cs == Reverse(SetToSeq(C))
  <2>1. Enumerates(cs, C) /\ c = [k \in 1..Len(cs) |-> DropColumn(cs[k])]
    BY <1>1, Enumerated DEF Removed
  <2> HIDE DEF cs
  <2>2. Len(cs) \in Nat /\ \A k \in 1..Len(cs) : DropColumn(cs[k]) \in S
    BY <2>1 DEF Enumerates
  <2> HIDE DEF S, c
  <2> QED
    BY <2>1, <2>2
<1>6. Along(a, u, m)
  <2>1. CASE ~TtlToSet(s, t)
    <3>1. u = m /\ a = << >>
      BY <2>1 DEF NewTtl, TtlBack
    <3> HIDE DEF u, m, a
    <3> QED
      BY <3>1, AlongNothing
  <2>2. CASE TtlToSet(s, t)
    <3>1. NewTtl(s, t) = s.ttl /\ s.ttl # None
      BY <2>2 DEF NewTtl, TtlToSet
    <3>2. u.columns = Migrated(s, t, t.ttl).columns
      BY DEF Altered, Migrated
    <3>3. OnTheWay(t, s, C, I, NewTtl(s, t))
      BY <1>1, <2>2, <3>1, <3>2 DEF OnTheWay, TtlAccepted
    <3>4. u # None
      BY <3>3, AlteredParts
    <3>5. CASE t.ttl = None
      <4>1. Along(<<ResetTtl>>, u, m)
        BY <3>4, <3>5, TtlReset
      <4>2. a = <<ResetTtl>>
        BY <2>2, <3>5 DEF TtlBack
      <4> QED
        BY <4>1, <4>2
    <3>6. CASE t.ttl # None
      <4>1. t.ttl.column \in Has(t) /\ t.columns[t.ttl.column] \in Temporal
        BY <3>6, TableParts, TtlColumn
      <4>2. t.ttl.column \in Column /\ t.ttl.column \notin C
        BY <1>1, <4>1 DEF Has, MissingColumns
      <4>3. u.columns[t.ttl.column] \in Temporal
        BY <4>1, <4>2 DEF Altered
      <4>4. Along(<<SetTtl(t.ttl)>>, u, m)
        BY <3>4, <4>3, TtlSet
      <4>5. a = <<SetTtl(t.ttl)>>
        BY <2>2, <3>6 DEF TtlBack
      <4> QED
        BY <4>4, <4>5
    <3> QED
      BY <3>5, <3>6
  <2> QED
    BY <2>1, <2>2
<1>7. Along(b, m, n) /\ Along(c, n, t)
  BY <1>1, IndexesDropped, ColumnsDropped, Unaltered
<1> HIDE DEF a, b, c, S, u, m, n
<1>8. a \o b \in Seq(S) /\ Along(a \o b, u, n)
  BY <1>3, <1>4, <1>6, <1>7, AlongBoth
<1> DEFINE ab == a \o b
<1>9. ab \in Seq(S) /\ Along(ab, u, n) /\ PlannedDown(s, t) = ab \o c
  BY <1>2, <1>8
<1> HIDE DEF ab
<1>10. Along(ab \o c, u, t)
  BY <1>5, <1>7, <1>9, AlongBoth
<1>11. ab \o c \in Seq(S)
  BY <1>5, <1>9
<1>12. Replayed(ab \o c, u) = Fresh(t)
  BY <1>10, <1>11, AlongReplayed
<1> QED
  BY <1>2, <1>9, <1>12


(* A table that is created, and dropped again. *)
LEMMA CreatedAndDropped ==
  ASSUME NEW s \in ExpectedTableSchema
  PROVE  /\ Replayed(PlannedUp(s, None), None) = Fresh(s)
         /\ Replayed(PlannedDown(s, None), s) = Fresh(None)
<1> DEFINE d == CreateTable(s)
           x == DropTable
<1>1. d.kind = "create" /\ d.table = s /\ x.kind = "drop"
  BY DEF CreateTable, DropTable
<1>2. PlannedUp(s, None) = <<d>> /\ PlannedDown(s, None) = <<x>>
  BY DEF PlannedUp, PlannedDown
<1>3. s # None
  BY SchemaIsTable
<1> HIDE DEF d, x
<1>4. Applies(d, None) /\ Effect(d, None) = s
  BY <1>1 DEF Applies, Effect
<1>5. Applies(x, s) /\ Effect(x, s) = None
  BY <1>1, <1>3 DEF Applies, Effect
<1>6. Along(<<d>>, None, s) /\ Along(<<x>>, s, None)
  BY <1>4, <1>5, AlongOne
<1>7. <<d>> \in Seq({d}) /\ <<x>> \in Seq({x})
  OBVIOUS
<1> QED
  BY <1>2, <1>6, <1>7, AlongReplayed

(* A table of the types of the entity takes its TTL. *)
LEMMA TtlIsAccepted ==
  ASSUME NEW s \in ExpectedTableSchema, NEW t \in YdbTableDescription, TypeMismatches(s, t) = {}
  PROVE  TtlAccepted(s, t)
<1> SUFFICES ASSUME TtlToSet(s, t)
             PROVE  Migrated(s, t, t.ttl).columns[s.ttl.column] \in Temporal
  BY DEF TtlAccepted
<1> DEFINE C == PlannedColumns(s, t)
           c == s.ttl.column
<1>1. c \in Has(s) /\ s.columns[c] \in Temporal /\ c \in Column
  BY SchemaParts, TtlColumn DEF TtlToSet, Has
<1>2. Structural(s, c)
  BY DEF Structural, InTtl, TtlToSet
<1>3. c \in Has(t) \cup C
  BY <1>1, <1>2, PlannedParts
<1>4. Migrated(s, t, t.ttl).columns[c] = IF c \in C THEN s.columns[c] ELSE t.columns[c]
  BY <1>1 DEF Migrated, Altered
<1> HIDE DEF c
<1>5. c \notin C => t.columns[c] = s.columns[c]
  BY <1>1, <1>3 DEF TypeMismatches
<1> QED
  BY <1>1, <1>4, <1>5 DEF c

LEMMA MigrationExecutes ==
  ASSUME NEW s \in ExpectedTableSchema, NEW t \in YdbTableDescription, TypeMismatches(s, t) = {}
  PROVE  LET run == Replayed(PlannedUp(s, t), t)
         IN  /\ run.ok
             /\ MissingIndexes(s, run.table) = {} /\ ~TtlToSet(s, run.table)
             /\ MissingColumns(s, run.table) \subseteq {p[2] : p \in LikelyRenames(s, t)}
<1> DEFINE C == PlannedColumns(s, t)
           I == MissingIndexes(s, t)
           u == Migrated(s, t, NewTtl(s, t))
           run == Replayed(PlannedUp(s, t), t)
<1>1. TtlAccepted(s, t)
  BY TtlIsAccepted
<1>2. run = Fresh(u)
  BY <1>1, UpTo
<1>3. C \subseteq MissingColumns(s, t) /\ OnTheWay(t, s, C, I, t.ttl)
  BY PlannedParts
<1>4. OnTheWay(t, s, C, I, NewTtl(s, t))
  <2>1. Altered(t, s, C, I, NewTtl(s, t)).columns = Migrated(s, t, t.ttl).columns
    BY DEF Altered, Migrated
  <2> QED
    BY <1>1, <1>3, <2>1 DEF OnTheWay, TtlAccepted, NewTtl, TtlToSet
<1>5. Has(u) = Has(t) \cup C /\ Indexed(u) = Indexed(t) \cup I
  BY <1>4, AlteredParts DEF Migrated
<1>6. u.ttl = NewTtl(s, t)
  BY DEF Migrated, Altered
<1> HIDE DEF u
<1>7. MissingIndexes(s, u) = {}
  BY <1>5 DEF MissingIndexes
<1>8. ~TtlToSet(s, u)
  BY <1>6 DEF TtlToSet, NewTtl
<1>9. MissingColumns(s, u) \subseteq {p[2] : p \in LikelyRenames(s, t)}
  BY <1>5 DEF MissingColumns, PlannedColumns
<1>10. run.ok /\ run.table = u
  BY <1>2 DEF Fresh
<1> QED
  BY <1>7, <1>8, <1>9, <1>10

LEMMA MigrationReverts ==
  ASSUME NEW s \in ExpectedTableSchema, NEW t \in YdbTableDescription,
         Replayed(PlannedUp(s, t), t).ok
  PROVE  Replayed(PlannedDown(s, t), Replayed(PlannedUp(s, t), t).table) = Fresh(t)
<1>1. TtlAccepted(s, t)
  BY UpTo
<1>2. Replayed(PlannedUp(s, t), t).table = Migrated(s, t, NewTtl(s, t))
  BY <1>1, UpTo DEF Fresh
<1> QED
  BY <1>1, <1>2, DownFrom

(* The migration generated for any version of the entities from any table   *)
(* the database may come to hold, under whatever replicas do to it: its up  *)
(* list is accepted to the end and leaves nothing missing but the column of *)
(* a likely rename, unless a column of another type is in the way; and the  *)
(* down list after it gives back that very table.                          *)
THEOREM MigrationsRun == Spec => []PlanRuns
<1>1. ASSUME TypeOK PROVE PlanExecutes
  <2> SUFFICES ASSUME NEW n \in Range(Tables), NEW v \in Version,
                      tables[n] = None \/ TypeMismatches(v[n], tables[n]) = {}
               PROVE  LET s   == v[n]
                          run == Replayed(PlannedUp(s, tables[n]), tables[n])
                      IN  /\ run.ok
                          /\ MissingIndexes(s, run.table) = {} /\ ~TtlToSet(s, run.table)
                          /\ tables[n] # None =>
                               MissingColumns(s, run.table)
                                 \subseteq {p[2] : p \in LikelyRenames(s, tables[n])}
    BY DEF PlanExecutes
  <2> DEFINE s == v[n]
             t == tables[n]
  <2>1. s \in ExpectedTableSchema /\ t \in YdbTableDescription \cup {None}
    BY <1>1, VersionAssumption DEF TypeOK
  <2> HIDE DEF s, t
  <2>2. CASE t = None
    <3>1. Replayed(PlannedUp(s, t), t) = Fresh(s)
      BY <2>1, <2>2, CreatedAndDropped
    <3>2. MissingIndexes(s, s) = {} /\ ~TtlToSet(s, s)
      BY DEF MissingIndexes, TtlToSet
    <3> QED
      BY <2>2, <3>1, <3>2 DEF s, t, Fresh
  <2>3. CASE t # None
    <3>1. t \in YdbTableDescription /\ TypeMismatches(s, t) = {}
      BY <2>1, <2>3 DEF s, t
    <3> QED
      BY <2>1, <3>1, MigrationExecutes DEF s, t
  <2> QED
    BY <2>2, <2>3
<1>2. ASSUME TypeOK PROVE PlanReverts
  <2> SUFFICES ASSUME NEW n \in Range(Tables), NEW v \in Version,
                      Replayed(PlannedUp(v[n], tables[n]), tables[n]).ok
               PROVE  Replayed(PlannedDown(v[n], tables[n]),
                               Replayed(PlannedUp(v[n], tables[n]), tables[n]).table)
                        = [ok |-> TRUE, table |-> tables[n]]
    BY DEF PlanReverts
  <2> DEFINE s == v[n]
             t == tables[n]
  <2>1. s \in ExpectedTableSchema /\ t \in YdbTableDescription \cup {None}
    BY <1>2, VersionAssumption DEF TypeOK
  <2> HIDE DEF s, t
  <2>2. CASE t = None
    <3>1. Replayed(PlannedUp(s, t), t) = Fresh(s) /\ Replayed(PlannedDown(s, t), s) = Fresh(None)
      BY <2>1, <2>2, CreatedAndDropped
    <3> QED
      BY <2>2, <3>1 DEF s, t, Fresh
  <2>3. CASE t # None
    <3>1. t \in YdbTableDescription
      BY <2>1, <2>3
    <3> QED
      BY <2>1, <3>1, MigrationReverts DEF s, t, Fresh
  <2> QED
    BY <2>2, <2>3
<1>3. TypeOK => PlanRuns
  BY <1>1, <1>2 DEF PlanRuns
<1> QED
  BY <1>3, TypeCorrect, PTL

=============================================================================
