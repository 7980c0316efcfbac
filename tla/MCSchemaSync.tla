---------------------------- MODULE MCSchemaSync ----------------------------
(* A small instance of SchemaSync: two replicas, each of any of the versions *)
(* below, on a database made by an earlier version, by hand, or not at all.  *)
EXTENDS SchemaSync, TLC

CONSTANTS k, x, y, b,   \* columns; b is the blind index of x
          text, stamp,  \* types
          i, j,         \* indexes
          items, links  \* tables

MCBlind  == x :> b
MCTables == <<items, links>>

Table(columns, indexes, ttl) ==
  [columns |-> columns @@ (k :> text) @@ [c \in Column |-> None],
   key     |-> <<k>>,
   indexes |-> indexes @@ [n \in Index |-> None],
   ttl     |-> ttl]

On(cs)       == [columns |-> cs, unique |-> FALSE]
UniqueOn(cs) == [columns |-> cs, unique |-> TRUE]
After(c, s)  == [column |-> c, seconds |-> s]
Plain        == [c \in {} |-> None]

(* The link table of a many-to-many relation, keyed by both its columns. *)
Link == [Table(x :> text, Plain, None) EXCEPT !.key = <<k, x>>]

Entities ==
  { Table(x :> text, Plain, None),
    Table(y :> text, Plain, None),
    Table(y :> text, i :> On(<<y>>), None),
    Table(y :> stamp, j :> UniqueOn(<<y, k>>), After(y, 1)),
    Table((x :> text) @@ (b :> text), i :> On(<<b>>), None),
    Table((x :> text) @@ (y :> stamp), (i :> On(<<x, y>>)) @@ (j :> On(<<y>>)), After(y, 2)) }

MCVersion == {[t \in {items, links} |-> IF t = items THEN s ELSE Link] : s \in Entities}

Found ==
  { None,
    Table(x :> text, Plain, None),
    Table(x :> text, i :> On(<<x>>), None),
    Table((x :> stamp) @@ (y :> stamp), Plain, After(x, 1)),
    Table((x :> text) @@ (y :> stamp), j :> On(<<y, k>>), After(y, 3)),
    Table((x :> Unsupported) @@ (y :> text), Plain, None) }

(* The link table of the last one was made with the columns of the key in the other order. *)
MCInitial ==
  {[t \in {items, links} |-> IF t = items THEN f ELSE None] : f \in Found}
    \cup {[t \in {items, links} |-> IF t = items THEN None ELSE [Link EXCEPT !.key = <<x, k>>]]}
=============================================================================
