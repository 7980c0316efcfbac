---------------------------- MODULE QueryBuilder ----------------------------
(***************************************************************************)
(* YdbQueryBuilder (src/query/query-builder.ts): the filter a chain of     *)
(* where(), andWhere(), orWhere() and andWhereJsonExists() accumulates,    *)
(* and what the operations that take a filter make of it.                  *)
(***************************************************************************)
EXTENDS WhereClause

CONSTANTS
  Root,      \* the table the builder is of
  Rows,      \* rows it may have
  Databases, \* contents the tables that relations lead to may have
  Criteria,  \* what where() and orWhere() are called with, a sequence
  JsonPaths, \* what andWhereJsonExists() is called with: [column, path]
  Patches,   \* what updateBy() is called with, a sequence
  MaxChain   \* bound on the calls of a chain

VARIABLES
  whereValues,   \* the filter
  said           \* the calls made: how each combines, and its criteria

vars == <<whereValues, said>>

Init == whereValues = <<>> /\ said = <<>>

(* The filter is an object: it has a key once.                             *)
TypeOK ==
  /\ Keys(whereValues) \subseteq Logical \cup Columns(Root) \cup DOMAIN Meta[Root].relations
  /\ IsInjective([i \in DOMAIN whereValues |-> whereValues[i].key])
  /\ Len(said) <= MaxChain

(* { ...a, ...b }: a key that is in both keeps its place and takes b's     *)
(* value.                                                                  *)
Spread(a, b) ==
  [i \in DOMAIN a |-> IF a[i].key \in Keys(b) THEN Entry(a[i].key, ValueOf(b, a[i].key)) ELSE a[i]]
    \o SelectSeq(b, LAMBDA e : e.key \notin Keys(a))

IsUndefined(e) == e.key \notin Logical \cup DOMAIN Meta[Root].relations /\ e.val.is = "undefined"
Defined(node) == SelectSeq(node, LAMBDA e : ~IsUndefined(e))

Say(how, criteria) ==
  /\ Len(said) < MaxChain
  /\ said' = Append(said, [how |-> how, criteria |-> criteria])

(* where() and andWhere()                                                  *)
Where(c) ==
  /\ whereValues' = Spread(whereValues, c)
  /\ Say("and", c)

(* Mutant: the criteria become an alternative of their own, in conjunction *)
(* with the conditions before.                                             *)
OrWhereBeside(c) ==
  /\ whereValues' = Spread(whereValues, <<Entry("$or", <<c>>)>>)
  /\ Say("or", c)

(* orWhere()                                                               *)
OrWhere(c) ==
  /\ whereValues' =
       CASE Defined(whereValues) = <<>> -> c
         [] Keys(Defined(whereValues)) = {"$or"} ->
              <<Entry("$or", Append(ValueOf(whereValues, "$or"), c))>>
         [] OTHER -> <<Entry("$or", <<whereValues, c>>)>>
  /\ Say("or", c)

(* andWhereJsonExists(): appendJsonCondition()                             *)
AndWhereJson(col, path) ==
  LET predicate == Ops(<<Op("$jsonExists", Value(path))>>)
      existing  == IF col \in Keys(whereValues) THEN ValueOf(whereValues, col) ELSE Undefined
      group     == existing.is = "ops" /\ Len(existing.of) = 1 /\ existing.of[1].op = "$and"
      next      == CASE existing.is = "undefined" -> predicate
                     [] group -> Ops(<<Op("$and", Append(existing.of[1].with, predicate))>>)
                     [] OTHER -> Ops(<<Op("$and", <<existing, predicate>>)>>)
  IN /\ whereValues' = Spread(whereValues, <<Entry(col, next)>>)
     /\ Say("json", <<Entry(col, predicate)>>)

Next ==
  \/ \E i \in DOMAIN Criteria : Where(Criteria[i]) \/ OrWhere(Criteria[i])
  \/ \E j \in JsonPaths : AndWhereJson(j.column, j.path)

Spec == Init /\ [][Next]_vars

-----------------------------------------------------------------------------
(* The meaning the documentation gives a filter, without SQL.  A condition *)
(* that is undefined is left out, and so is a group of which nothing is    *)
(* left.                                                                   *)

RECURSIVE SaysOf(_), Holds(_, _)

SaysOf(cond) ==
  CASE cond.is = "undefined" -> FALSE
    [] cond.is = "ops" -> \E i \in DOMAIN cond.of :
         CASE cond.of[i].op \in {"$eq", "$ne"} -> SaysOf(cond.of[i].with)
           [] cond.of[i].op \in Logical -> \E j \in DOMAIN cond.of[i].with : SaysOf(cond.of[i].with[j])
           [] OTHER -> TRUE
    [] OTHER -> TRUE

Holds(cond, x) ==
  LET HoldsOp(e) ==
        CASE e.op = "$and" -> \A j \in DOMAIN e.with : SaysOf(e.with[j]) => Holds(e.with[j], x)
          [] e.op = "$or"  -> \E j \in DOMAIN e.with : SaysOf(e.with[j]) /\ Holds(e.with[j], x)
          [] e.op = "$eq"  -> Holds(e.with, x)
          [] e.op = "$ne"  -> IF e.with.is = "null" THEN x # Null ELSE x \notin {Null, e.with.of[1]}
          [] e.op \in {"$in", "$between"} -> x # Null /\ Compared(e.op, x, e.with)
          [] OTHER -> x # Null /\ Compared(e.op, x, e.with.of)
  IN CASE cond.is = "value" -> x = cond.of[1]
       [] cond.is = "null"  -> x = Null
       [] cond.is = "ops"   -> \A i \in DOMAIN cond.of :
            SaysOf(Ops(<<cond.of[i]>>)) => HoldsOp(cond.of[i])

RECURSIVE Says(_, _), Matches(_, _, _, _)

Says(t, node) ==
  \E i \in DOMAIN node :
    CASE node[i].key \in Logical -> \E j \in DOMAIN node[i].val : Says(t, node[i].val[j])
      [] node[i].key \in DOMAIN Meta[t].relations -> TRUE
      [] OTHER -> SaysOf(node[i].val)

(* The rows of the related table that belong to a row                      *)
RelatedRows(t, key, row, db) ==
  LET r == Meta[t].relations[key]
      T == db[r.target]
  IN CASE r.type = "one-to-many"  -> {x \in T : x[r.join] = row[Meta[t].pk]}
       [] r.type = "many-to-one"  -> {x \in T : x[Meta[r.target].pk] = row[r.join]}
       [] r.type = "many-to-many" ->
            {x \in T : \E l \in db[r.join] : l[r.owner] = row[Meta[t].pk]
                                             /\ l[r.inverse] = x[Meta[r.target].pk]}

Matches(t, node, row, db) ==
  \A i \in DOMAIN node : Says(t, <<node[i]>>) =>
    LET e == node[i]
        SomeOf(j) == Says(t, e.val[j])
    IN CASE e.key = "$and" -> \A j \in DOMAIN e.val : SomeOf(j) => Matches(t, e.val[j], row, db)
         [] e.key = "$or"  -> \E j \in DOMAIN e.val : SomeOf(j) /\ Matches(t, e.val[j], row, db)
         [] e.key \in DOMAIN Meta[t].relations ->
              \E x \in RelatedRows(t, e.key, row, db) : Matches(Meta[t].relations[e.key].target, e.val, x, db)
         [] OTHER -> Holds(e.val, row[e.key])

-----------------------------------------------------------------------------
(* Properties. *)

(* A filter that names, at its root, an encrypted field and the blind      *)
(* index column of that field: both have the parameter named after the     *)
(* column (entity-persistence.ts:759, :840).                               *)
NamesIndexTwice ==
  \E f \in DOMAIN Meta[Root].index : {f, Meta[Root].index[f]} \subseteq Keys(whereValues)

(* A clause that is built selects, in SQL and with the values bound to its *)
(* parameters, the rows the filter describes: no condition or parameter of *)
(* another overwrites it, in or out of a subquery, unless the filter names *)
(* an index twice.                                                         *)
ClauseSelects ==
  LET b == BuildWhere(Root, whereValues)
  IN b.sql.t # "error" /\ ~NamesIndexTwice => \A row \in Rows, db \in Databases :
       Reaches(b.sql, row, b.ctx.bound, db) <=> Matches(Root, whereValues, row, db)

(* The calls of a chain, from left to right: what is required, by the key  *)
(* it was named under.  where() adds to it; a key that is named again has  *)
(* the new condition instead of the old (the spread at                     *)
(* query-builder.ts:70-73; its comment says that repeated calls append).   *)
(* orWhere() makes one requirement of all there is, named $or;             *)
(* andWhereJsonExists() adds to what its column has.                       *)
Required(row, db) ==
  LET All(req) == [says  |-> \E k \in DOMAIN req : req[k].says,
                   holds |-> \A k \in DOMAIN req : req[k].holds]
      Of(node) == [k \in Keys(Defined(node)) |->
                     LET part == <<Entry(k, ValueOf(node, k))>>
                     IN [says  |-> Says(Root, part), holds |-> Matches(Root, part, row, db)]]
      Or(a, b) == CASE ~a.says -> b [] ~b.says -> a
                    [] OTHER -> [says |-> TRUE, holds |-> a.holds \/ b.holds]
      Call(req, call) ==
        LET new == Of(call.criteria)
        IN CASE call.how = "and"  -> new @@ [k \in DOMAIN req \ Keys(call.criteria) |-> req[k]]
             [] call.how = "json" ->
                  [k \in DOMAIN new |-> IF k \in DOMAIN req THEN All(<<req[k], new[k]>>) ELSE new[k]]
                    @@ req
             [] call.how = "or"   ->
                  IF DOMAIN req = {} THEN new ELSE "$or" :> Or(All(req), All(new))
  IN All(FoldLeft(Call, <<>>, said))

(* The filter of a chain means what its calls say, each combined with all  *)
(* that was said before it: no condition is lost or regrouped, but one     *)
(* whose key a where() names again.  A call that says nothing changes      *)
(* nothing else.                                                           *)
ChainMeans ==
  \A row \in Rows, db \in Databases :
    Required(row, db) = [says  |-> Says(Root, whereValues),
                         holds |-> Matches(Root, whereValues, row, db)]

(* The columns that updateBy() sets and its caller did not name (the       *)
(* update date, a blind index) and that the filter compares, by equality   *)
(* at its root: SET and WHERE have one parameter there, and it is bound to *)
(* the value that is set (entity-persistence.ts:2025-2028).                *)
Equates(e) ==
  \/ e.val.is = "value"
  \/ e.val.is = "ops" /\ \E j \in DOMAIN e.val.of : e.val.of[j].op = "$eq" /\ e.val.of[j].with.is = "value"
Shared(patch) ==
  {c \in (DOMAIN Assigned(Root, patch) \ DOMAIN patch) \cap Keys(whereValues) :
     Equates(Entry(c, ValueOf(whereValues, c)))}

(* The filter without the equalities on some columns.                      *)
Without(node, columns) ==
  LET Rest(e) ==
        IF e.key \notin columns THEN e
        ELSE Entry(e.key, Ops(IF e.val.is = "value" THEN <<>>
                              ELSE SelectSeq(e.val.of, LAMBDA o : ~Equates(Entry(e.key, Ops(<<o>>))))))
  IN [i \in DOMAIN node |-> Rest(node[i])]

(* updateBy() and deleteBy() throw or touch the rows their filter describes *)
(* and no other, in particular not every row for a filter that says        *)
(* nothing: the values a SET binds do not reach the WHERE, save in the     *)
(* shared columns.  There a row must have the value that is set.  (Filters *)
(* that name an index twice are left out as above.)                        *)
BulkTouchesMatching ==
  LET Touches(b, row, db) == Reaches(b.sql, row, b.ctx.bound, db)
      deleted == DeleteBy(Root, whereValues)
  IN ~NamesIndexTwice =>
     /\ deleted.sql.t # "error" =>
          /\ Says(Root, whereValues)
          /\ \A row \in Rows, db \in Databases :
               Touches(deleted, row, db) <=> Matches(Root, whereValues, row, db)
     /\ \A p \in DOMAIN Patches :
          LET updated == UpdateBy(Root, whereValues, Patches[p])
              shared  == Shared(Patches[p])
              set     == Assigned(Root, Patches[p])
              rest    == Without(whereValues, shared)
          IN updated.sql.t # "error" =>
               /\ Says(Root, whereValues)
               /\ \A row \in Rows, db \in Databases :
                    Touches(updated, row, db) <=>
                      /\ Matches(Root, rest, row, db)
                      /\ \A c \in shared : row[c] = set[c] /\ set[c] # Null
=============================================================================
