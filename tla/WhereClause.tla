---------------------------- MODULE WhereClause ----------------------------
(***************************************************************************)
(* The WHERE pipeline of src/persistence/entity-persistence.ts: how a      *)
(* filter object becomes a condition and its parameters, and what find(),  *)
(* updateBy() and deleteBy() do with them.                                 *)
(*                                                                         *)
(* A filter (a node) is the sequence of its [key, val] entries; a value in *)
(* it is a condition [is, of]; the conditions of an operator object are    *)
(* [op, with] entries.  Column values are numbers, and a JSON document is  *)
(* the number of the paths that exist in it.  $gte, $lte and $like build   *)
(* what $gt builds, $jsonValue what $between builds.                       *)
(*                                                                         *)
(* The condition that is built is a tree; SQL is external: Eval gives the  *)
(* tree its three-valued meaning.                                          *)
(***************************************************************************)
EXTENDS Naturals, SequencesExt

CONSTANTS
  Meta,    \* of each table: columns, pk, encrypted and searchable fields, relations
  Stamp    \* the columns with @YdbUpdateDateColumn, one or none

Null == 99      \* SQL NULL, in a column
Now  == 98      \* new Date()

Value(v)  == [is |-> "value", of |-> <<v>>]
IsNull    == [is |-> "null", of |-> <<>>]
Undefined == [is |-> "undefined", of |-> <<>>]
Ops(ops)  == [is |-> "ops", of |-> ops]
Op(op, w) == [op |-> op, with |-> w]

Entry(key, val) == [key |-> key, val |-> val]
Logical == {"$and", "$or"}

(* dbSchema of a table: its columns and the blind index columns            *)
Columns(t) == Meta[t].columns \cup {Meta[t].index[f] : f \in DOMAIN Meta[t].index}

-----------------------------------------------------------------------------
(* What is built: a condition (or nothing, or an error) and the context of *)
(* the parameters bound so far.                                            *)

Nothing == [t |-> "nothing"]
Error   == [t |-> "error"]

Compare(col, op, params) == [t |-> "compare", col |-> col, op |-> op, params |-> params]
NullTest(col, is)        == [t |-> "null test", col |-> col, is |-> is]
In(col, from, sel, pred) == [t |-> "in", col |-> col, from |-> from, sel |-> sel, pred |-> pred]

NoParams == [bound |-> <<>>, keys |-> {}, counter |-> 0]

Bind(ctx, name, v) ==
  [ctx EXCEPT !.bound = (name :> v) @@ @, !.keys = @ \cup {name}]

(* Mutant: parameters are numbered for each condition on its own.          *)
NotCounted(ctx) == ctx

Counted(ctx) == [ctx EXCEPT !.counter = @ + 1]

Built(sql, ctx) == [sql |-> sql, ctx |-> ctx]

(* One condition with one parameter of a name of its own.                  *)
Fresh(col, op, v, ctx) ==
  LET name == <<col, ctx.counter, op>>
  IN Built(Compare(col, op, <<name>>), Bind(Counted(ctx), name, v))

(* The conditions of the elements of a sequence, in one context.           *)
Each(Build(_, _), seq, ctx) ==
  FoldLeft(LAMBDA acc, x : LET b == Build(x, acc.ctx)
                           IN [subs |-> Append(acc.subs, b.sql), ctx |-> b.ctx],
           [subs |-> <<>>, ctx |-> ctx], seq)

Joined(combiner, each) ==
  LET said == SelectSeq(each.subs, LAMBDA s : s.t # "nothing")
      sql  == CASE \E i \in DOMAIN said : said[i].t = "error" -> Error
                [] said = <<>> -> Nothing
                [] OTHER -> [t |-> combiner, args |-> said]
  IN Built(sql, each.ctx)

-----------------------------------------------------------------------------
(* The conditions of one column. *)

RECURSIVE FieldCondition(_, _, _, _, _, _)

(* buildSingleOperatorCondition()                                          *)
OperatorCondition(t, field, entry, ctx, root, related) ==
  LET op   == entry.op
      with == entry.with
      none == Built(Nothing, ctx)
      bad  == Built(Error, ctx)
  IN CASE op \in Logical ->
            IF with = <<>> THEN bad
            ELSE Joined(op, Each(LAMBDA c, x : FieldCondition(t, field, c, x, FALSE, related),
                                 with, ctx))
       [] op \in {"$eq", "$ne"} ->
            CASE with.is = "null"      -> Built(NullTest(field, op = "$eq"), ctx)
              [] with.is = "undefined" -> none
              [] OTHER -> IF op = "$eq" /\ root
                            THEN Built(Compare(field, op, <<<<field>>>>),
                                       Bind(ctx, <<field>>, with.of[1]))
                            ELSE Fresh(field, op, with.of[1], ctx)
       [] op \in {"$gt", "$lt"} ->
            IF with.is # "value" THEN bad ELSE Fresh(field, op, with.of[1], ctx)
       [] op = "$jsonExists" ->
            IF with.is # "value" \/ field \notin Meta[t].json THEN bad
            ELSE Fresh(field, op, with.of[1], ctx)
       [] op = "$in" ->
            IF with = <<>> THEN bad
            ELSE LET name(i) == <<field, ctx.counter, "in", i>>
                     names   == [i \in DOMAIN with |-> name(i)]
                 IN Built(Compare(field, op, names),
                          FoldLeft(LAMBDA x, i : Bind(x, name(i), with[i]), Counted(ctx),
                                   [i \in DOMAIN with |-> i]))
       [] op = "$between" ->
            IF Len(with) # 2 THEN bad
            ELSE LET lo == <<field, ctx.counter, "lo">>
                     hi == <<field, ctx.counter, "hi">>
                 IN Built(Compare(field, op, <<lo, hi>>),
                          Bind(Bind(Counted(ctx), lo, with[1]), hi, with[2]))
       [] OTHER -> bad

(* An encrypted field is compared by its blind index, for equality.        *)
EncryptedCondition(t, field, cond, ctx, root, related) ==
  LET eq      == cond.is = "ops" /\ Len(cond.of) = 1 /\ cond.of[1].op = "$eq"
      operand == IF eq THEN cond.of[1].with ELSE cond
      bi      == Meta[t].index[field]
      name    == IF root THEN <<bi>> ELSE <<bi, ctx.counter>>
  IN IF related \/ (cond.is = "ops" /\ ~eq) \/ field \notin DOMAIN Meta[t].index
          \/ operand.is # "value"
       THEN Built(Error, ctx)
       ELSE Built(Compare(bi, "$eq", <<name>>),
                  Bind(IF root THEN ctx ELSE Counted(ctx), name, operand.of[1]))

(* buildFieldCondition()                                                   *)
FieldCondition(t, field, cond, ctx, root, related) ==
  IF field \notin Columns(t) \/ (related /\ field \notin Meta[t].columns)
    THEN Built(Error, ctx)
  ELSE IF field \in Meta[t].encrypted
    THEN EncryptedCondition(t, field, cond, ctx, root, related)
  ELSE IF cond.is = "ops"
    THEN Joined("$and",
           Each(LAMBDA e, x : OperatorCondition(t, field, e, x, root, related), cond.of, ctx))
  ELSE OperatorCondition(t, field, Op("$eq", cond), ctx, root, related)

-----------------------------------------------------------------------------
(* Nodes. *)

RECURSIVE Node(_, _, _, _, _)

(* buildRelatedCondition(): a semi-join; the predicate is built in the     *)
(* context of the whole query.                                             *)
RelatedCondition(t, key, pred, ctx) ==
  LET r     == Meta[t].relations[key]
      inner == Node(r.target, pred, ctx, FALSE, TRUE)
      pk    == Meta[r.target].pk
  IN Built(CASE inner.sql.t = "error"     -> Error
             [] r.type = "one-to-many"    -> In(Meta[t].pk, r.target, r.join, inner.sql)
             [] r.type = "many-to-one"    -> In(r.join, r.target, pk, inner.sql)
             [] r.type = "many-to-many"   ->
                  In(Meta[t].pk, r.join, r.owner, In(r.inverse, r.target, pk, inner.sql)),
           inner.ctx)

(* buildWhereNode()                                                        *)
Node(t, node, ctx, root, related) ==
  LET Part(e, x) ==
        CASE e.key \in Logical ->
               IF e.val = <<>> THEN Built(Error, x)
               ELSE Joined(e.key, Each(LAMBDA n, y : Node(t, n, y, FALSE, related), e.val, x))
          [] e.key \notin Logical \cup Columns(t) /\ e.key \in DOMAIN Meta[t].relations ->
               RelatedCondition(t, e.key, e.val, x)
          [] OTHER -> IF e.val.is = "undefined" THEN Built(Nothing, x)
                      ELSE FieldCondition(t, e.key, e.val, x, root, related)
  IN Joined("$and", Each(Part, node, ctx))

BuildWhere(t, node) == Node(t, node, NoParams, TRUE, FALSE)

-----------------------------------------------------------------------------
(* SQL: the three-valued meaning of a condition for a row, under the       *)
(* values bound to the parameters, in a database.                          *)

Bool(b) == IF b THEN "true" ELSE "false"

Compared(op, x, args) ==
  CASE op = "$eq"         -> x = args[1]
    [] op = "$ne"         -> x # args[1]
    [] op = "$gt"         -> x > args[1]
    [] op = "$lt"         -> x < args[1]
    [] op = "$jsonExists" -> x >= args[1]
    [] op = "$in"         -> \E i \in DOMAIN args : x = args[i]
    [] op = "$between"    -> args[1] <= x /\ x <= args[2]

RECURSIVE Eval(_, _, _, _)
Eval(sql, row, bound, db) ==
  CASE sql.t = "null test" -> Bool((row[sql.col] = Null) = sql.is)
    [] sql.t = "compare" ->
         IF row[sql.col] = Null THEN "null"
         ELSE Bool(Compared(sql.op, row[sql.col],
                            [i \in DOMAIN sql.params |-> bound[sql.params[i]]]))
    [] sql.t \in Logical ->
         LET vals == {Eval(sql.args[i], row, bound, db) : i \in DOMAIN sql.args}
             wins == Bool(sql.t = "$or")
         IN IF wins \in vals THEN wins ELSE IF "null" \in vals THEN "null" ELSE Bool(sql.t = "$and")
    [] sql.t = "in" ->
         LET found == {r[sql.sel] : r \in {s \in db[sql.from] :
                         sql.pred.t = "nothing" \/ Eval(sql.pred, s, bound, db) = "true"}}
         IN IF row[sql.col] = Null \/ (row[sql.col] \notin found /\ Null \in found)
              THEN "null" ELSE Bool(row[sql.col] \in found)

(* The rows a statement reaches: all of them without a WHERE.              *)
Reaches(sql, row, bound, db) == sql.t = "nothing" \/ Eval(sql, row, bound, db) = "true"

-----------------------------------------------------------------------------
(* The operations. *)

Keys(node) == {node[i].key : i \in DOMAIN node}
ValueOf(node, key) == node[CHOOSE i \in DOMAIN node : node[i].key = key].val

(* find() wants a condition, findAll() and count() do not.                 *)
Find(t, node) ==
  LET b == BuildWhere(t, node)
  IN IF b.sql.t = "nothing" THEN Built(Error, NoParams) ELSE b

(* extractUniqueAadValue(): one scalar that the predicate fixes            *)
FixedByWhere(node, f) ==
  /\ f \in Keys(node)
  /\ LET c == ValueOf(node, f)
     IN \/ c.is = "value"
        \/ c.is = "ops" /\ Len(c.of) = 1 /\ c.of[1].op = "$eq" /\ c.of[1].with.is = "value"

(* What updateBy() sets: the patch, the update date, and the blind index   *)
(* of each encrypted field.                                                *)
Assigned(t, patch) ==
  LET data   == patch @@ [c \in Stamp \cap Meta[t].columns |-> Now]
      sealed == DOMAIN data \cap Meta[t].encrypted
  IN data @@ [c \in {Meta[t].index[f] : f \in sealed \cap DOMAIN Meta[t].index} |->
                data[CHOOSE f \in sealed : Meta[t].index[f] = c]]

(* Mutant: a field may be in the filter and in the patch.                  *)
CollideNever(node, patch) == FALSE

Collide(node, patch) == DOMAIN patch \cap Keys(node) # {}

(* updateBy(); a patch is a function from columns to values.  The SET      *)
(* parameters are named after their columns, in one context with those of  *)
(* the WHERE.                                                              *)
UpdateBy(t, node, patch) ==
  LET set     == Assigned(t, patch)
      b       == BuildWhere(t, node)
      refused == \/ node = <<>> \/ DOMAIN patch = {}
                 \/ Collide(node, patch)
                 \/ DOMAIN set \ Columns(t) # {}
                 \/ /\ \E f \in DOMAIN set \cap Meta[t].encrypted : set[f] # Null
                    /\ \E f \in Meta[t].aad : ~FixedByWhere(node, f)
                 \/ b.ctx.keys = {}
  IN IF refused \/ b.sql.t = "error" THEN Built(Error, NoParams)
     ELSE Built(b.sql, FoldLeft(LAMBDA x, c : Bind(x, <<c>>, set[c]), b.ctx, SetToSeq(DOMAIN set)))

(* deleteBy()                                                              *)
DeleteBy(t, node) ==
  LET b == BuildWhere(t, node)
  IN IF node = <<>> \/ b.ctx.keys = {} THEN Built(Error, NoParams) ELSE b
=============================================================================
