--------------------------- MODULE RelationLoading ---------------------------
(***************************************************************************)
(* Loading of relations (src/relations/entity-relations.ts): the eager     *)
(* paths of a find(), and loadRelations(). A path is loaded one relation   *)
(* at a time, each with batches of IN (...) queries that other clients     *)
(* write between; the instances of one level are the owners of the next;   *)
(* afterFind of the levels in between fires on the way back.               *)
(*                                                                         *)
(* An instance is an index into heap. A value of a relation is Unset       *)
(* before it is loaded, Null or an instance for a relation to one, a set   *)
(* of instances for a relation to many (the order is the database's).      *)
(***************************************************************************)
EXTENDS EntityValidation, FiniteSetsExt, SequencesExt

CONSTANTS Null,
          Starts,      \* entity models with the contents of a database
          Modes,       \* how a call may name its transaction
          ChunkSize,   \* MAX_IN_CLAUSE_VALUES
          MaxWrites    \* writes of other clients while the call runs

ASSUME ChunkSizeAssumption == ChunkSize \in Nat \ {0}

(* What decorators can declare: targets that are classes, each property     *)
(* once (inheritance is not modelled), eager paths of names.                *)
WellFormed(m) ==
  /\ m.entities \in Seq(DOMAIN m.of)
  /\ \A C \in DOMAIN m.of :
       /\ Relations(m, C) \in Seq(Items(Relations(m, C)))
       /\ \A i, j \in DOMAIN Relations(m, C) :
            Relations(m, C)[i].prop = Relations(m, C)[j].prop => i = j
       /\ \A r \in Items(Relations(m, C)) :
            r.target \in DOMAIN m.of /\ r.prop \in STRING \ {Fault} /\ r.inverseSide # Fault
       /\ BlindIndexes(m, C) \cap DOMAIN m.of[C].schema = {}
       /\ m.of[C].eager \in Seq(Seq(STRING) \ {<<>>})

(* What stands for nothing or for an error is no table.                     *)
NoTable(m) ==
  \A C \in Registered(m) : \A r \in Items(Relations(m, C)) :
    LET d == JoinTableDefinition(m, C, r)
    IN  Declares(m, C, r) /\ Resolves(m, C, r) =>
          {Unset, Fault} \cap {d, AsDeclared(d), Flipped(d)} = {}

ASSUME StartsAssumption ==
  \A s \in Starts :
    /\ WellFormed(s.model) /\ NoTable(s.model)
    /\ DOMAIN s.model.of \subseteq DOMAIN s.rows
    /\ \A C \in DOMAIN s.rows :
         IsFiniteSet(DOMAIN s.rows[C]) /\ {Unset, Null} \cap DOMAIN s.rows[C] = {}

ASSUME ModesAssumption ==
  \A mode \in Modes : mode.trx \in BOOLEAN /\ mode.known \in BOOLEAN

ASSUME ValuesAssumption ==
  /\ Fault # Unset
  /\ Fault \notin {"db", "trx"}
  /\ Unset # [id |-> "own", trx |-> "trx"]
  /\ {Unset, Null} \cap Nat = {}

VARIABLES model,   \* the entity model
          rows,    \* by class, the rows by key: column to value
          links,   \* by join table, its rows: column to key
          heap,    \* the instances
          op,      \* the call
          writes

vars == <<model, rows, links, heap, op, writes>>

Idle == [phase |-> "idle"]

Init ==
  /\ \E s \in Starts : model = s.model /\ rows = s.rows /\ links = s.links
  /\ heap = <<>>
  /\ op = Idle
  /\ writes = 0

PrimaryKey(C) == model.of[C].pks[1]
Cell(C, k, c) == IF c = PrimaryKey(C) THEN k ELSE rows[C][k][c]

Instance(C, k, cols, batch) ==
  [cls   |-> C, key |-> k, cols |-> cols, batch |-> batch, hooked |-> 0, via |-> {},
   rel   |-> [p \in {r.prop : r \in Items(Relations(model, C))} |-> Unset]]

(* The value of a column on an instance.                                    *)
ValueOf(h, i, c) == IF c = PrimaryKey(h[i].cls) THEN h[i].key ELSE h[i].cols[c]

Relation(m, C, p) ==
  LET places == {j \in DOMAIN Relations(m, C) : Relations(m, C)[j].prop = p}
  IN  IF places = {} THEN Unset
      ELSE Relations(m, C)[CHOOSE j \in places : \A k \in places : j <= k]
---------------------------------------------------------------------------
(* A call: trx says that { trx } was given and known that the executor has  *)
(* an identity; outer is the transaction context of the caller; ctx counts  *)
(* the contexts the traversal has opened. Its paths are to be loaded for    *)
(* its roots; segs is what is left of the current one, items the owners of  *)
(* its first relation, above the levels whose hooks wait.                   *)
OwnId(o) == IF o.known THEN "own" ELSE "executor"

(* The transaction context that is open, if any.                            *)
Active(o) == IF o.ctx > 0 THEN [id |-> "own", trx |-> "trx"] ELSE o.outer

(* resolveOperationExecutor(): an explicit transaction, unless another is   *)
(* active; the active one; or the entity's executor.                        *)
Executor(o, explicit) ==
  IF explicit
    THEN IF Active(o) # Unset /\ Active(o).id # OwnId(o) THEN Fault ELSE "trx"
    ELSE IF Active(o) # Unset THEN Active(o).trx ELSE "db"

Call(kind, n, paths, mode) ==
  [phase |-> "path", kind |-> kind, roots |-> 1..n, todo |-> paths, outcome |-> Unset,
   trx |-> mode.trx, known |-> mode.known, outer |-> mode.outer, ctx |-> 0,
   segs |-> <<>>, items |-> {}, above |-> <<>>, loads |-> 0,
   owners |-> {}, read |-> {}, values |-> {}, got |-> {}, pairs |-> {}]

Ended(outcome) == op' = [op EXCEPT !.phase = "ended", !.outcome = outcome]
Strict         == op.kind = "loadRelations"

(* callHooks('afterFind'): each hook queries the database, without { trx }. *)
Hooked(h, I, o) ==
  [i \in DOMAIN h |->
     IF i \in I THEN [h[i] EXCEPT !.hooked = @ + 1, !.via = @ \cup {Executor(o, FALSE)}]
                ELSE h[i]]

(* hydrate(): rows become instances, with their hooks if they are not       *)
(* deferred.                                                                *)
Hydrated(h, C, keys, o, immediate) ==
  LET k     == SetToSeq(keys)
      fresh == [n \in DOMAIN k |-> Instance(C, k[n], rows[C][k[n]], o.loads)]
  IN  IF immediate THEN Hooked(h \o fresh, (Len(h) + 1)..(Len(h) + Len(k)), o)
                   ELSE h \o fresh

(* find(), findAll() and the query builder's get(): rows of class C, with   *)
(* the keys K; without any nothing follows.                                 *)
Find(C, K, mode) ==
  LET o == Call("find", Cardinality(K), model.of[C].eager, mode)
  IN  /\ op = Idle
      /\ IF Executor(o, o.trx) = Fault
           THEN /\ heap' = <<>>
                /\ op' = [o EXCEPT !.phase = "ended", !.outcome = "mixing"]
           ELSE /\ heap' = Hydrated(<<>>, C, K, o, FALSE)
                /\ op' = o
      /\ UNCHANGED <<model, rows, links, writes>>

(* loadRelations() of instances the application has: with all their         *)
(* columns, or with the key only (a find() with select).                    *)
LoadRelations(C, K, names, whole, mode) ==
  LET k == SetToSeq(K)
      columns(n) == [c \in DOMAIN rows[C][k[n]] |-> IF whole THEN rows[C][k[n]][c] ELSE Unset]
  IN  /\ op = Idle
      /\ heap' = [n \in DOMAIN k |-> Instance(C, k[n], columns(n), 0)]
      /\ op' = Call("loadRelations", Len(k), [n \in DOMAIN names |-> <<names[n]>>], mode)
      /\ UNCHANGED <<model, rows, links, writes>>
---------------------------------------------------------------------------
(* The next path; after the last, the hooks of what find() found.           *)
NextPath ==
  /\ op.phase = "path"
  /\ IF op.todo = <<>> \/ op.roots = {}
       THEN /\ heap' = IF Strict THEN heap ELSE Hooked(heap, op.roots, op)
            /\ Ended("ok")
       ELSE /\ op' = [op EXCEPT !.phase = "open", !.segs = Head(op.todo),
                                !.todo = Tail(@), !.items = op.roots]
            /\ UNCHANGED heap
  /\ UNCHANGED <<model, rows, links, writes>>

Class(o, h) == h[CHOOSE i \in o.items : TRUE].cls
Current(m, o, h) == Relation(m, Class(o, h), Head(o.segs))

(* Mutant: the transaction is handed to the queries only.                   *)
NoContext(o) == o

(* loadRelationPath(): an explicit transaction is made the ambient one for  *)
(* a path of several levels, and gets an identity if it has none.           *)
InContext(o) ==
  IF o.kind = "find" /\ o.trx /\ Len(o.segs) > 1
    THEN [o EXCEPT !.ctx = @ + 1, !.known = TRUE] ELSE o

(* After a relation is loaded: its targets own the next one, or the way     *)
(* back begins.                                                             *)
Descend(o, targets) ==
  IF o.kind = "loadRelations" THEN [o EXCEPT !.phase = "path"]
  ELSE IF Len(o.segs) > 1
    THEN [o EXCEPT !.phase = "open", !.items = targets, !.segs = Tail(@),
                   !.above = Append(@, targets)]
  ELSE [o EXCEPT !.phase = "unwind"]

(* The value each owner gets for relation r from what was fetched.          *)
Loaded(o, h, r, i) ==
  CASE r.type = "one-to-many"  -> {x \in o.got : ValueOf(h, x, r.joinColumn) = h[i].key}
    [] r.type = "many-to-many" -> {p[2] : p \in {p \in o.pairs : p[1] = h[i].key}}
    [] OTHER -> LET one == {x \in o.got : h[x].key = ValueOf(h, i, r.joinColumn)}
                IN  IF one = {} THEN Null ELSE CHOOSE x \in one : TRUE

Assigned(o, h, r) ==
  [i \in DOMAIN h |->
     IF i \in o.items THEN [h[i] EXCEPT !.rel[r.prop] = Loaded(o, h, r, i)] ELSE h[i]]

(* Mutant: each chunk of owners starts over.                                *)
PairedOfLastChunk(o, h) ==
  {p \in {l.owner : l \in o.read} \X o.got :
     [owner |-> p[1], inverse |-> h[p[2]].key] \in o.read}

(* loadManyToManyRelation(): the links that were read, with the instances   *)
(* that are there by now.                                                   *)
Paired(o, h) ==
  o.pairs \cup {p \in {l.owner : l \in o.read} \X o.got :
                 [owner |-> p[1], inverse |-> h[p[2]].key] \in o.read}

(* When all values of a batch are fetched: the next chunk of owners, or the *)
(* assignment to the items.                                                 *)
Proceed(o, h) ==
  LET r    == Current(model, o, h)
      full == [o EXCEPT !.pairs = Paired(o, h), !.read = {}]
  IN  IF o.values # {} THEN <<[o EXCEPT !.phase = "fetch"], h>>
      ELSE IF o.owners # {} THEN <<[full EXCEPT !.phase = "links"], h>>
      ELSE <<Descend(full, IF r.type = "many-to-many" THEN {p[2] : p \in full.pairs}
                                                      ELSE full.got),
             Assigned(full, h, r)>>

Continue(o, h) == op' = Proceed(o, h)[1] /\ heap' = Proceed(o, h)[2]

Chunks(V) == kSubset(IF Cardinality(V) < ChunkSize THEN Cardinality(V) ELSE ChunkSize, V)
---------------------------------------------------------------------------
(* loadRelationPath(), loadRelation() up to the first query.                *)
KeyValues(o, h, r) ==
  IF r.type \in {"one-to-many", "many-to-many"} THEN {h[i].key : i \in o.items}
  ELSE {ValueOf(h, i, r.joinColumn) : i \in o.items} \ {Unset, Null}

(* What loadRelations() refuses, and eager loading passes over.             *)
Undefined(o, h, r) ==
  /\ r.type \in {"many-to-one", "one-to-one"}
  /\ \E i \in o.items : ValueOf(h, i, r.joinColumn) = Unset

JoinTable(o, h, r) == ResolveManyToManyJoinTable(model, Class(o, h), r)

(* A level without instances ends the descent before anything is opened.    *)
NoOwners ==
  /\ op.phase = "open" /\ op.items = {}
  /\ op' = [op EXCEPT !.phase = "unwind"]
  /\ UNCHANGED <<model, rows, links, heap, writes>>

OpenRelation ==
  /\ op.phase = "open" /\ op.items # {}
  /\ LET r       == Current(model, op, heap)
         o       == InContext([op EXCEPT !.loads = @ + 1])
         keys    == KeyValues(o, heap, r)
         started == [o EXCEPT !.owners = IF r.type = "many-to-many" THEN keys ELSE {},
                              !.values = IF r.type = "many-to-many" THEN {} ELSE keys,
                              !.read = {}, !.got = {}, !.pairs = {}]
     IN  \/ /\ r = Unset
            /\ Ended("unknown relation") /\ UNCHANGED heap
         \/ /\ r # Unset /\ r.type = "many-to-many" /\ JoinTable(o, heap, r) = Fault
            /\ Ended("configuration") /\ UNCHANGED heap
         \/ /\ r # Unset /\ Strict
            /\ \/ Undefined(o, heap, r)
               \/ r.type = "many-to-many" /\ JoinTable(o, heap, r) = Unset
            /\ Ended("undefined") /\ UNCHANGED heap
         \/ /\ r # Unset /\ ~ Strict
            /\ \/ keys = {}
               \/ r.type = "many-to-many" /\ JoinTable(o, heap, r) = Unset
            /\ op' = Descend(o, {}) /\ UNCHANGED heap
         \/ /\ r # Unset
            /\ r.type = "many-to-many" => JoinTable(o, heap, r) \notin {Unset, Fault}
            /\ IF Strict THEN ~ Undefined(o, heap, r) ELSE keys # {}
            /\ IF Executor(o, o.trx) = Fault
                 THEN Ended("mixing") /\ UNCHANGED heap
                 ELSE Continue(started, heap)
  /\ UNCHANGED <<model, rows, links, writes>>

(* One SELECT of the join table, for a chunk of owners.                     *)
ReadLinks ==
  /\ op.phase = "links"
  /\ LET t == JoinTable(op, heap, Current(model, op, heap))
     IN  \E chunk \in Chunks(op.owners) :
           LET read    == {[owner |-> l[t.ownerColumn], inverse |-> l[t.inverseColumn]] :
                             l \in {l \in links[t.tableName] : l[t.ownerColumn] \in chunk}}
               missing == {l.inverse : l \in read} \ {heap[x].key : x \in op.got}
           IN  Continue([op EXCEPT !.owners = @ \ chunk, !.read = read,
                                   !.values = missing], heap)
  /\ UNCHANGED <<model, rows, links, writes>>

(* fetchByColumnIn(): one chunk of the target's rows. A row that an earlier *)
(* chunk of this call already gave is dropped, hooked as it is.             *)
FetchColumn(r) == IF r.type = "one-to-many" THEN r.joinColumn ELSE PrimaryKey(r.target)

(* Mutants: the level before the last, or every level, is hooked as it is   *)
(* fetched.                                                                 *)
DeferredTooLittle(o) == o.kind = "find" /\ Len(o.segs) > 2
NotDeferred(o) == FALSE

(* The hooks of all levels but the last wait.                               *)
Deferred(o) == o.kind = "find" /\ Len(o.segs) > 1

(* seenPks: rows that no earlier chunk of the call gave.                    *)
NotSeen(h, new, got) == {x \in new : \A y \in got : h[y].key # h[x].key}

FetchChunk ==
  /\ op.phase = "fetch"
  /\ LET r == Current(model, op, heap)
     IN  \E chunk \in Chunks(op.values) :
           LET keys == {k \in DOMAIN rows[r.target] :
                          Cell(r.target, k, FetchColumn(r)) \in chunk}
               h    == Hydrated(heap, r.target, keys, op, ~ Deferred(op))
               new  == (Len(heap) + 1)..Len(h)
           IN  Continue([op EXCEPT !.values = @ \ chunk,
                                   !.got = @ \cup NotSeen(h, new, op.got)], h)
  /\ UNCHANGED <<model, rows, links, writes>>

(* A query fails; what was assigned and hooked so far stays.                *)
QueryFails ==
  /\ op.phase \in {"links", "fetch"}
  /\ Ended("failed")
  /\ UNCHANGED <<model, rows, links, heap, writes>>

(* fireAfterFindOn(): on the way back, the hooks of the level, in its       *)
(* context; then the context ends.                                          *)
Unwind ==
  /\ op.phase = "unwind"
  /\ IF op.above = <<>>
       THEN op' = [op EXCEPT !.phase = "path"] /\ UNCHANGED heap
       ELSE /\ heap' = Hooked(heap, Last(op.above), op)
            /\ op' = [op EXCEPT !.above = Front(@), !.ctx = IF op.trx THEN @ - 1 ELSE @]
  /\ UNCHANGED <<model, rows, links, writes>>
---------------------------------------------------------------------------
(* Other clients write between the queries of a call that is in no          *)
(* transaction; in one, its reads are of one snapshot.                      *)
MayWrite ==
  /\ op.phase \in {"links", "fetch"}
  /\ ~ op.trx /\ op.outer = Unset
  /\ writes < MaxWrites
  /\ writes' = writes + 1
  /\ UNCHANGED <<model, heap, op>>

Change ==
  /\ MayWrite
  /\ \E C \in DOMAIN rows : \E k \in DOMAIN rows[C] : \E c \in DOMAIN rows[C][k] :
       \E v \in {Null} \cup UNION {DOMAIN rows[D] : D \in DOMAIN rows \ {C}} :
         /\ v # rows[C][k][c]
         /\ rows' = [rows EXCEPT ![C][k][c] = v]
  /\ UNCHANGED links

RemoveRow ==
  /\ MayWrite
  /\ \E C \in DOMAIN rows : \E k \in DOMAIN rows[C] :
       rows' = [rows EXCEPT ![C] = [j \in DOMAIN @ \ {k} |-> @[j]]]
  /\ UNCHANGED links

Unlink ==
  /\ MayWrite
  /\ \E t \in DOMAIN links : \E l \in links[t] : links' = [links EXCEPT ![t] = @ \ {l}]
  /\ UNCHANGED rows

Link ==
  /\ MayWrite
  /\ \E t \in DOMAIN links : \E l, n \in links[t] : \E c \in DOMAIN l :
       /\ [l EXCEPT ![c] = n[c]] \notin links[t]
       /\ links' = [links EXCEPT ![t] = @ \cup {[l EXCEPT ![c] = n[c]]}]
  /\ UNCHANGED rows

Step == NextPath \/ NoOwners \/ OpenRelation \/ ReadLinks \/ FetchChunk \/ Unwind

Request ==
  /\ Accepted(model)
  /\ \E C \in Built(model), mode \in Modes : \E K \in SUBSET DOMAIN rows[C] \ {{}} :
       \/ Find(C, K, mode)
       \/ \E p \in {r.prop : r \in Items(Relations(model, C))}, whole \in BOOLEAN :
            LoadRelations(C, K, <<p>>, whole, mode)

Next == Request \/ Step \/ QueryFails \/ Change \/ RemoveRow \/ Unlink \/ Link

Spec == Init /\ [][Next]_vars
---------------------------------------------------------------------------
(* What the declared model promises, read before the first call: the model  *)
(* does not change. Three gaps of the code are left out by name: a class    *)
(* that declares one join table on two relations (the second resolves to    *)
(* nothing), a join table with the name of an entity's table, and one whose *)
(* two columns are given one name (it gets a single column).                *)
OneTableEach(m) ==
  /\ \A C \in Registered(m) : \A p, q \in DOMAIN m.of[C].joins :
       m.of[C].joins[p].tableName = m.of[C].joins[q].tableName => p = q
  /\ \A C, D \in Registered(m) : \A p \in DOMAIN m.of[D].joins :
       m.of[D].joins[p].tableName # m.of[C].table

(* Every class that has decorators is in the configuration.                 *)
Complete(m) == Registered(m) = Items(m.entities)

ManyToMany(m, C) == {r \in Items(Relations(m, C)) : r.type = "many-to-many"}

TwoColumns(m) ==
  \A C \in Registered(m) : \A r \in ManyToMany(m, C) :
    LET d == JoinTableDefinition(m, C, r)
    IN  d \notin {Unset, Fault} => d.joinColumn # d.inverseColumn

KeyType(m, C) == m.of[C].schema[m.of[C].pks[1]]

Fits(m, C, r, t) ==
  LET tables == {s \in BuildExpectedSchemas(m) : s.tableName = t.tableName}
  IN  /\ tables # {}
      /\ \A s \in tables :
           /\ {t.ownerColumn, t.inverseColumn} \subseteq DOMAIN s.columns
           /\ t.ownerColumnType = KeyType(m, C)
           /\ s.columns[t.ownerColumn] = KeyType(m, C)
           /\ s.columns[t.inverseColumn] = KeyType(m, r.target)

(* A model that validation accepts at startup has no declaration that the   *)
(* schemas could not be built from; and if they can be, every many-to-many  *)
(* relation reads a table that sync creates, by columns it has, of the      *)
(* types of the two primary keys (validate-entity.ts:400, #87, #90), and    *)
(* metadata:dump prints it; validation overlooks only an inverseSide that   *)
(* is no property access, which nothing but the dump reads.                 *)
AcceptedIsReadable ==
  op = Idle /\ Accepted(model) /\ Complete(model) =>
    /\ ~ Malformed(model)
    /\ ~ SyncRefuses(model) /\ DumpRefuses(model) =>
         \E C \in Registered(model) : \E r \in ManyToMany(model, C) :
           r.inverseSide = Rejected
    /\ ~ SyncRefuses(model) /\ OneTableEach(model) /\ TwoColumns(model) =>
         \A C \in Registered(model) : \A r \in ManyToMany(model, C) :
           LET t == ResolveManyToManyJoinTable(model, C, r)
           IN  t \notin {Unset, Fault} /\ Fits(model, C, r, t)

(* Two declarations of one join table that differ, on whatever classes, are *)
(* refused by sync and by every read of that table alike (#139).            *)
Clashing(m, t) ==
  \E p, q \in Declarations(m, SeenEntities(m)) :
    LET d == DefinitionAt(m, SeenEntities(m), p)
        e == DefinitionAt(m, SeenEntities(m), q)
    IN  Fault \notin {d, e} /\ d.tableName = t /\ Clash(d, e)

ConflictSeenByAll ==
  op = Idle /\ Complete(model) =>
    \A C \in Registered(model) : \A r \in ManyToMany(model, C) :
      LET read == ResolveManyToManyJoinTable(model, C, r)
          d    == JoinTableDefinition(model, C, r)
      IN  /\ /\ OneTableEach(model) /\ d \notin {Unset, Fault}
             /\ Clashing(model, d.tableName)
             => read = Fault
          /\ read = Fault => SyncRefuses(model)
          /\ read \notin {Unset, Fault} => ~ Clashing(model, read.tableName)

(* The two sides of a relation read one table from its two ends, and        *)
(* metadata:dump names the table they read; where at most one many-to-many  *)
(* relation of each class leads to the other.                               *)
Paths(m, C, D) ==
  {j \in DOMAIN Relations(m, C) :
     Relations(m, C)[j].type = "many-to-many" /\ Relations(m, C)[j].target = D}

TablesAgree ==
  op = Idle /\ Accepted(model) /\ Complete(model) /\ ~ DumpRefuses(model) =>
    \A C \in Registered(model) : \A r \in ManyToMany(model, C) :
      LET D == r.target
          t == ResolveManyToManyJoinTable(model, C, r)
      IN  Cardinality(Paths(model, C, D)) = 1 /\ Cardinality(Paths(model, D, C)) <= 1 =>
            /\ DumpedJoinTable(model, C, r) = t.tableName
            /\ \A j \in Paths(model, D, C) :
                 LET back == ResolveManyToManyJoinTable(model, D, Relations(model, D)[j])
                 IN  /\ back.tableName = t.tableName
                     /\ back.ownerColumn = t.inverseColumn
                     /\ back.inverseColumn = t.ownerColumn

(* ... and the inverse that it prints for a relation by a column has none   *)
(* but that relation for its own. A one-to-one as the inverse of a          *)
(* one-to-many is left out: its own is a one-to-one that leads back.        *)
InversesPair ==
  op = Idle /\ Accepted(model) =>
    \A C \in Registered(model) : \A r \in Items(Relations(model, C)) :
      LET p == FindInverseProperty(model, C, r)
      IN  r.type # "many-to-many" /\ p # Unset =>
            \A s \in Items(Relations(model, r.target)) :
              s.prop = p /\ ~ (r.type = "one-to-many" /\ s.type = "one-to-one") =>
                FindInverseProperty(model, r.target, s) \in {r.prop, Unset}

SidesAgree == TablesAgree /\ InversesPair
---------------------------------------------------------------------------
(* What loading promises.                                                   *)
Many(m, C, p) == Relation(m, C, p).type \in {"one-to-many", "many-to-many"}

(* The instances that relation p of instance i holds, and all it holds.     *)
Targets(m, h, i, p) ==
  LET v == h[i].rel[p]
  IN  IF v \in {Unset, Null}        THEN {}
      ELSE IF Many(m, h[i].cls, p) THEN v
      ELSE {v}

Held(m, h, i) == UNION {Targets(m, h, i, p) : p \in DOMAIN h[i].rel}

(* The rows a relation of row k leads to, by its definition.                *)
Related(C, k, r) ==
  CASE r.type = "one-to-many" ->
         {j \in DOMAIN rows[r.target] : Cell(r.target, j, r.joinColumn) = k}
    [] r.type = "many-to-many" ->
         LET t == ResolveManyToManyJoinTable(model, C, r)
         IN  {l[t.inverseColumn] : l \in {l \in links[t.tableName] : l[t.ownerColumn] = k}}
               \cap DOMAIN rows[r.target]
    [] OTHER -> {Cell(C, k, r.joinColumn)} \cap DOMAIN rows[r.target]

(* The instances that n steps of a path lead to from instance i.            *)
Along(i, path) ==
  LET level[n \in 0..Len(path)] ==
        IF n = 0 THEN {i}
        ELSE UNION {Targets(model, heap, x, path[n]) : x \in level[n - 1]}
  IN  level

FollowsPath(i, path) ==
  \A n \in DOMAIN path : \A x \in Along(i, path)[n - 1] :
    LET related == Related(heap[x].cls, heap[x].key, Relation(model, heap[x].cls, path[n]))
        I       == Targets(model, heap, x, path[n])
    IN  /\ heap[x].rel[path[n]] = Unset => ~ Many(model, heap[x].cls, path[n])
        /\ {heap[y].key : y \in I} = related
        /\ Cardinality(I) = Cardinality(related)

(* One load of a relation gives one instance for a row, however many owners *)
(* share it and whatever moves between its queries; and a row of a          *)
(* one-to-many relation has one owner.                                      *)
OneInstancePerRow ==
  \A i, j \in DOMAIN heap :
    /\ \A x \in Held(model, heap, i), y \in Held(model, heap, j) :
         heap[x].batch = heap[y].batch /\ heap[x].key = heap[y].key => x = y
    /\ i # j /\ heap[i].cls = heap[j].cls => \A p \in DOMAIN heap[i].rel :
         Relation(model, heap[i].cls, p).type = "one-to-many" =>
           Targets(model, heap, i, p) \cap Targets(model, heap, j, p) = {}

(* Every path of a find() loads its first relation anew: of two paths that  *)
(* share it the later one keeps what the earlier loaded only if it repeats  *)
(* all of it.                                                               *)
PathsKeep(paths) ==
  \A i, j \in DOMAIN paths :
    i < j /\ Head(paths[i]) = Head(paths[j]) => IsPrefix(paths[i], paths[j])

(* A find() that nobody writes beside ends with every row of every eager    *)
(* path on its instances, each once, whatever chunks it was read in; and    *)
(* whatever is written meanwhile, one load gives a row one instance. Of a   *)
(* class outside the configuration nothing is validated, and eager loading  *)
(* passes over a many-to-many relation that has no table.                   *)
LoadsTheGraph ==
  /\ OneInstancePerRow
  /\ op.phase = "ended" /\ op.outcome = "ok" /\ op.kind = "find" /\ writes = 0
       /\ OneTableEach(model) /\ Complete(model) =>
     \A i \in op.roots :
       LET paths == model.of[heap[i].cls].eager
       IN  PathsKeep(paths) => \A n \in DOMAIN paths : FollowsPath(i, paths[n])

(* afterFind fires once for every instance of a find(), after those of      *)
(* everything it holds, and nothing is loaded onto it later (#83, #16).     *)
Beneath(h, I) ==
  LET reach[n \in 0..Len(h)] ==
        IF n = 0 THEN I ELSE reach[n - 1] \cup UNION {Held(model, h, i) : i \in reach[n - 1]}
  IN  reach[Len(h)]

HookedOnce ==
  /\ \A i \in DOMAIN heap : heap[i].hooked <= 1
  /\ op.phase = "ended" /\ op.outcome = "ok" /\ op.kind = "find" =>
       \A i \in Beneath(heap, op.roots) : heap[i].hooked = 1

HookedAfterDescendants ==
  [][op.phase # "idle" /\ op.kind = "find" =>
       \A i \in DOMAIN heap :
         /\ heap'[i].hooked # heap[i].hooked => \A x \in Held(model, heap, i) : heap[x].hooked = 1
         /\ heap'[i].rel # heap[i].rel => heap[i].hooked = 0]_vars

(* Along a path of several levels under { trx } the hooks query in that     *)
(* transaction, and no query is refused as mixing two transactions unless   *)
(* the caller is in another one (#16, #98).                                 *)
InTransaction ==
  [][/\ op.phase \in {"fetch", "unwind"} /\ op.trx /\ Len(op.above) + Len(op.segs) > 1 =>
          \A i \in DOMAIN heap' \ op.roots :
            i \notin DOMAIN heap \/ heap'[i].via # heap[i].via => heap'[i].via \subseteq {"trx"}
     /\ op'.phase = "ended" /\ op'.outcome = "mixing" => op'.outer # Unset]_vars
=============================================================================
