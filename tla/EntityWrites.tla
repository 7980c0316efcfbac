---------------------------- MODULE EntityWrites ----------------------------
(***************************************************************************)
(* The writes of src/persistence/entity-persistence.ts one statement at a  *)
(* time: save() of one entity, insertMany() of several in batches, delete()*)
(* with its hook; calls overlap, statements fail with or without effect,   *)
(* and the application makes an insertMany() that failed again.            *)
(*                                                                         *)
(* The primary key is a generated uuid, and perhaps a second component     *)
(* that the application sets.  What is encrypted is in EntityPersistence;  *)
(* here the provider only answers or fails.  What an entity is refused for *)
(* is its flaw.  Validation provider, hooks and database are external.     *)
(***************************************************************************)
EXTENDS Integers, FiniteSets, SequencesExt

CONSTANTS
  Handle,      \* entity instances the application holds
  Key,         \* uuids
  Column,      \* columns that are not in the key
  CreateDate,  \* the create date column, if any: a set of at most one
  UpdateDate,  \* the update date column, if any
  Value,       \* what the application puts into a column
  HookSets,    \* columns that the hooks before a write set
  Touched,     \* what it puts there
  Now,         \* what a date column is filled with
  Call,        \* calls in flight
  BatchSize,   \* BATCH_SIZE
  RemoveHook,  \* whether the class has a beforeRemove hook
  Entities,    \* what the entities may be like at first
  Lists,       \* what insertMany() is called with
  MaxFaults,   \* bound: failures of hooks, provider and database
  MaxRequests, \* bound: calls and assignments of the application
  Null,
  Unset,       \* undefined: the property is not there
  None         \* no row, no call

(* Why an entity may be refused: a hook throws, the other component of its  *)
(* key is missing, the validation reports errors, a value is none of its    *)
(* column's enum.                                                           *)
Refusal == {"hook", "key", "invalid"}
Flaw    == Refusal \cup {"none", "enum"}

ASSUME BatchAssumption == BatchSize \in Nat \ {0}
ASSUME DateAssumption ==
  /\ CreateDate \subseteq Column /\ Cardinality(CreateDate) <= 1
  /\ UpdateDate \subseteq Column /\ Cardinality(UpdateDate) <= 1
ASSUME HookAssumption == HookSets \subseteq Column /\ Touched # Unset
ASSUME ListsAssumption == \A l \in Lists : l # <<>> /\ l \in Seq(Handle) /\ IsInjective(l)
ASSUME RemoveHookAssumption == RemoveHook \in BOOLEAN
ASSUME BoundsAssumption == MaxFaults \in Nat /\ MaxRequests \in Nat

Fields   == [Column -> Value \cup {Touched, Now, Null, Unset}]
Instance == [key : Key \cup {Unset}, val : Fields, flaw : Flaw]

ASSUME EntitiesAssumption == Entities \subseteq [Handle -> Instance]
ASSUME ApartAssumption ==
  \A e \in Entities : \A h, g \in Handle : e[h].key # Unset /\ e[h].key = e[g].key => h = g
ASSUME UnsetAssumption == Unset \notin Key

VARIABLES
  table,   \* the rows; `of` remembers the entity that was inserted
  inst,    \* the entities
  call,    \* the calls
  faults,
  requests

vars == <<table, inst, call, faults, requests>>

(* A call writes `list`, of which it has dealt with the first `done` in the *)
(* phase it is in.  `data` are the copies it has made, `todo` the groups of *)
(* the batch up to `batch`; `stored` remembers the entities of statements   *)
(* that were acknowledged.                                                  *)
Begun(op, list) ==
  [op |-> op, list |-> list, phase |-> "before", done |-> 0, data |-> <<>>,
   batch |-> 0, todo |-> {}, key |-> Unset, stored |-> {}]

Init ==
  /\ table = [k \in Key |-> None]
  /\ inst \in Entities
  /\ call = [c \in Call |-> None]
  /\ faults = 0
  /\ requests = 0

In(c, op, phase) == call[c] # None /\ call[c].op \in op /\ call[c].phase = phase
Of(c, i) == inst[call[c].list[i]]

Inserts == {"insert", "insertMany"}
Writes  == Inserts \cup {"update"}
Busy(h) == \E c \in Call : call[c] # None /\ call[c].phase # "failed" /\ h \in ToSet(call[c].list)

(* A call that throws.  An insertMany() can be made again.                  *)
Failed(c) ==
  call' = [call EXCEPT ![c] =
             IF @.op = "insertMany" THEN [@ EXCEPT !.phase = "failed"] ELSE None]

Returned(c) == call' = [call EXCEPT ![c] = None]

Fault   == faults < MaxFaults /\ faults' = faults + 1
Request == requests < MaxRequests /\ requests' = requests + 1
---------------------------------------------------------------------------
(* The start of a call, up to its first await. *)

Fresh == {k \in Key : table[k] = None /\ \A h \in Handle : inst[h].key # k}

Unkeyed(list) == {h \in ToSet(list) : inst[h].key = Unset}

(* The dates that are not there.                                            *)
Dated(val) ==
  [d \in Column |-> IF d \in CreateDate \cup UpdateDate /\ val[d] = Unset THEN Now ELSE val[d]]

FillKeys(list, H) ==
  /\ Injection(H, Fresh) # {}
  /\ LET keys == CHOOSE keys \in Injection(H, Fresh) : TRUE
     IN  inst' = [h \in Handle |->
                    IF h \in ToSet(list)
                      THEN [inst[h] EXCEPT !.key = IF h \in H THEN keys[h] ELSE @, !.val = Dated(@)]
                      ELSE inst[h]]

(* Mutant: each attempt makes new uuids.                                    *)
FillAll(list) == FillKeys(list, ToSet(list))

(* generateUuid() for the entities that have none; which uuids it makes is  *)
(* of no account.                                                           *)
Fill(list) == FillKeys(list, Unkeyed(list))

(* save() of an entity with its whole key: update() dates it.               *)
Update(c, h) ==
  /\ Request
  /\ call[c] = None
  /\ inst[h].key # Unset /\ inst[h].flaw # "key"
  /\ inst' = [inst EXCEPT ![h].val = [d \in Column |-> IF d \in UpdateDate THEN Now ELSE @[d]]]
  /\ call' = [call EXCEPT ![c] = Begun("update", <<h>>)]
  /\ UNCHANGED <<table, faults>>

(* save() of any other one.                                                 *)
Insert(c, h) ==
  /\ Request
  /\ call[c] = None
  /\ inst[h].key = Unset \/ inst[h].flaw = "key"
  /\ Fill(<<h>>)
  /\ call' = [call EXCEPT ![c] = Begun("insert", <<h>>)]
  /\ UNCHANGED <<table, faults>>

InsertMany(c, list) ==
  /\ Request
  /\ call[c] = None
  /\ Fill(list)
  /\ call' = [call EXCEPT ![c] = Begun("insertMany", list)]
  /\ UNCHANGED <<table, faults>>

(* The application makes an insertMany() that failed again.                 *)
Again(c) ==
  /\ In(c, {"insertMany"}, "failed")
  /\ Fill(call[c].list)
  /\ call' = [call EXCEPT ![c] = Begun("insertMany", @.list)]
  /\ UNCHANGED <<table, faults, requests>>

(* It assigns to an entity between two calls.                               *)
Assign(h, d, x) ==
  /\ Request
  /\ ~Busy(h)
  /\ d \notin CreateDate \cup UpdateDate \cup HookSets
  /\ inst[h].val[d] # x
  /\ inst' = [inst EXCEPT ![h].val[d] = x]
  /\ UNCHANGED <<table, call, faults>>
---------------------------------------------------------------------------
(* What comes before the first statement. *)

Went(c, phase) == call' = [call EXCEPT ![c].phase = phase, ![c].done = 0]
On(c)          == call' = [call EXCEPT ![c].done = @ + 1]
AtLast(c)      == call[c].done + 1 = Len(call[c].list)
Item(c)        == Of(c, call[c].done + 1)
ItsFlaws(c)    == {inst[h].flaw : h \in ToSet(call[c].list)}

(* beforeInsert and beforeUpdate; insertMany() checks all the keys after    *)
(* the last one.                                                            *)
BeforeHook(c) ==
  /\ In(c, Writes, "before")
  /\ IF Item(c).flaw = "hook"
       THEN Failed(c) /\ UNCHANGED inst
       ELSE /\ inst' = [inst EXCEPT ![call[c].list[call[c].done + 1]].val =
                           [d \in Column |-> IF d \in HookSets THEN Touched ELSE @[d]]]
            /\ IF ~AtLast(c) THEN On(c)
               ELSE IF call[c].op = "insertMany" /\ "key" \in ItsFlaws(c) THEN Failed(c)
               ELSE Went(c, "validate")
  /\ UNCHANGED <<table, faults, requests>>

(* After the last validation: an insert() checks its key, an update() that  *)
(* it has something to set; then encryptEntity() copies the entities.       *)
Unwritable(c) ==
  \/ call[c].op = "insert" /\ Item(c).flaw = "key"
  \/ call[c].op = "update" /\ \A d \in Column : Item(c).val[d] = Unset

Copied(c) ==
  call' = [call EXCEPT ![c].phase = "encrypt", ![c].done = 0,
             ![c].data = [i \in DOMAIN call[c].list |-> [key |-> Of(c, i).key, val |-> Of(c, i).val]]]

(* Mutant: nobody looks at the errors the validation reports.               *)
ValidateNothing(c) ==
  /\ In(c, Writes, "validate")
  /\ IF ~AtLast(c) THEN On(c)
     ELSE IF Unwritable(c) THEN Failed(c)
     ELSE Copied(c)
  /\ UNCHANGED <<table, inst, faults, requests>>

Validate(c) ==
  /\ In(c, Writes, "validate")
  /\ IF Item(c).flaw = "invalid" THEN Failed(c)
     ELSE IF ~AtLast(c) THEN On(c)
     ELSE IF Unwritable(c) THEN Failed(c)
     ELSE Copied(c)
  /\ UNCHANGED <<table, inst, faults, requests>>
---------------------------------------------------------------------------
(* The batches of a write, each in groups of the same columns. *)

Defined(d) == {c \in Column : d.val[c] # Unset}

(* Mutant: a batch is one short of what the next one leaves to it.          *)
ShortBatch(data, from) == {i \in DOMAIN data : from < i /\ i < from + BatchSize}

Batch(data, from) == {i \in DOMAIN data : from < i /\ i <= from + BatchSize}

(* Mutant: the columns of the first row are those of the batch.             *)
OneGroup(data, from) == {Batch(data, from)}

Groups(data, from) ==
  {{j \in Batch(data, from) : Defined(data[j]) = Defined(data[i])} : i \in Batch(data, from)}

(* They are written in the order of their first rows.                       *)
First(group, todo) == \E i \in group : \A other \in todo : \A j \in other : i <= j

(* Mutant: a last batch that is not full is forgotten.                      *)
MoreIfFull(s, batch) == batch + BatchSize <= Len(s.data)

MoreBatches(s, batch) == batch < Len(s.data)

(* The next group, the next batch, or the hooks after them.                 *)
Advanced(s, todo, batch) ==
  IF todo # {} THEN [s EXCEPT !.todo = todo, !.batch = batch]
  ELSE IF MoreBatches(s, batch)
    THEN [s EXCEPT !.todo = Groups(s.data, batch), !.batch = batch + BatchSize]
  ELSE [s EXCEPT !.todo = {}, !.phase = "after", !.done = 0]

(* The provider answers, or fails.                                          *)
Encrypted(c) ==
  /\ In(c, Writes, "encrypt")
  /\ \/ /\ call' = [call EXCEPT ![c] = Advanced([@ EXCEPT !.phase = "write"], {}, 0)]
        /\ UNCHANGED faults
     \/ Fault /\ Failed(c)
  /\ UNCHANGED <<table, inst, requests>>

EmptyRow(h) == [of |-> h, col |-> [d \in Column |-> Null]]

SetColumns(row, d, columns) ==
  [row EXCEPT !.col = [c \in Column |-> IF c \in columns THEN d.val[c] ELSE @[c]]]

(* A statement sets the columns of its first row.                           *)
Shared(s, group) == Defined(s.data[CHOOSE i \in group : \A j \in group : i <= j])

Upserted(s, group) ==
  LET of(k) == {i \in group : s.data[i].key = k}
  IN  [k \in Key |->
         IF of(k) = {} THEN table[k]
         ELSE LET i == CHOOSE i \in of(k) : TRUE
              IN  SetColumns(IF table[k] = None THEN EmptyRow(s.list[i]) ELSE table[k],
                             s.data[i], Shared(s, group))]

(* While the parameters of a row are bound, convertEnumOut() throws, and    *)
(* mapToYdb() for an undefined value.                                       *)
Unbindable(c, i, columns) ==
  Of(c, i).flaw = "enum" \/ ~(columns \subseteq Defined(call[c].data[i]))

(* One UPSERT. It fails with or without effect.                             *)
Upsert(c) ==
  /\ In(c, Inserts, "write")
  /\ LET s == call[c]
     IN  \E g \in s.todo :
           /\ First(g, s.todo)
           /\ IF \E i \in g : Unbindable(c, i, Shared(s, g))
                THEN Failed(c) /\ UNCHANGED <<table, faults>>
                ELSE \/ /\ table' = Upserted(s, g)
                        /\ call' = [call EXCEPT ![c] =
                             Advanced([s EXCEPT !.stored = @ \cup {s.list[i] : i \in g}],
                                      s.todo \ {g}, s.batch)]
                        /\ UNCHANGED faults
                     \/ Fault /\ Failed(c) /\ table' \in {table, Upserted(s, g)}
  /\ UNCHANGED <<inst, requests>>

(* UPDATE ... RETURNING; an update that finds no row throws.                *)
UpdateRow(c) ==
  /\ In(c, {"update"}, "write")
  /\ LET d       == call[c].data[1]
         updated == IF table[d.key] = None THEN table
                    ELSE [table EXCEPT ![d.key] = SetColumns(@, d, Defined(d))]
     IN  IF Unbindable(c, 1, Defined(d))
           THEN UNCHANGED <<table, faults>>
           ELSE \/ table' = updated /\ UNCHANGED faults
                \/ Fault /\ table' \in {table, updated}
  /\ Returned(c)
  /\ UNCHANGED <<inst, requests>>

(* afterInsert, which may throw.                                            *)
AfterHook(c) ==
  /\ In(c, Inserts, "after")
  /\ \/ UNCHANGED faults /\ IF AtLast(c) THEN Returned(c) ELSE On(c)
     \/ Fault /\ Failed(c)
  /\ UNCHANGED <<table, inst, requests>>
---------------------------------------------------------------------------
(* delete() *)

Delete(c, k) ==
  /\ Request
  /\ call[c] = None
  /\ call' = [call EXCEPT ![c] =
       [Begun("delete", <<>>) EXCEPT !.key = k, !.phase = IF RemoveHook THEN "find" ELSE "remove"]]
  /\ UNCHANGED <<table, inst, faults>>

(* A class with a beforeRemove hook finds the entity first.                 *)
FindRow(c) ==
  /\ In(c, {"delete"}, "find")
  /\ IF table[call[c].key] = None THEN Returned(c) ELSE Went(c, "beforeRemove")
  /\ UNCHANGED <<table, inst, faults, requests>>

BeforeRemove(c) ==
  /\ In(c, {"delete"}, "beforeRemove")
  /\ \/ Went(c, "remove") /\ UNCHANGED faults
     \/ Fault /\ Failed(c)
  /\ UNCHANGED <<table, inst, requests>>

(* DELETE ... RETURNING *)
RemoveRow(c) ==
  /\ In(c, {"delete"}, "remove")
  /\ LET removed == [table EXCEPT ![call[c].key] = None]
     IN  \/ table' = removed /\ UNCHANGED faults
         \/ Fault /\ table' \in {table, removed}
  /\ Returned(c)
  /\ UNCHANGED <<inst, requests>>
---------------------------------------------------------------------------
Step(c) ==
  \/ BeforeHook(c) \/ Validate(c) \/ Encrypted(c) \/ Upsert(c) \/ UpdateRow(c) \/ AfterHook(c)
  \/ FindRow(c) \/ BeforeRemove(c) \/ RemoveRow(c)

(* Which record stands for a new call makes no difference.                  *)
Free == {c \in Call : call[c] = None /\ c = CHOOSE d \in Call : call[d] = None}

Next ==
  \/ \E c \in Call : Step(c) \/ Again(c)
  \/ \E c \in Free, h \in Handle : Update(c, h) \/ Insert(c, h)
  \/ \E c \in Free, list \in Lists : InsertMany(c, list)
  \/ \E c \in Free, k \in {inst[h].key : h \in Handle} \ {Unset} : Delete(c, k)
  \/ \E h \in Handle, d \in Column, x \in Value \cup {Unset} : Assign(h, d, x)

Spec == Init /\ [][Next]_vars

(* A call goes on, and an insertMany() that failed is made again.           *)
FairSpec == Spec /\ \A c \in Call : WF_vars(Step(c)) /\ WF_vars(Again(c))
---------------------------------------------------------------------------
(* What the writes promise. *)

Row    == [of : Handle, col : [Column -> Value \cup {Touched, Now, Null}]]
Copy   == [key : Key \cup {Unset}, val : Fields]
Phase  == {"before", "validate", "encrypt", "write", "after", "failed",
           "find", "beforeRemove", "remove"}
Record == [op : Writes \cup {"delete"}, list : Seq(Handle), phase : Phase, done : Nat,
           data : Seq(Copy), batch : Nat, todo : SUBSET SUBSET Nat, key : Key \cup {Unset},
           stored : SUBSET Handle]

ASSUME NoneAssumption == None \notin Row

TypeOK ==
  /\ table \in [Key -> Row \cup {None}]
  /\ inst \in [Handle -> Instance]
  /\ call \in [Call -> Record \cup {None}]
  /\ faults \in Nat
  /\ requests \in Nat

(* However often an insert is made again, and whatever a failed statement   *)
(* left behind, an entity has one row: the uuid is put on the entity before *)
(* anything can fail (insert(), insertMany()).                              *)
OneRowPerEntity ==
  \A k, l \in Key :
    table[k] # None /\ table[l] # None /\ table[k].of = table[l].of => k = l

(* While a statement of a call is to be sent, none of the entities it       *)
(* writes has failed a hook, the check of its key or the validation: one    *)
(* that is refused keeps all the others of its insertMany() from being      *)
(* written (entity-persistence.ts:1793).                                    *)
RefusedWritesNothing ==
  \A c \in Call : In(c, Writes, "write") => ItsFlaws(c) \cap Refusal = {}

(* afterInsert runs only after all write batches have completed             *)
(* successfully (entity-persistence.ts:1859), whatever the batches and      *)
(* groups.                                                                  *)
AfterInsertWhenStored ==
  \A c \in Call : In(c, Inserts, "after") => call[c].stored = ToSet(call[c].list)

(* A statement changes only columns that the copy it writes has defined, to *)
(* what the copy has there, and an acknowledged one leaves them all so,     *)
(* though one UPSERT writes several entities; and with what the hooks have  *)
(* set (entity-persistence.ts:1793).                                        *)
Writing(k, d, x) ==
  \E c \in Call : In(c, Writes, "write") /\
    \E i \in DOMAIN call[c].data : call[c].data[i].key = k /\ call[c].data[i].val[d] = x

WritesWhatIsThere ==
  [][/\ \A k \in Key : \A d \in Column :
          table[k] # None /\ table'[k] # None /\ table'[k].col[d] # table[k].col[d] =>
            Writing(k, d, table'[k].col[d])
     /\ \A c \in Call : In(c, Inserts, "write") /\ call'[c] # None =>
          \A i \in DOMAIN call[c].data :
            call[c].list[i] \in call'[c].stored \ call[c].stored =>
              LET d == call[c].data[i]
              IN  /\ table'[d.key] # None
                  /\ \A col \in Defined(d) : table'[d.key].col[col] = d.val[col]
                  /\ \A col \in HookSets : table'[d.key].col[col] = Touched]_vars

(* A list that nothing is wrong with gets into the table, though its        *)
(* batches are written one by one and any may fail: insertMany() is made    *)
(* again.                                                                   *)
Stored(h) == \E k \in Key : table[k] # None /\ table[k].of = h

EventuallyStored ==
  \A h \in Handle :
    (\E c \in Call : /\ In(c, {"insertMany"}, "before") /\ h \in ToSet(call[c].list)
                     /\ ItsFlaws(c) = {"none"}) ~> Stored(h)
=============================================================================
