------------------------- MODULE EntityWritesProofs -------------------------
(* The safety of the writes for any number of entities, keys, columns and   *)
(* calls, any batch size and any number of failures.  The last section is   *)
(* about what a statement writes: WInv adds to IInv what the hooks have set *)
(* and what the rows of one group have in common.                           *)
EXTENDS EntityWrites, TLAPS

(* What the entities go through: a key that is set and a flaw stay.         *)
Grown(I, J) ==
  \A h \in Handle : J[h].flaw = I[h].flaw /\ (I[h].key # Unset => J[h].key = I[h].key)

(* No two entities have one uuid, and a row has that of its entity.         *)
KeysApart == \A h, g \in Handle : inst[h].key # Unset /\ inst[h].key = inst[g].key => h = g
RowsOwned == \A k \in Key : table[k] # None => inst[table[k].of].key = k

(* A call s among the entities I: it has filled the keys of its list;       *)
Keyed(s, I) == \A i \in DOMAIN s.list : I[s.list[i]].key # Unset

Shaped(s) ==
  /\ s.op \in Writes <=> s.phase \in {"before", "validate", "encrypt", "write", "after", "failed"}
  /\ s.op \in Writes => 0 < Len(s.list)
  /\ s.op \in {"insert", "update"} => Len(s.list) = 1
  /\ s.phase \in {"before", "validate"} => s.done < Len(s.list)

(* it has found no reason to refuse one of the entities it has looked at;   *)
Passed(s, I) ==
  /\ s.op = "update" => \A i \in DOMAIN s.list : I[s.list[i]].flaw # "key"
  /\ s.phase = "before" => \A i \in 1..s.done : I[s.list[i]].flaw # "hook"
  /\ s.phase = "validate" =>
       /\ \A i \in DOMAIN s.list :
            I[s.list[i]].flaw # "hook" /\ (s.op = "insertMany" => I[s.list[i]].flaw # "key")
       /\ \A i \in 1..s.done : I[s.list[i]].flaw # "invalid"
  /\ s.phase \in {"encrypt", "write", "after"} =>
       \A i \in DOMAIN s.list : I[s.list[i]].flaw \notin Refusal

(* its copies have the keys of the entities, in their order;                *)
Copies(s, I) ==
  s.phase \in {"encrypt", "write"} =>
    /\ Len(s.data) = Len(s.list)
    /\ \A i \in DOMAIN s.list : s.data[i].key = I[s.list[i]].key

(* and an entity is stored, or in a group still to be written, or in a      *)
(* batch still to come.                                                     *)
Covers(s) ==
  /\ s.phase = "write" =>
       /\ \A g \in s.todo : g \subseteq DOMAIN s.list
       /\ \A i \in DOMAIN s.list :
            s.list[i] \in s.stored \/ i > s.batch \/ \E g \in s.todo : i \in g
  /\ s.phase = "after" => \A i \in DOMAIN s.list : s.list[i] \in s.stored
  /\ s.stored \subseteq {s.list[i] : i \in DOMAIN s.list}

CallOK(s, I) == Keyed(s, I) /\ Shaped(s) /\ Passed(s, I) /\ Copies(s, I) /\ Covers(s)

CallsOK == \A c \in Call : call[c] # None => CallOK(call[c], inst)

IInv == TypeOK /\ KeysApart /\ RowsOwned /\ CallsOK

-----------------------------------------------------------------------------
(* A call that nobody touches stays right while entities grow.              *)
LEMMA CallGrows ==
  ASSUME NEW s \in Record, NEW I, NEW J, Grown(I, J), CallOK(s, I)
  PROVE  CallOK(s, J)
<1> USE DEF Record
<1>1. \A i \in DOMAIN s.list : s.list[i] \in Handle
  OBVIOUS
<1>2. \A i \in DOMAIN s.list :
        /\ J[s.list[i]].flaw = I[s.list[i]].flaw
        /\ J[s.list[i]].key = I[s.list[i]].key
        /\ J[s.list[i]].key # Unset
  BY <1>1 DEF Grown, CallOK, Keyed
<1>3. s.phase \in {"before", "validate"} => 1..s.done \subseteq DOMAIN s.list
  BY DEF CallOK, Shaped
<1>4. Passed(s, J)
  BY <1>2, <1>3 DEF CallOK, Passed
<1> QED
  BY <1>2, <1>4 DEF CallOK, Keyed, Copies

LEMMA Same == \A I : Grown(I, I)
  BY DEF Grown

(* One call is replaced by one that is right. *)
LEMMA CallPut ==
  ASSUME IInv, NEW c \in Call, NEW new, call' = [call EXCEPT ![c] = new],
         new = None \/ (new \in Record /\ CallOK(new, inst')),
         Grown(inst, inst')
  PROVE  call' \in [Call -> Record \cup {None}] /\ CallsOK'
<1>1. call' \in [Call -> Record \cup {None}]
  BY DEF IInv, TypeOK
<1>2. ASSUME NEW d \in Call, call'[d] # None
      PROVE  CallOK(call'[d], inst')
  <2>1. CASE d = c
    BY <1>2, <2>1 DEF IInv, TypeOK
  <2>2. CASE d # c
    <3>1. call'[d] = call[d] /\ call[d] \in Record
      BY <1>2, <2>2 DEF IInv, TypeOK
    <3> QED
      BY <1>2, <3>1, CallGrows DEF IInv, CallsOK
  <2> QED
    BY <2>1, <2>2
<1> QED
  BY <1>1, <1>2 DEF CallsOK

(* The other calls while only entities change. *)
LEMMA CallsStay ==
  ASSUME IInv, UNCHANGED call, Grown(inst, inst')
  PROVE  CallsOK'
<1> SUFFICES ASSUME NEW d \in Call, call[d] # None PROVE CallOK(call[d], inst')
  BY DEF CallsOK
<1> QED
  BY CallGrows DEF IInv, TypeOK, CallsOK

LEMMA RowsStay ==
  ASSUME IInv, UNCHANGED table, Grown(inst, inst')
  PROVE  RowsOwned'
<1> SUFFICES ASSUME NEW k \in Key, table[k] # None PROVE inst'[table[k].of].key = k
  BY DEF RowsOwned
<1>1. table[k].of \in Handle
  BY DEF IInv, TypeOK, Row
<1> QED
  BY <1>1, UnsetAssumption DEF Grown, IInv, RowsOwned

(* A call that throws. *)
LEMMA FailedCall ==
  ASSUME IInv, NEW c \in Call, call[c] # None, Failed(c), Grown(inst, inst')
  PROVE  call' \in [Call -> Record \cup {None}] /\ CallsOK'
<1> DEFINE new == IF call[c].op = "insertMany" THEN [call[c] EXCEPT !.phase = "failed"] ELSE None
<1>1. call[c] \in Record /\ CallOK(call[c], inst')
  BY CallGrows DEF IInv, TypeOK, CallsOK
<1>2. call' = [call EXCEPT ![c] = new]
  BY DEF Failed, IInv, TypeOK
<1>3. ASSUME call[c].op = "insertMany" PROVE new \in Record /\ CallOK(new, inst')
  <2>1. new = [call[c] EXCEPT !.phase = "failed"]
    BY <1>3
  <2> HIDE DEF new
  <2>2. new \in Record /\ new.phase = "failed" /\ new.op = "insertMany"
        /\ new.list = call[c].list /\ new.stored = call[c].stored
    BY <2>1, <1>1, <1>3 DEF Record, Phase
  <2> QED
    BY <2>2, <1>1, <1>3 DEF CallOK, Keyed, Shaped, Passed, Copies, Covers, Writes, Inserts
<1>4. new = None \/ (new \in Record /\ CallOK(new, inst'))
  BY <1>3
<1> HIDE DEF new
<1> QED
  BY <1>2, <1>4, CallPut

LEMMA ReturnedCall ==
  ASSUME IInv, NEW c \in Call, Returned(c), Grown(inst, inst')
  PROVE  call' \in [Call -> Record \cup {None}] /\ CallsOK'
  BY CallPut DEF Returned

-----------------------------------------------------------------------------
(* The start of a call. *)

(* generateUuid() gives every entity of the list a key of its own. *)
LEMMA FillEffect ==
  ASSUME IInv, NEW list \in Seq(Handle), Fill(list)
  PROVE  /\ inst' \in [Handle -> Instance]
         /\ Grown(inst, inst')
         /\ KeysApart'
         /\ \A i \in DOMAIN list : inst'[list[i]].key # Unset
<1> DEFINE H == Unkeyed(list)
<1>1. PICK keys \in Injection(H, Fresh) :
        inst' = [h \in Handle |->
                   IF h \in ToSet(list)
                     THEN [inst[h] EXCEPT !.key = IF h \in H THEN keys[h] ELSE @, !.val = Dated(@)]
                     ELSE inst[h]]
  BY DEF Fill, FillKeys
<1>2. /\ keys \in [H -> Fresh]
      /\ \A a, b \in H : keys[a] = keys[b] => a = b
  BY <1>1 DEF Injection, IsInjective
<1>3. H \subseteq Handle /\ \A h \in H : inst[h].key = Unset /\ h \in ToSet(list)
  BY DEF Unkeyed, ToSet
<1>4. \A h \in ToSet(list) : h \in Handle /\ (h \notin H => inst[h].key # Unset)
  BY DEF Unkeyed, ToSet
<1>5. \A h \in Handle : inst[h] \in Instance
  BY DEF IInv, TypeOK
<1>6. \A h \in Handle : Dated(inst[h].val) \in Fields
  BY <1>5 DEF Dated, Fields, Instance
<1>7. \A h \in Handle :
        /\ inst'[h].key = IF h \in H THEN keys[h] ELSE inst[h].key
        /\ inst'[h].flaw = inst[h].flaw
        /\ inst'[h] \in Instance
  <2> SUFFICES ASSUME NEW h \in Handle
               PROVE  /\ inst'[h].key = IF h \in H THEN keys[h] ELSE inst[h].key
                      /\ inst'[h].flaw = inst[h].flaw
                      /\ inst'[h] \in Instance
    OBVIOUS
  <2>1. h \in H => keys[h] \in Key
    BY <1>2 DEF Fresh
  <2>2. CASE h \in ToSet(list)
    <3> DEFINE k == IF h \in H THEN keys[h] ELSE inst[h].key
               v == Dated(inst[h].val)
    <3>1. inst'[h] = [inst[h] EXCEPT !.key = k, !.val = v]
      BY <1>1, <2>2
    <3>2. k \in Key \cup {Unset} /\ v \in Fields
      BY <2>1, <1>5, <1>6 DEF Instance
    <3> HIDE DEF k, v, H
    <3>3. inst'[h] \in Instance /\ inst'[h].key = k /\ inst'[h].flaw = inst[h].flaw
      BY <3>1, <3>2, <1>5 DEF Instance
    <3> QED
      BY <3>3 DEF k
  <2>3. CASE h \notin ToSet(list)
    BY <1>1, <1>3, <1>5, <2>3
  <2> QED
    BY <2>2, <2>3
<1> HIDE DEF H
<1>8. inst' \in [Handle -> Instance]
  <2>1. inst' = [h \in Handle |-> inst'[h]]
    BY <1>1
  <2> QED
    BY <2>1, <1>7
<1>9. Grown(inst, inst')
  BY <1>7, <1>3 DEF Grown
<1>10. \A h \in H : inst'[h].key \in Fresh /\ inst'[h].key # Unset
  BY <1>2, <1>3, <1>7, UnsetAssumption DEF Fresh
<1>11. KeysApart'
  <2> SUFFICES ASSUME NEW h \in Handle, NEW g \in Handle,
                      inst'[h].key # Unset, inst'[h].key = inst'[g].key
               PROVE  h = g
    BY DEF KeysApart
  <2>1. CASE h \in H /\ g \in H
    BY <2>1, <1>2, <1>7
  <2>2. CASE h \in H /\ g \notin H
    BY <2>2, <1>7, <1>10 DEF Fresh
  <2>3. CASE h \notin H /\ g \in H
    BY <2>3, <1>7, <1>10 DEF Fresh
  <2>4. CASE h \notin H /\ g \notin H
    BY <2>4, <1>7 DEF IInv, KeysApart
  <2> QED
    BY <2>1, <2>2, <2>3, <2>4
<1>12. \A h \in ToSet(list) : inst'[h].key # Unset
  BY <1>4, <1>7, <1>10
<1> QED
  BY <1>8, <1>9, <1>11, <1>12 DEF ToSet

(* What a call begins with is right, once the keys are filled. *)
LEMMA BegunCall ==
  ASSUME NEW op \in Writes, NEW list \in Seq(Handle), 0 < Len(list), NEW I,
         op \in {"insert", "update"} => Len(list) = 1,
         op = "update" => \A i \in DOMAIN list : I[list[i]].flaw # "key",
         \A i \in DOMAIN list : I[list[i]].key # Unset
  PROVE  Begun(op, list) \in Record /\ CallOK(Begun(op, list), I)
<1>1. Begun(op, list) \in Record
  BY DEF Begun, Record, Phase
<1> QED
  BY <1>1 DEF Begun, CallOK, Keyed, Shaped, Passed, Copies, Covers, Writes, Inserts

(* A call that begins, or begins again, with Fill. *)
LEMMA FilledCall ==
  ASSUME IInv, NEW c \in Call, NEW op \in Inserts, NEW list \in Seq(Handle), 0 < Len(list),
         op = "insert" => Len(list) = 1,
         Fill(list), call' = [call EXCEPT ![c] = Begun(op, list)],
         faults' \in Nat, requests' \in Nat, UNCHANGED table
  PROVE  IInv'
<1>1. /\ inst' \in [Handle -> Instance]
      /\ Grown(inst, inst')
      /\ KeysApart'
      /\ \A i \in DOMAIN list : inst'[list[i]].key # Unset
  BY FillEffect
<1>2. op \in Writes /\ op # "update"
  BY DEF Writes, Inserts
<1>3. Begun(op, list) \in Record /\ CallOK(Begun(op, list), inst')
  BY <1>1, <1>2, BegunCall
<1>4. call' \in [Call -> Record \cup {None}] /\ CallsOK'
  BY <1>1, <1>3, CallPut
<1> QED
  BY <1>1, <1>4, RowsStay DEF IInv, TypeOK

(* A step that leaves the table alone. *)
LEMMA Quiet ==
  ASSUME IInv, inst' \in [Handle -> Instance], Grown(inst, inst'), KeysApart',
         call' \in [Call -> Record \cup {None}], CallsOK',
         UNCHANGED table, faults' \in Nat, requests' \in Nat
  PROVE  IInv'
  BY RowsStay DEF IInv, TypeOK

LEMMA UpdateKeeps ==
  ASSUME IInv, NEW c \in Call, NEW h \in Handle, Update(c, h)
  PROVE  IInv'
<1> DEFINE v == [d \in Column |-> IF d \in UpdateDate THEN Now ELSE inst[h].val[d]]
<1>1. inst' = [inst EXCEPT ![h] = [inst[h] EXCEPT !.val = v]]
  BY DEF Update, IInv, TypeOK
<1>2. inst[h] \in Instance /\ v \in Fields
  BY DEF IInv, TypeOK, Instance, Fields
<1> HIDE DEF v
<1>3. [inst[h] EXCEPT !.val = v] \in Instance
      /\ [inst[h] EXCEPT !.val = v].key = inst[h].key
      /\ [inst[h] EXCEPT !.val = v].flaw = inst[h].flaw
  BY <1>2 DEF Instance
<1>4. inst' \in [Handle -> Instance]
      /\ \A g \in Handle : inst'[g].key = inst[g].key /\ inst'[g].flaw = inst[g].flaw
  BY <1>1, <1>3 DEF IInv, TypeOK
<1>5. Grown(inst, inst') /\ KeysApart'
  BY <1>4 DEF Grown, KeysApart, IInv
<1>6. /\ <<h>> \in Seq(Handle) /\ Len(<<h>>) = 1
      /\ \A i \in DOMAIN <<h>> : <<h>>[i] = h
  OBVIOUS
<1>7. Begun("update", <<h>>) \in Record /\ CallOK(Begun("update", <<h>>), inst')
  <2> DEFINE list == <<h>>
             op == "update"
  <2>1. op \in Writes /\ list \in Seq(Handle) /\ 0 < Len(list) /\ Len(list) = 1
    BY DEF Writes
  <2>2. \A i \in DOMAIN list : inst'[list[i]].flaw # "key" /\ inst'[list[i]].key # Unset
    BY <1>4, <1>6 DEF Update
  <2> HIDE DEF list, op
  <2>3. Begun(op, list) \in Record /\ CallOK(Begun(op, list), inst')
    BY <2>1, <2>2, BegunCall
  <2> QED
    BY <2>3 DEF list, op
<1>8. call' \in [Call -> Record \cup {None}] /\ CallsOK'
  BY <1>5, <1>7, CallPut DEF Update
<1> QED
  BY <1>4, <1>5, <1>8, Quiet DEF Update, Request, IInv, TypeOK

LEMMA InsertKeeps ==
  ASSUME IInv, NEW c \in Call, NEW h \in Handle, Insert(c, h)
  PROVE  IInv'
<1> DEFINE list == <<h>>
           op == "insert"
<1>1. op \in Inserts /\ list \in Seq(Handle) /\ 0 < Len(list) /\ Len(list) = 1
  BY DEF Inserts
<1>2. /\ Fill(list) /\ call' = [call EXCEPT ![c] = Begun(op, list)]
      /\ faults' \in Nat /\ requests' \in Nat /\ UNCHANGED table
  BY DEF Insert, Request, IInv, TypeOK
<1> HIDE DEF list, op
<1> QED
  BY <1>1, <1>2, FilledCall

LEMMA InsertManyKeeps ==
  ASSUME IInv, NEW c \in Call, NEW list \in Lists, InsertMany(c, list)
  PROVE  IInv'
<1> DEFINE op == "insertMany"
<1>1. op \in Inserts /\ op # "insert" /\ list \in Seq(Handle) /\ 0 < Len(list)
  BY ListsAssumption DEF Inserts
<1>2. /\ Fill(list) /\ call' = [call EXCEPT ![c] = Begun(op, list)]
      /\ faults' \in Nat /\ requests' \in Nat /\ UNCHANGED table
  BY DEF InsertMany, Request, IInv, TypeOK
<1> HIDE DEF op
<1> QED
  BY <1>1, <1>2, FilledCall

LEMMA AgainKeeps ==
  ASSUME IInv, NEW c \in Call, Again(c)
  PROVE  IInv'
<1> DEFINE list == call[c].list
           op == "insertMany"
<1>1. op \in Inserts /\ op # "insert" /\ list \in Seq(Handle) /\ 0 < Len(list)
  BY DEF Again, In, IInv, TypeOK, CallsOK, CallOK, Shaped, Record, Writes, Inserts
<1>2. /\ Fill(list) /\ call' = [call EXCEPT ![c] = Begun(op, list)]
      /\ faults' \in Nat /\ requests' \in Nat /\ UNCHANGED table
  BY DEF Again, IInv, TypeOK
<1> HIDE DEF list, op
<1> QED
  BY <1>1, <1>2, FilledCall

LEMMA AssignKeeps ==
  ASSUME IInv, NEW h \in Handle, NEW d \in Column, NEW x \in Value \cup {Unset}, Assign(h, d, x)
  PROVE  IInv'
<1> DEFINE v == [inst[h].val EXCEPT ![d] = x]
<1>1. inst' = [inst EXCEPT ![h] = [inst[h] EXCEPT !.val = v]]
  BY DEF Assign, IInv, TypeOK
<1>2. inst[h] \in Instance /\ v \in Fields
  BY DEF IInv, TypeOK, Instance, Fields
<1> HIDE DEF v
<1>3. [inst[h] EXCEPT !.val = v] \in Instance
      /\ [inst[h] EXCEPT !.val = v].key = inst[h].key
      /\ [inst[h] EXCEPT !.val = v].flaw = inst[h].flaw
  BY <1>2 DEF Instance
<1>4. inst' \in [Handle -> Instance]
      /\ \A g \in Handle : inst'[g].key = inst[g].key /\ inst'[g].flaw = inst[g].flaw
  BY <1>1, <1>3 DEF IInv, TypeOK
<1>5. Grown(inst, inst') /\ KeysApart'
  BY <1>4 DEF Grown, KeysApart, IInv
<1>6. CallsOK'
  BY <1>5, CallsStay DEF Assign
<1> QED
  BY <1>4, <1>5, <1>6, Quiet DEF Assign, Request, IInv, TypeOK

-----------------------------------------------------------------------------
(* What comes before the first statement. *)

LEMMA CallAt ==
  ASSUME IInv, NEW c \in Call, call[c] # None
  PROVE  call[c] \in Record /\ CallOK(call[c], inst)
  BY DEF IInv, TypeOK, CallsOK

LEMMA Items ==
  ASSUME NEW s \in Record, s.done < Len(s.list)
  PROVE  /\ s.done + 1 \in DOMAIN s.list
         /\ s.list[s.done + 1] \in Handle
         /\ s.done + 1 = Len(s.list) =>
              \A i \in DOMAIN s.list : i \in 1..s.done \/ i = s.done + 1
  BY DEF Record

(* What a step to the next item, or to the next phase, leaves alone. *)
LEMMA OnRecord ==
  ASSUME NEW s \in Record
  PROVE  LET new == [s EXCEPT !.done = @ + 1]
         IN  /\ new \in Record /\ new.op = s.op /\ new.list = s.list /\ new.phase = s.phase
             /\ new.done = s.done + 1 /\ new.data = s.data /\ new.todo = s.todo
             /\ new.batch = s.batch /\ new.stored = s.stored
<1>1. s.done + 1 \in Nat
  BY DEF Record
<1> DEFINE n == s.done + 1
<1> HIDE DEF n
<1>2. LET new == [s EXCEPT !.done = n]
      IN  /\ new \in Record /\ new.op = s.op /\ new.list = s.list /\ new.phase = s.phase
          /\ new.done = n /\ new.data = s.data /\ new.todo = s.todo
          /\ new.batch = s.batch /\ new.stored = s.stored
  BY <1>1 DEF Record, n
<1> QED
  BY <1>2 DEF n

LEMMA WentRecord ==
  ASSUME NEW s \in Record, NEW p \in Phase
  PROVE  LET new == [s EXCEPT !.phase = p, !.done = 0]
         IN  /\ new \in Record /\ new.op = s.op /\ new.list = s.list /\ new.phase = p
             /\ new.done = 0 /\ new.data = s.data /\ new.todo = s.todo
             /\ new.batch = s.batch /\ new.stored = s.stored
  BY DEF Record

LEMMA BeforeHookKeeps ==
  ASSUME IInv, NEW c \in Call, BeforeHook(c)
  PROVE  IInv'
<1> DEFINE s == call[c]
           n == s.done + 1
           h == s.list[n]
<1>1. /\ s \in Record /\ CallOK(s, inst)
      /\ s.op \in Writes /\ s.phase = "before" /\ call[c] # None
  BY CallAt DEF BeforeHook, In
<1>2. s.done < Len(s.list)
  BY <1>1 DEF CallOK, Shaped
<1>3. n \in DOMAIN s.list /\ h \in Handle
  BY <1>1, <1>2, Items
<1>4. faults' = faults /\ requests' = requests /\ table' = table
  BY DEF BeforeHook
<1>5. CASE Item(c).flaw = "hook"
  <2>1. Failed(c) /\ inst' = inst
    BY <1>5 DEF BeforeHook
  <2>2. call' \in [Call -> Record \cup {None}] /\ CallsOK'
    BY <2>1, <1>1, FailedCall, Same
  <2> QED
    BY <2>1, <2>2, <1>4, Quiet, Same DEF IInv, TypeOK, KeysApart
<1>6. CASE Item(c).flaw # "hook"
  <2> DEFINE v == [d \in Column |-> IF d \in HookSets THEN Touched ELSE inst[h].val[d]]
  <2>1. /\ inst' = [inst EXCEPT ![h] = [inst[h] EXCEPT !.val = v]]
        /\ IF ~AtLast(c) THEN On(c)
           ELSE IF call[c].op = "insertMany" /\ "key" \in ItsFlaws(c) THEN Failed(c)
           ELSE Went(c, "validate")
    BY <1>3, <1>6 DEF BeforeHook, IInv, TypeOK
  <2>2. inst[h] \in Instance /\ v \in Fields
    BY <1>3 DEF IInv, TypeOK, Instance, Fields
  <2> HIDE DEF v
  <2>3. [inst[h] EXCEPT !.val = v] \in Instance
        /\ [inst[h] EXCEPT !.val = v].key = inst[h].key
        /\ [inst[h] EXCEPT !.val = v].flaw = inst[h].flaw
    BY <2>2 DEF Instance
  <2>4. inst' \in [Handle -> Instance]
        /\ \A g \in Handle : inst'[g].key = inst[g].key /\ inst'[g].flaw = inst[g].flaw
    BY <1>3, <2>1, <2>3 DEF IInv, TypeOK
  <2>5. Grown(inst, inst') /\ KeysApart'
    BY <2>4 DEF Grown, KeysApart, IInv
  <2>6. CallOK(s, inst') /\ inst'[h].flaw # "hook"
    BY <1>1, <1>3, <1>6, <2>4, <2>5, CallGrows DEF Item, Of
  <2>7. call' \in [Call -> Record \cup {None}] /\ CallsOK'
    <3>1. CASE ~AtLast(c)
      <4> DEFINE new == [s EXCEPT !.done = @ + 1]
      <4>1. call' = [call EXCEPT ![c] = new]
        BY <2>1, <3>1 DEF On, IInv, TypeOK
      <4>2. /\ new \in Record /\ new.op = s.op /\ new.list = s.list /\ new.phase = s.phase
            /\ new.done = s.done + 1 /\ new.stored = s.stored
        BY <1>1, OnRecord
      <4> HIDE DEF new
      <4>5. new.done < Len(new.list) /\ new.phase = "before"
        BY <1>1, <1>2, <3>1, <4>2 DEF AtLast, Record
      <4>3. \A i \in 1..new.done : inst'[new.list[i]].flaw # "hook"
        <5>1. \A i \in 1..s.done : inst'[s.list[i]].flaw # "hook"
          BY <1>1, <2>6 DEF CallOK, Passed
        <5>2. \A i \in 1..new.done : i \in 1..s.done \/ i = n
          BY <1>1, <4>2 DEF Record
        <5> QED
          BY <5>1, <5>2, <4>2, <2>6
      <4>4. CallOK(new, inst')
        BY <4>2, <4>3, <4>5, <2>6, <1>1 DEF CallOK, Keyed, Shaped, Passed, Copies, Covers
      <4> QED
        BY <4>1, <4>2, <4>4, <2>5, CallPut
    <3>2. CASE AtLast(c) /\ call[c].op = "insertMany" /\ "key" \in ItsFlaws(c)
      BY <3>2, <2>1, <2>5, <1>1, FailedCall
    <3>3. CASE AtLast(c) /\ ~(call[c].op = "insertMany" /\ "key" \in ItsFlaws(c))
      <4> DEFINE new == [s EXCEPT !.phase = "validate", !.done = 0]
      <4>1. call' = [call EXCEPT ![c] = new]
        BY <2>1, <3>3 DEF Went, IInv, TypeOK
      <4>2. /\ new \in Record /\ new.op = s.op /\ new.list = s.list /\ new.phase = "validate"
            /\ new.done = 0 /\ new.stored = s.stored
        BY <1>1, WentRecord DEF Phase
      <4> HIDE DEF new
      <4>6. new.done < Len(new.list)
        BY <1>1, <1>2, <4>2 DEF Record
      <4>3. \A i \in DOMAIN s.list : inst'[s.list[i]].flaw # "hook"
        BY <1>1, <1>2, <3>3, <2>6, Items DEF CallOK, Passed, AtLast
      <4>4. s.op = "insertMany" => \A i \in DOMAIN s.list : inst'[s.list[i]].flaw # "key"
        <5>1. \A i \in DOMAIN s.list : s.list[i] \in Handle
          BY <1>1 DEF Record
        <5> QED
          BY <3>3, <2>4, <5>1 DEF ItsFlaws, ToSet
      <4>5. CallOK(new, inst')
        BY <4>2, <4>3, <4>4, <4>6, <2>6, <1>1 DEF CallOK, Keyed, Shaped, Passed, Copies, Covers
      <4> QED
        BY <4>1, <4>2, <4>5, <2>5, CallPut
    <3> QED
      BY <3>1, <3>2, <3>3
  <2> QED
    BY <2>4, <2>5, <2>7, <1>4, Quiet DEF IInv, TypeOK
<1> QED
  BY <1>5, <1>6

(* A step of a call that changes nothing but its record, and may fail. *)
LEMMA OwnStep ==
  ASSUME IInv, call' \in [Call -> Record \cup {None}], CallsOK',
         UNCHANGED <<table, inst>>, faults' \in Nat, requests' \in Nat
  PROVE  IInv'
  BY Quiet, Same DEF IInv, TypeOK, KeysApart

LEMMA ValidateKeeps ==
  ASSUME IInv, NEW c \in Call, Validate(c)
  PROVE  IInv'
<1> DEFINE s == call[c]
           n == s.done + 1
<1>1. /\ s \in Record /\ CallOK(s, inst)
      /\ s.op \in Writes /\ s.phase = "validate" /\ call[c] # None
  BY CallAt DEF Validate, In
<1>2. s.done < Len(s.list)
  BY <1>1 DEF CallOK, Shaped
<1>3. UNCHANGED <<table, inst>> /\ faults' \in Nat /\ requests' \in Nat
  BY DEF Validate, IInv, TypeOK
<1>4. Grown(inst, inst')
  BY <1>3, Same
<1>5. call' \in [Call -> Record \cup {None}] /\ CallsOK'
  <2>1. CASE Failed(c)
    BY <1>1, <1>4, <2>1, FailedCall
  <2>2. CASE Item(c).flaw # "invalid" /\ ~AtLast(c)
    <3> DEFINE new == [s EXCEPT !.done = @ + 1]
    <3>1. call' = [call EXCEPT ![c] = new]
      BY <2>2 DEF Validate, On, IInv, TypeOK
    <3>2. /\ new \in Record /\ new.op = s.op /\ new.list = s.list /\ new.phase = s.phase
          /\ new.done = n /\ new.stored = s.stored
      BY <1>1, OnRecord
    <3> HIDE DEF new
    <3>3. new.done < Len(new.list) /\ new.phase = "validate"
      BY <1>1, <1>2, <2>2, <3>2 DEF AtLast, Record
    <3>4. \A i \in 1..new.done : inst[new.list[i]].flaw # "invalid"
      <4>1. \A i \in 1..s.done : inst[s.list[i]].flaw # "invalid"
        BY <1>1 DEF CallOK, Passed
      <4>2. \A i \in 1..new.done : i \in 1..s.done \/ i = n
        BY <1>1, <3>2 DEF Record
      <4>3. inst[s.list[n]].flaw # "invalid"
        BY <2>2 DEF Item, Of
      <4> QED
        BY <4>1, <4>2, <4>3, <3>2
    <3>5. CallOK(new, inst)
      BY <3>2, <3>3, <3>4, <1>1 DEF CallOK, Keyed, Shaped, Passed, Copies, Covers
    <3> QED
      BY <3>1, <3>2, <3>5, <1>3, <1>4, CallPut
  <2>3. CASE Item(c).flaw # "invalid" /\ AtLast(c) /\ ~Unwritable(c)
    <3> DEFINE copies == [i \in DOMAIN s.list |-> [key |-> inst[s.list[i]].key, val |-> inst[s.list[i]].val]]
               new == [s EXCEPT !.phase = "encrypt", !.done = 0, !.data = copies]
    <3>1. call' = [call EXCEPT ![c] = new]
      <4>1. Copied(c)
        BY <2>3 DEF Validate
      <4> QED
        BY <4>1 DEF Copied, Of, IInv, TypeOK
    <3>2. copies \in Seq(Copy) /\ Len(copies) = Len(s.list)
      <4>1. DOMAIN s.list = 1..Len(s.list) /\ Len(s.list) \in Nat
            /\ \A i \in DOMAIN s.list : s.list[i] \in Handle
        BY <1>1 DEF Record
      <4>2. \A i \in DOMAIN s.list : copies[i] \in Copy
        BY <4>1 DEF Copy, IInv, TypeOK, Instance
      <4>3. copies = [i \in 1..Len(s.list) |-> copies[i]]
        BY <4>1
      <4> HIDE DEF copies
      <4> QED
        BY <4>1, <4>2, <4>3
    <3>3. \A i \in DOMAIN s.list : copies[i].key = inst[s.list[i]].key
      OBVIOUS
    <3> HIDE DEF copies
    <3>4. /\ new \in Record /\ new.op = s.op /\ new.list = s.list /\ new.phase = "encrypt"
          /\ new.data = copies /\ new.stored = s.stored
      BY <1>1, <3>2 DEF Record, Phase
    <3> HIDE DEF new
    <3>5. \A i \in DOMAIN s.list : inst[s.list[i]].flaw \notin Refusal
      <4> SUFFICES ASSUME NEW i \in DOMAIN s.list PROVE inst[s.list[i]].flaw \notin Refusal
        OBVIOUS
      <4>1. inst[s.list[i]].flaw # "hook"
        BY <1>1 DEF CallOK, Passed
      <4>2. inst[s.list[i]].flaw # "invalid"
        <5>1. i \in 1..s.done \/ i = n
          BY <1>1, <1>2, <2>3, Items DEF AtLast
        <5>2. inst[s.list[n]].flaw # "invalid"
          BY <2>3 DEF Item, Of
        <5>3. i \in 1..s.done => inst[s.list[i]].flaw # "invalid"
          BY <1>1 DEF CallOK, Passed
        <5> QED
          BY <5>1, <5>2, <5>3
      <4>3. inst[s.list[i]].flaw # "key"
        <5>1. CASE s.op = "insertMany"
          BY <1>1, <5>1 DEF CallOK, Passed
        <5>2. CASE s.op = "update"
          BY <1>1, <5>2 DEF CallOK, Passed
        <5>3. CASE s.op = "insert"
          <6>1. Len(s.list) = 1 /\ i = 1 /\ n = 1
            <7>1. Len(s.list) = 1
              BY <1>1, <5>3 DEF CallOK, Shaped
            <7>2. s.done \in Nat /\ DOMAIN s.list = 1..Len(s.list)
              BY <1>1 DEF Record
            <7> QED
              BY <1>2, <7>1, <7>2
          <6>2. inst[s.list[n]].flaw # "key"
            BY <2>3, <5>3 DEF Unwritable, Item, Of
          <6> QED
            BY <6>1, <6>2
        <5> QED
          BY <1>1, <5>1, <5>2, <5>3 DEF Writes, Inserts
      <4> QED
        BY <4>1, <4>2, <4>3 DEF Refusal
    <3>6. CallOK(new, inst)
      BY <3>2, <3>3, <3>4, <3>5, <1>1 DEF CallOK, Keyed, Shaped, Passed, Copies, Covers
    <3> QED
      BY <3>1, <3>4, <3>6, <1>3, <1>4, CallPut
  <2> QED
    BY <2>1, <2>2, <2>3 DEF Validate
<1> QED
  BY <1>3, <1>5, OwnStep

-----------------------------------------------------------------------------
(* The statements. *)

(* Whatever a call goes on with, the next group, the next batch or the      *)
(* hooks, none of its entities is lost.                                     *)
LEMMA AdvancedCall ==
  ASSUME NEW s \in Record, NEW I, NEW todo \in SUBSET SUBSET Nat, NEW batch \in Nat,
         s.op \in Writes, s.phase = "write",
         Keyed(s, I), Shaped(s), Passed(s, I), Copies(s, I),
         \A g \in todo : g \subseteq DOMAIN s.list,
         \A i \in DOMAIN s.list :
           s.list[i] \in s.stored \/ i > batch \/ \E g \in todo : i \in g,
         s.stored \subseteq {s.list[i] : i \in DOMAIN s.list}
  PROVE  Advanced(s, todo, batch) \in Record /\ CallOK(Advanced(s, todo, batch), I)
<1> DEFINE new == Advanced(s, todo, batch)
<1>0. DOMAIN s.list = 1..Len(s.list) /\ DOMAIN s.data = 1..Len(s.data) /\ Len(s.data) = Len(s.list)
      /\ Len(s.list) \in Nat
  BY DEF Record, Copies
<1>1. CASE todo # {}
  <2>1. new = [s EXCEPT !.todo = todo, !.batch = batch]
    BY <1>1 DEF Advanced
  <2> HIDE DEF new
  <2>2. /\ new \in Record /\ new.op = s.op /\ new.list = s.list /\ new.phase = s.phase
        /\ new.data = s.data /\ new.stored = s.stored /\ new.todo = todo /\ new.batch = batch
        /\ new.done = s.done
    BY <2>1 DEF Record
  <2>3. Keyed(new, I) /\ Shaped(new) /\ Copies(new, I)
    BY <2>2 DEF Keyed, Shaped, Copies
  <2>4. Passed(new, I)
    BY <2>2 DEF Passed
  <2>5. Covers(new)
    BY <2>2 DEF Covers
  <2> QED
    BY <2>2, <2>3, <2>4, <2>5 DEF new, CallOK
<1>2. CASE todo = {} /\ MoreBatches(s, batch)
  <2> DEFINE gs == Groups(s.data, batch)
             b == batch + BatchSize
  <2>1. new = [s EXCEPT !.todo = gs, !.batch = b]
    BY <1>2 DEF Advanced
  <2>2. gs \in SUBSET SUBSET Nat /\ \A g \in gs : g \subseteq DOMAIN s.list
    BY <1>0 DEF Groups, Batch
  <2>3. b \in Nat
    BY BatchAssumption
  <2>4. \A i \in DOMAIN s.list : i > b \/ i <= batch \/ \E g \in gs : i \in g
    <3> SUFFICES ASSUME NEW i \in DOMAIN s.list, ~(i > b), ~(i <= batch) PROVE \E g \in gs : i \in g
      OBVIOUS
    <3>1. i \in Batch(s.data, batch)
      BY <1>0, <2>3, BatchAssumption DEF Batch
    <3>2. {j \in Batch(s.data, batch) : Defined(s.data[j]) = Defined(s.data[i])} \in gs
      BY <3>1 DEF Groups
    <3> QED
      BY <3>1, <3>2
  <2> HIDE DEF new, gs, b
  <2>5. /\ new \in Record /\ new.op = s.op /\ new.list = s.list /\ new.phase = s.phase
        /\ new.data = s.data /\ new.stored = s.stored /\ new.todo = gs /\ new.batch = b
        /\ new.done = s.done
    BY <2>1, <2>2, <2>3 DEF Record
  <2>6. \A i \in DOMAIN s.list :
          s.list[i] \in s.stored \/ i > b \/ \E g \in gs : i \in g
    BY <1>0, <1>2, <2>4
  <2>7. Keyed(new, I) /\ Shaped(new) /\ Copies(new, I)
    BY <2>5 DEF Keyed, Shaped, Copies
  <2>8. Passed(new, I)
    BY <2>5 DEF Passed
  <2>9. Covers(new)
    BY <2>2, <2>5, <2>6 DEF Covers
  <2> QED
    BY <2>5, <2>7, <2>8, <2>9 DEF new, CallOK
<1>3. CASE todo = {} /\ ~MoreBatches(s, batch)
  <2>1. new = [s EXCEPT !.todo = {}, !.phase = "after", !.done = 0]
    BY <1>3 DEF Advanced
  <2> HIDE DEF new
  <2>2. /\ new \in Record /\ new.op = s.op /\ new.list = s.list /\ new.phase = "after"
        /\ new.data = s.data /\ new.stored = s.stored /\ new.done = 0
    BY <2>1 DEF Record, Phase
  <2>3. \A i \in DOMAIN s.list : s.list[i] \in s.stored
    BY <1>0, <1>3 DEF MoreBatches
  <2>4. CallOK(new, I)
    BY <2>2, <2>3 DEF CallOK, Keyed, Shaped, Passed, Copies, Covers
  <2> QED
    BY <2>2, <2>4 DEF new
<1> QED
  BY <1>1, <1>2, <1>3

LEMMA EncryptedKeeps ==
  ASSUME IInv, NEW c \in Call, Encrypted(c)
  PROVE  IInv'
<1> DEFINE s == call[c]
<1>1. /\ s \in Record /\ CallOK(s, inst)
      /\ s.op \in Writes /\ s.phase = "encrypt" /\ call[c] # None
  BY CallAt DEF Encrypted, In
<1>2. UNCHANGED <<table, inst>> /\ faults' \in Nat /\ requests' \in Nat
  BY DEF Encrypted, Fault, IInv, TypeOK
<1>3. Grown(inst, inst')
  BY <1>2, Same
<1>4. call' \in [Call -> Record \cup {None}] /\ CallsOK'
  <2>1. CASE Failed(c)
    BY <1>1, <1>3, <2>1, FailedCall
  <2>2. CASE call' = [call EXCEPT ![c] = Advanced([s EXCEPT !.phase = "write"], {}, 0)]
    <3> DEFINE w == [s EXCEPT !.phase = "write"]
    <3>1. /\ w \in Record /\ w.op = s.op /\ w.list = s.list /\ w.phase = "write"
          /\ w.data = s.data /\ w.stored = s.stored
      BY <1>1 DEF Record, Phase
    <3> HIDE DEF w
    <3>2. Keyed(w, inst) /\ Shaped(w) /\ Copies(w, inst)
      BY <3>1, <1>1 DEF CallOK, Keyed, Shaped, Copies
    <3>3. Passed(w, inst)
      BY <3>1, <1>1 DEF CallOK, Passed
    <3>4. w.stored \subseteq {w.list[i] : i \in DOMAIN w.list}
      BY <3>1, <1>1 DEF CallOK, Covers
    <3>5. \A i \in DOMAIN w.list : i > 0
      BY <3>1, <1>1 DEF Record
    <3>6. {} \in SUBSET SUBSET Nat /\ 0 \in Nat
      OBVIOUS
    <3>7. Advanced(w, {}, 0) \in Record /\ CallOK(Advanced(w, {}, 0), inst)
      BY <3>1, <3>2, <3>3, <3>4, <3>5, <3>6, <1>1, AdvancedCall
    <3>8. call' = [call EXCEPT ![c] = Advanced(w, {}, 0)]
      BY <2>2 DEF w
    <3> QED
      BY <3>7, <3>8, <1>2, <1>3, CallPut
  <2> QED
    BY <2>1, <2>2 DEF Encrypted
<1> QED
  BY <1>2, <1>4, OwnStep

(* A statement that writes rows under the keys of their entities. *)
LEMMA SetRow ==
  ASSUME NEW row \in Row, NEW d \in Copy, NEW columns \in SUBSET Defined(d)
  PROVE  SetColumns(row, d, columns) \in Row /\ SetColumns(row, d, columns).of = row.of
<1> DEFINE col == [e \in Column |-> IF e \in columns THEN d.val[e] ELSE row.col[e]]
<1>1. SetColumns(row, d, columns) = [row EXCEPT !.col = col]
  BY DEF SetColumns
<1>2. \A e \in columns : d.val[e] \in Value \cup {Touched, Now, Null}
  BY DEF Copy, Fields, Defined
<1>3. col \in [Column -> Value \cup {Touched, Now, Null}]
  BY <1>2 DEF Row
<1> HIDE DEF col
<1> QED
  BY <1>1, <1>3 DEF Row

LEMMA UpsertedRows ==
  ASSUME IInv, NEW s \in Record, CallOK(s, inst), s.phase = "write",
         NEW group \in s.todo,
         \A i \in group : Shared(s, group) \subseteq Defined(s.data[i])
  PROVE  /\ Upserted(s, group) \in [Key -> Row \cup {None}]
         /\ \A k \in Key : Upserted(s, group)[k] # None =>
              inst[Upserted(s, group)[k].of].key = k
<1> DEFINE new == Upserted(s, group)
           columns == Shared(s, group)
           of(k) == {i \in group : s.data[i].key = k}
<1>1. group \subseteq DOMAIN s.list /\ \A i \in group :
        s.data[i] \in Copy /\ s.data[i].key = inst[s.list[i]].key /\ s.list[i] \in Handle
  <2>1. group \subseteq DOMAIN s.list
    BY DEF CallOK, Covers
  <2>2. Len(s.data) = Len(s.list) /\ \A i \in DOMAIN s.list : s.data[i].key = inst[s.list[i]].key
    BY DEF CallOK, Copies
  <2>3. s.data \in Seq(Copy) /\ s.list \in Seq(Handle)
    BY DEF Record
  <2> QED
    BY <2>1, <2>2, <2>3
<1>2. ASSUME NEW k \in Key
      PROVE  /\ new[k] \in Row \cup {None}
             /\ new[k] # None => inst[new[k].of].key = k
  <2>1. CASE of(k) = {}
    <3>1. new[k] = table[k]
      BY <2>1 DEF Upserted
    <3> QED
      BY <3>1 DEF IInv, TypeOK, RowsOwned
  <2>2. CASE of(k) # {}
    <3> DEFINE i == CHOOSE i \in of(k) : TRUE
               row == IF table[k] = None THEN EmptyRow(s.list[i]) ELSE table[k]
    <3>1. new[k] = SetColumns(row, s.data[i], columns)
      BY <2>2 DEF Upserted
    <3>2. i \in of(k)
      BY <2>2
    <3>3. i \in group /\ inst[s.list[i]].key = k
      BY <3>2, <1>1
    <3> HIDE DEF i
    <3>4. s.list[i] \in Handle /\ s.data[i] \in Copy /\ columns \in SUBSET Defined(s.data[i])
      BY <3>3, <1>1
    <3>5. row \in Row /\ inst[row.of].key = k
      <4>1. CASE table[k] = None
        <5>1. EmptyRow(s.list[i]) \in Row /\ EmptyRow(s.list[i]).of = s.list[i]
          BY <3>4 DEF EmptyRow, Row
        <5> QED
          BY <4>1, <5>1, <3>3
      <4>2. CASE table[k] # None
        BY <4>2 DEF IInv, TypeOK, RowsOwned
      <4> QED
        BY <4>1, <4>2
    <3> HIDE DEF row, columns
    <3>6. SetColumns(row, s.data[i], columns) \in Row
          /\ SetColumns(row, s.data[i], columns).of = row.of
      BY <3>4, <3>5, SetRow
    <3> QED
      BY <3>1, <3>5, <3>6
  <2> QED
    BY <2>1, <2>2
<1>3. new = [k \in Key |-> new[k]]
  BY DEF Upserted
<1> HIDE DEF new
<1>4. new \in [Key -> Row \cup {None}]
  BY <1>2, <1>3
<1> QED
  BY <1>2, <1>4 DEF new

(* A step that writes rows and leaves the entities alone. *)
LEMMA RowStep ==
  ASSUME IInv, call' \in [Call -> Record \cup {None}], CallsOK',
         table' \in [Key -> Row \cup {None}],
         \A k \in Key : table'[k] # None => inst[table'[k].of].key = k,
         inst' = inst, faults' \in Nat, requests' \in Nat
  PROVE  IInv'
  BY DEF IInv, TypeOK, KeysApart, RowsOwned

LEMMA UpsertKeeps ==
  ASSUME IInv, NEW c \in Call, Upsert(c)
  PROVE  IInv'
<1> DEFINE s == call[c]
<1>1. /\ s \in Record /\ CallOK(s, inst)
      /\ s.op \in Inserts /\ s.phase = "write" /\ call[c] # None
  BY CallAt DEF Upsert, In
<1>2. inst' = inst /\ faults' \in Nat /\ requests' \in Nat
  BY DEF Upsert, Fault, IInv, TypeOK
<1>3. Grown(inst, inst')
  BY <1>2, Same
<1>4. PICK g \in s.todo :
        IF \E i \in g : Unbindable(c, i, Shared(s, g))
          THEN Failed(c) /\ UNCHANGED <<table, faults>>
          ELSE \/ /\ table' = Upserted(s, g)
                  /\ call' = [call EXCEPT ![c] =
                       Advanced([s EXCEPT !.stored = @ \cup {s.list[i] : i \in g}],
                                s.todo \ {g}, s.batch)]
                  /\ UNCHANGED faults
               \/ Fault /\ Failed(c) /\ table' \in {table, Upserted(s, g)}
  BY DEF Upsert
<1>5. /\ table' \in [Key -> Row \cup {None}]
      /\ \A k \in Key : table'[k] # None => inst[table'[k].of].key = k
  <2>1. /\ table \in [Key -> Row \cup {None}]
        /\ \A k \in Key : table[k] # None => inst[table[k].of].key = k
    BY DEF IInv, TypeOK, RowsOwned
  <2>2. CASE table' = table
    BY <2>1, <2>2
  <2>3. CASE table' = Upserted(s, g) /\ ~ \E i \in g : Unbindable(c, i, Shared(s, g))
    <3>1. \A i \in g : Shared(s, g) \subseteq Defined(s.data[i])
      BY <2>3 DEF Unbindable
    <3>2. /\ Upserted(s, g) \in [Key -> Row \cup {None}]
          /\ \A k \in Key : Upserted(s, g)[k] # None => inst[Upserted(s, g)[k].of].key = k
      BY <1>1, <1>4, <3>1, UpsertedRows
    <3> QED
      BY <2>3, <3>2
  <2> QED
    BY <1>4, <2>2, <2>3
<1>6. call' \in [Call -> Record \cup {None}] /\ CallsOK'
  <2>1. CASE Failed(c)
    BY <1>1, <1>3, <2>1, FailedCall
  <2>2. CASE call' = [call EXCEPT ![c] =
                       Advanced([s EXCEPT !.stored = @ \cup {s.list[i] : i \in g}],
                                s.todo \ {g}, s.batch)]
    <3> DEFINE stored == s.stored \cup {s.list[i] : i \in g}
               w == [s EXCEPT !.stored = stored]
               rest == s.todo \ {g}
    <3>1. g \subseteq DOMAIN s.list /\ \A i \in DOMAIN s.list : s.list[i] \in Handle
      BY <1>1, <1>4 DEF CallOK, Covers, Record
    <3>2. stored \in SUBSET Handle /\ stored \subseteq {s.list[i] : i \in DOMAIN s.list}
      BY <1>1, <3>1 DEF CallOK, Covers
    <3>3. \A i \in DOMAIN s.list :
            s.list[i] \in stored \/ i > s.batch \/ \E o \in rest : i \in o
      BY <1>1, <1>4 DEF CallOK, Covers
    <3>4. rest \in SUBSET SUBSET Nat /\ \A o \in rest : o \subseteq DOMAIN s.list
      BY <1>1 DEF CallOK, Covers, Record
    <3> HIDE DEF stored, rest
    <3>5. /\ w \in Record /\ w.op = s.op /\ w.list = s.list /\ w.phase = "write"
          /\ w.data = s.data /\ w.stored = stored
      BY <1>1, <3>2 DEF Record
    <3> HIDE DEF w
    <3>6. Keyed(w, inst) /\ Shaped(w) /\ Copies(w, inst)
      BY <3>5, <1>1 DEF CallOK, Keyed, Shaped, Copies
    <3>7. Passed(w, inst)
      BY <3>5, <1>1 DEF CallOK, Passed
    <3>8. s.batch \in Nat /\ w.op \in Writes
      BY <1>1, <3>5 DEF Record, Writes
    <3>9. Advanced(w, rest, s.batch) \in Record /\ CallOK(Advanced(w, rest, s.batch), inst)
      BY <3>2, <3>3, <3>4, <3>5, <3>6, <3>7, <3>8, AdvancedCall
    <3>10. call' = [call EXCEPT ![c] = Advanced(w, rest, s.batch)]
      BY <2>2 DEF w, rest, stored
    <3> QED
      BY <3>9, <3>10, <1>2, <1>3, CallPut
  <2> QED
    BY <1>4, <2>1, <2>2
<1> QED
  BY <1>2, <1>5, <1>6, RowStep

LEMMA UpdateRowKeeps ==
  ASSUME IInv, NEW c \in Call, UpdateRow(c)
  PROVE  IInv'
<1> DEFINE s == call[c]
           d == s.data[1]
           updated == IF table[d.key] = None THEN table
                      ELSE [table EXCEPT ![d.key] = SetColumns(@, d, Defined(d))]
<1>1. /\ s \in Record /\ CallOK(s, inst)
      /\ s.op = "update" /\ s.phase = "write" /\ call[c] # None
  BY CallAt DEF UpdateRow, In
<1>2. inst' = inst /\ faults' \in Nat /\ requests' \in Nat /\ Returned(c)
  BY DEF UpdateRow, Fault, IInv, TypeOK
<1>3. call' \in [Call -> Record \cup {None}] /\ CallsOK'
  BY <1>2, Same, ReturnedCall
<1>4. d \in Copy /\ d.key \in Key
  <2>1. Len(s.list) = 1 /\ Len(s.data) = Len(s.list)
    BY <1>1 DEF CallOK, Shaped, Copies
  <2>2. 1 \in DOMAIN s.list /\ 1 \in DOMAIN s.data
    BY <1>1, <2>1 DEF Record
  <2>3. d \in Copy
    BY <1>1, <2>2 DEF Record
  <2>4. d.key = inst[s.list[1]].key /\ inst[s.list[1]].key # Unset
    BY <1>1, <2>2 DEF CallOK, Keyed, Copies
  <2> QED
    BY <2>3, <2>4 DEF Copy
<1> HIDE DEF d
<1>5. /\ updated \in [Key -> Row \cup {None}]
      /\ \A k \in Key : updated[k] # None => inst[updated[k].of].key = k
  <2>1. CASE table[d.key] = None
    BY <2>1 DEF IInv, TypeOK, RowsOwned
  <2>2. CASE table[d.key] # None
    <3> DEFINE row == SetColumns(table[d.key], d, Defined(d))
    <3>1. table[d.key] \in Row
      BY <1>4, <2>2 DEF IInv, TypeOK
    <3>2. row \in Row /\ row.of = table[d.key].of
      BY <1>4, <3>1, SetRow
    <3>3. updated = [table EXCEPT ![d.key] = row]
      BY <2>2 DEF IInv, TypeOK
    <3> HIDE DEF row, updated
    <3>4. inst[row.of].key = d.key
      BY <1>4, <2>2, <3>2 DEF IInv, RowsOwned
    <3>5. updated \in [Key -> Row \cup {None}]
      BY <3>2, <3>3 DEF IInv, TypeOK
    <3>6. \A k \in Key : updated[k] # None => inst[updated[k].of].key = k
      BY <1>4, <3>3, <3>4 DEF IInv, TypeOK, RowsOwned
    <3> QED
      BY <3>5, <3>6
  <2> QED
    BY <2>1, <2>2
<1>6. table' = table \/ table' = updated
  BY DEF UpdateRow, d
<1> HIDE DEF updated
<1>7. /\ table' \in [Key -> Row \cup {None}]
      /\ \A k \in Key : table'[k] # None => inst[table'[k].of].key = k
  BY <1>5, <1>6 DEF IInv, TypeOK, RowsOwned
<1> QED
  BY <1>2, <1>3, <1>7, RowStep

LEMMA AfterHookKeeps ==
  ASSUME IInv, NEW c \in Call, AfterHook(c)
  PROVE  IInv'
<1> DEFINE s == call[c]
           new == [s EXCEPT !.done = @ + 1]
<1>1. /\ s \in Record /\ CallOK(s, inst)
      /\ s.op \in Inserts /\ s.phase = "after" /\ call[c] # None
  BY CallAt DEF AfterHook, In
<1>2. UNCHANGED <<table, inst>> /\ faults' \in Nat /\ requests' \in Nat
  BY DEF AfterHook, Fault, IInv, TypeOK
<1>3. Grown(inst, inst')
  BY <1>2, Same
<1>4. CASE Failed(c)
  BY <1>1, <1>2, <1>3, <1>4, FailedCall, OwnStep
<1>5. CASE Returned(c)
  BY <1>2, <1>3, <1>5, ReturnedCall, OwnStep
<1>6. CASE On(c)
  <2>1. call' = [call EXCEPT ![c] = new]
    BY <1>6 DEF On, IInv, TypeOK
  <2>2. /\ new \in Record /\ new.op = s.op /\ new.list = s.list /\ new.phase = s.phase
        /\ new.stored = s.stored
    BY <1>1, OnRecord
  <2> HIDE DEF new
  <2>3. Keyed(new, inst) /\ Shaped(new) /\ Copies(new, inst)
    BY <2>2, <1>1 DEF CallOK, Keyed, Shaped, Copies
  <2>4. Passed(new, inst) /\ Covers(new)
    BY <2>2, <1>1 DEF CallOK, Passed, Covers
  <2>5. CallOK(new, inst')
    BY <1>2, <2>3, <2>4 DEF CallOK
  <2> QED
    BY <1>2, <1>3, <2>1, <2>2, <2>5, CallPut, OwnStep
<1> QED
  BY <1>4, <1>5, <1>6 DEF AfterHook

-----------------------------------------------------------------------------
(* delete() *)

LEMMA DeletingCall ==
  ASSUME NEW s \in Record, NEW I, NEW p \in {"find", "beforeRemove", "remove"},
         s.op = "delete", CallOK(s, I)
  PROVE  LET new == [s EXCEPT !.phase = p, !.done = 0]
         IN  new \in Record /\ CallOK(new, I)
<1> DEFINE new == [s EXCEPT !.phase = p, !.done = 0]
<1>1. p \in Phase
  BY DEF Phase
<1>2. /\ new \in Record /\ new.op = s.op /\ new.list = s.list /\ new.phase = p
      /\ new.stored = s.stored
  BY <1>1, WentRecord
<1> HIDE DEF new
<1>3. CallOK(new, I)
  BY <1>2 DEF CallOK, Keyed, Shaped, Passed, Copies, Covers, Writes, Inserts
<1> QED
  BY <1>2, <1>3 DEF new

LEMMA DeleteKeeps ==
  ASSUME IInv, NEW c \in Call, NEW k \in Key, Delete(c, k)
  PROVE  IInv'
<1> DEFINE p == IF RemoveHook THEN "find" ELSE "remove"
           new == [Begun("delete", <<>>) EXCEPT !.key = k, !.phase = p]
<1>1. p \in {"find", "beforeRemove", "remove"}
  OBVIOUS
<1> HIDE DEF p
<1>2. /\ new \in Record /\ new.op = "delete" /\ new.list = <<>> /\ new.phase = p
      /\ new.stored = {}
  <2> DEFINE b == Begun("delete", <<>>)
  <2>1. <<>> \in Seq(Handle) /\ <<>> \in Seq(Copy)
    OBVIOUS
  <2>2. b \in Record /\ b.op = "delete" /\ b.list = <<>> /\ b.stored = {}
    BY <2>1 DEF Begun, Record, Phase
  <2>3. new = [b EXCEPT !.key = k, !.phase = p]
    OBVIOUS
  <2> HIDE DEF new, b
  <2> QED
    BY <1>1, <2>2, <2>3 DEF Record, Phase
<1> HIDE DEF new
<1>3. CallOK(new, inst)
  BY <1>1, <1>2 DEF CallOK, Keyed, Shaped, Passed, Copies, Covers, Writes, Inserts
<1>4. UNCHANGED <<table, inst>> /\ faults' \in Nat /\ requests' \in Nat
  BY DEF Delete, Request, IInv, TypeOK
<1>5. call' = [call EXCEPT ![c] = new]
  BY DEF Delete, new, p
<1>6. call' \in [Call -> Record \cup {None}] /\ CallsOK'
  BY <1>2, <1>3, <1>4, <1>5, Same, CallPut
<1> QED
  BY <1>4, <1>6, OwnStep

(* The next phase of a call that deletes. *)
LEMMA WentDelete ==
  ASSUME IInv, NEW c \in Call, NEW p \in {"beforeRemove", "remove"}, call[c] # None,
         call[c].op = "delete", Went(c, p),
         UNCHANGED <<table, inst>>, faults' \in Nat, requests' \in Nat
  PROVE  IInv'
<1> DEFINE new == [call[c] EXCEPT !.phase = p, !.done = 0]
<1>1. call[c] \in Record /\ CallOK(call[c], inst)
  BY CallAt
<1>2. new \in Record /\ CallOK(new, inst)
  BY <1>1, DeletingCall
<1>3. call' = [call EXCEPT ![c] = new]
  BY DEF Went, IInv, TypeOK
<1> HIDE DEF new
<1>4. call' \in [Call -> Record \cup {None}] /\ CallsOK'
  BY <1>2, <1>3, Same, CallPut
<1> QED
  BY <1>4, OwnStep

LEMMA FindRowKeeps ==
  ASSUME IInv, NEW c \in Call, FindRow(c)
  PROVE  IInv'
<1>1. /\ call[c] # None /\ call[c].op = "delete"
      /\ UNCHANGED <<table, inst>> /\ faults' \in Nat /\ requests' \in Nat
  BY DEF FindRow, In, IInv, TypeOK
<1>2. CASE Returned(c)
  BY <1>1, <1>2, Same, ReturnedCall, OwnStep
<1>3. CASE Went(c, "beforeRemove")
  BY <1>1, <1>3, WentDelete
<1> QED
  BY <1>2, <1>3 DEF FindRow

LEMMA BeforeRemoveKeeps ==
  ASSUME IInv, NEW c \in Call, BeforeRemove(c)
  PROVE  IInv'
<1>1. /\ call[c] # None /\ call[c].op = "delete"
      /\ UNCHANGED <<table, inst>> /\ faults' \in Nat /\ requests' \in Nat
  BY DEF BeforeRemove, In, Fault, IInv, TypeOK
<1>2. CASE Failed(c)
  BY <1>1, <1>2, Same, FailedCall, OwnStep
<1>3. CASE Went(c, "remove")
  BY <1>1, <1>3, WentDelete
<1> QED
  BY <1>2, <1>3 DEF BeforeRemove

LEMMA RemoveRowKeeps ==
  ASSUME IInv, NEW c \in Call, RemoveRow(c)
  PROVE  IInv'
<1> DEFINE removed == [table EXCEPT ![call[c].key] = None]
<1>1. inst' = inst /\ faults' \in Nat /\ requests' \in Nat /\ Returned(c)
  BY DEF RemoveRow, Fault, IInv, TypeOK
<1>2. call' \in [Call -> Record \cup {None}] /\ CallsOK'
  BY <1>1, Same, ReturnedCall
<1>3. table' = table \/ table' = removed
  BY DEF RemoveRow
<1>4. /\ table' \in [Key -> Row \cup {None}]
      /\ \A k \in Key : table'[k] # None => inst[table'[k].of].key = k
  BY <1>3 DEF IInv, TypeOK, RowsOwned
<1> QED
  BY <1>1, <1>2, <1>4, RowStep

-----------------------------------------------------------------------------
LEMMA InitInv == Init => IInv
<1> SUFFICES ASSUME Init PROVE IInv
  OBVIOUS
<1>1. TypeOK
  BY EntitiesAssumption DEF Init, TypeOK
<1>2. KeysApart
  BY ApartAssumption DEF Init, KeysApart
<1>3. RowsOwned /\ CallsOK
  BY DEF Init, RowsOwned, CallsOK
<1> QED
  BY <1>1, <1>2, <1>3 DEF IInv

LEMMA StepInv == IInv /\ [Next]_vars => IInv'
<1> SUFFICES ASSUME IInv, [Next]_vars PROVE IInv'
  OBVIOUS
<1>1. CASE UNCHANGED vars
  BY <1>1 DEF vars, IInv, TypeOK, KeysApart, RowsOwned, CallsOK
<1>2. ASSUME NEW c \in Call, Step(c) PROVE IInv'
  BY <1>2, BeforeHookKeeps, ValidateKeeps, EncryptedKeeps, UpsertKeeps, UpdateRowKeeps,
     AfterHookKeeps, FindRowKeeps, BeforeRemoveKeeps, RemoveRowKeeps DEF Step
<1>3. ASSUME NEW c \in Call, Again(c) PROVE IInv'
  BY <1>3, AgainKeeps
<1>4. ASSUME NEW c \in Free, NEW h \in Handle, Update(c, h) \/ Insert(c, h) PROVE IInv'
  BY <1>4, UpdateKeeps, InsertKeeps DEF Free
<1>5. ASSUME NEW c \in Free, NEW list \in Lists, InsertMany(c, list) PROVE IInv'
  BY <1>5, InsertManyKeeps DEF Free
<1>6. ASSUME NEW c \in Free, NEW k \in {inst[h].key : h \in Handle} \ {Unset}, Delete(c, k)
      PROVE  IInv'
  <2>1. c \in Call /\ k \in Key
    BY DEF Free, IInv, TypeOK, Instance
  <2> QED
    BY <1>6, <2>1, DeleteKeeps
<1>7. ASSUME NEW h \in Handle, NEW d \in Column, NEW x \in Value \cup {Unset}, Assign(h, d, x)
      PROVE  IInv'
  BY <1>7, AssignKeeps
<1> QED
  BY <1>1, <1>2, <1>3, <1>4, <1>5, <1>6, <1>7 DEF Next

(* The writes keep their state in its types. *)
THEOREM TypeCorrect == Spec => []TypeOK
<1>1. IInv => TypeOK
  BY DEF IInv
<1> QED
  BY <1>1, InitInv, StepInv, PTL DEF Spec

(* However often an insert fails and is made again, with or without the     *)
(* effect of its statements, an entity never has two rows.                  *)
THEOREM OneRow == Spec => []OneRowPerEntity
<1>1. IInv => OneRowPerEntity
  BY DEF IInv, RowsOwned, OneRowPerEntity
<1> QED
  BY <1>1, InitInv, StepInv, PTL DEF Spec

(* A call that has a statement to send has refused none of its entities,    *)
(* whatever the size of its list.                                           *)
THEOREM Refused == Spec => []RefusedWritesNothing
<1>1. ASSUME IInv PROVE RefusedWritesNothing
  <2> SUFFICES ASSUME NEW c \in Call, In(c, Writes, "write")
               PROVE  ItsFlaws(c) \cap Refusal = {}
    BY DEF RefusedWritesNothing
  <2>1. Passed(call[c], inst) /\ call[c].phase = "write"
    BY <1>1, CallAt DEF In, CallOK
  <2>2. \A i \in DOMAIN call[c].list : inst[call[c].list[i]].flaw \notin Refusal
    BY <2>1 DEF Passed
  <2> QED
    BY <2>2 DEF ItsFlaws, ToSet
<1> QED
  BY <1>1, InitInv, StepInv, PTL DEF Spec

(* The hooks after an insert run when statements of all the entities were   *)
(* acknowledged, for any batch size and any grouping by columns.            *)
THEOREM HooksAfter == Spec => []AfterInsertWhenStored
<1>1. ASSUME IInv PROVE AfterInsertWhenStored
  <2> SUFFICES ASSUME NEW c \in Call, In(c, Inserts, "after")
               PROVE  call[c].stored = ToSet(call[c].list)
    BY DEF AfterInsertWhenStored
  <2>1. Covers(call[c]) /\ call[c].phase = "after"
    BY <1>1, CallAt DEF In, CallOK
  <2> QED
    BY <2>1 DEF Covers, ToSet
<1> QED
  BY <1>1, InitInv, StepInv, PTL DEF Spec

-----------------------------------------------------------------------------
(* What a statement writes.  A list has no entity twice; what the hooks     *)
(* have set is on the entities from their hook to the copies that are made  *)
(* of them, and on the copies; and the entities of a group have the same    *)
(* columns.                                                                 *)
Hooked(val) == \A d \in HookSets : val[d] = Touched

(* No entity loses what the hooks have set. *)
Settled(I, J) == \A h \in Handle : Hooked(I[h].val) => Hooked(J[h].val)

Alike(data, g) ==
  /\ g \subseteq DOMAIN data
  /\ \A i, j \in g : Defined(data[i]) = Defined(data[j])

Ready(s, I) ==
  /\ IsInjective(s.list)
  /\ s.phase = "before" => \A i \in 1..s.done : Hooked(I[s.list[i]].val)
  /\ s.phase = "validate" => \A i \in DOMAIN s.list : Hooked(I[s.list[i]].val)
  /\ s.phase \in {"encrypt", "write"} => \A i \in DOMAIN s.data : Hooked(s.data[i].val)
  /\ s.phase = "write" => \A g \in s.todo : Alike(s.data, g)

CallsReady == \A c \in Call : call[c] # None => Ready(call[c], inst)

WInv == IInv /\ CallsReady

LEMMA ReadySettles ==
  ASSUME NEW s \in Record, NEW I, NEW J, Settled(I, J), CallOK(s, I), Ready(s, I)
  PROVE  Ready(s, J)
<1>1. \A i \in DOMAIN s.list : s.list[i] \in Handle
  BY DEF Record
<1>2. s.phase = "before" => 1..s.done \subseteq DOMAIN s.list
  BY DEF CallOK, Shaped, Record
<1> QED
  BY <1>1, <1>2 DEF Ready, Settled

LEMMA SameSettled == \A I : Settled(I, I)
  BY DEF Settled

(* At most one call is replaced, by one that is ready. *)
LEMMA ReadyPut ==
  ASSUME WInv, NEW c \in Call, Settled(inst, inst'), NEW new,
         call' = [call EXCEPT ![c] = new], new = None \/ Ready(new, inst')
  PROVE  CallsReady'
<1> SUFFICES ASSUME NEW d \in Call, call'[d] # None PROVE Ready(call'[d], inst')
  BY DEF CallsReady
<1>1. CASE d = c
  BY <1>1 DEF WInv, IInv, TypeOK
<1>2. CASE d # c
  <2>1. call'[d] = call[d] /\ call[d] \in Record
    BY <1>2 DEF WInv, IInv, TypeOK
  <2> QED
    BY <2>1, ReadySettles DEF WInv, IInv, CallsOK, CallsReady
<1> QED
  BY <1>1, <1>2

LEMMA ReadyAt ==
  ASSUME WInv, NEW c \in Call, call[c] # None
  PROVE  call[c] \in Record /\ CallOK(call[c], inst) /\ Ready(call[c], inst)
  BY CallAt DEF WInv, CallsReady

LEMMA FailedReady ==
  ASSUME WInv, NEW c \in Call, call[c] # None, Failed(c), Settled(inst, inst')
  PROVE  CallsReady'
<1> DEFINE new == IF call[c].op = "insertMany" THEN [call[c] EXCEPT !.phase = "failed"] ELSE None
<1>1. call[c] \in Record /\ Ready(call[c], inst)
  BY ReadyAt
<1>2. call' = [call EXCEPT ![c] = new]
  BY DEF Failed, WInv, IInv, TypeOK
<1>3. ASSUME call[c].op = "insertMany" PROVE Ready(new, inst')
  <2>1. new.phase = "failed" /\ new.list = call[c].list
    BY <1>1, <1>3 DEF Record
  <2> QED
    BY <1>1, <2>1 DEF Ready
<1>4. new = None \/ Ready(new, inst')
  BY <1>3
<1> HIDE DEF new
<1> QED
  BY <1>2, <1>4, ReadyPut

LEMMA ReturnedReady ==
  ASSUME WInv, NEW c \in Call, Returned(c), Settled(inst, inst')
  PROVE  CallsReady'
  BY ReadyPut DEF Returned

LEMMA BegunReady ==
  ASSUME NEW op, NEW list, IsInjective(list), NEW I
  PROVE  Ready(Begun(op, list), I)
  BY DEF Begun, Ready

LEMMA FillSettles ==
  ASSUME IInv, NEW list, Fill(list)
  PROVE  Settled(inst, inst')
<1> SUFFICES ASSUME NEW h \in Handle, Hooked(inst[h].val) PROVE Hooked(inst'[h].val)
  BY DEF Settled
<1>1. PICK keys \in Injection(Unkeyed(list), Fresh) :
        inst' = [g \in Handle |->
                   IF g \in ToSet(list)
                     THEN [inst[g] EXCEPT !.key = IF g \in Unkeyed(list) THEN keys[g] ELSE @,
                                          !.val = Dated(@)]
                     ELSE inst[g]]
  BY DEF Fill, FillKeys
<1>2. inst[h] \in Instance
  BY DEF IInv, TypeOK
<1>3. Hooked(Dated(inst[h].val))
  BY HookAssumption DEF Hooked, Dated
<1>4. CASE h \in ToSet(list)
  <2>1. inst'[h].val = Dated(inst[h].val)
    BY <1>1, <1>2, <1>4 DEF Instance
  <2> QED
    BY <1>3, <2>1
<1>5. CASE h \notin ToSet(list)
  BY <1>1, <1>5
<1> QED
  BY <1>4, <1>5

(* A step that puts other values on one entity. *)
LEMMA PutSettles ==
  ASSUME IInv, NEW h \in Handle, NEW val,
         inst' = [inst EXCEPT ![h] = [inst[h] EXCEPT !.val = val]],
         Hooked(inst[h].val) => Hooked(val)
  PROVE  Settled(inst, inst') /\ inst'[h].val = val
<1>1. inst[h] \in Instance
  BY DEF IInv, TypeOK
<1>2. inst'[h].val = val /\ \A g \in Handle \ {h} : inst'[g] = inst[g]
  BY <1>1 DEF IInv, TypeOK, Instance
<1> QED
  BY <1>2 DEF Settled

LEMMA RequestReady ==
  ASSUME HookSets \cap UpdateDate = {}, WInv, NEW c \in Call,
         \/ \E h \in Handle : Update(c, h) \/ Insert(c, h)
         \/ \E list \in Lists : InsertMany(c, list)
         \/ Again(c)
  PROVE  CallsReady'
<1>1. CASE \E h \in Handle : Update(c, h)
  <2>1. PICK h \in Handle : Update(c, h)
    BY <1>1
  <2> DEFINE val == [d \in Column |-> IF d \in UpdateDate THEN Now ELSE inst[h].val[d]]
  <2>2. inst' = [inst EXCEPT ![h] = [inst[h] EXCEPT !.val = val]]
    BY <2>1 DEF Update, WInv, IInv, TypeOK
  <2>3. Hooked(inst[h].val) => Hooked(val)
    BY HookAssumption DEF Hooked
  <2> HIDE DEF val
  <2>4. Settled(inst, inst')
    BY <2>2, <2>3, PutSettles DEF WInv
  <2>5. IsInjective(<<h>>)
    BY DEF IsInjective
  <2> QED
    BY <2>1, <2>4, <2>5, BegunReady, ReadyPut DEF Update
<1>2. CASE \E h \in Handle : Insert(c, h)
  <2>1. PICK h \in Handle : Insert(c, h)
    BY <1>2
  <2>2. IsInjective(<<h>>)
    BY DEF IsInjective
  <2> QED
    BY <2>1, <2>2, FillSettles, BegunReady, ReadyPut DEF Insert, WInv
<1>3. CASE \E list \in Lists : InsertMany(c, list)
  <2>1. PICK list \in Lists : InsertMany(c, list)
    BY <1>3
  <2> QED
    BY <2>1, ListsAssumption, FillSettles, BegunReady, ReadyPut DEF InsertMany, WInv
<1>4. CASE Again(c)
  <2>1. IsInjective(call[c].list)
    BY <1>4, ReadyAt DEF Again, In, Ready
  <2>2. call' = [call EXCEPT ![c] = Begun("insertMany", call[c].list)]
    BY <1>4 DEF Again, WInv, IInv, TypeOK
  <2> QED
    BY <1>4, <2>1, <2>2, FillSettles, BegunReady, ReadyPut DEF Again, WInv
<1> QED
  BY <1>1, <1>2, <1>3, <1>4

LEMMA BeforeHookReady ==
  ASSUME WInv, NEW c \in Call, BeforeHook(c)
  PROVE  CallsReady'
<1> DEFINE s == call[c]
           n == s.done + 1
           h == s.list[n]
<1>1. /\ s \in Record /\ CallOK(s, inst) /\ Ready(s, inst)
      /\ s.op \in Writes /\ s.phase = "before" /\ call[c] # None
  BY ReadyAt DEF BeforeHook, In
<1>2. s.done < Len(s.list)
  BY <1>1 DEF CallOK, Shaped
<1>3. n \in DOMAIN s.list /\ h \in Handle
  BY <1>1, <1>2, Items
<1>4. CASE Item(c).flaw = "hook"
  BY <1>1, <1>4, FailedReady, SameSettled DEF BeforeHook
<1>5. CASE Item(c).flaw # "hook"
  <2> DEFINE val == [d \in Column |-> IF d \in HookSets THEN Touched ELSE inst[h].val[d]]
  <2>1. inst' = [inst EXCEPT ![h] = [inst[h] EXCEPT !.val = val]]
    BY <1>3, <1>5 DEF BeforeHook, WInv, IInv, TypeOK
  <2>2. Hooked(val)
    BY HookAssumption DEF Hooked
  <2> HIDE DEF val
  <2>3. Settled(inst, inst') /\ Hooked(inst'[h].val)
    BY <1>3, <2>1, <2>2, PutSettles DEF WInv
  <2>4. Ready(s, inst')
    BY <1>1, <2>3, ReadySettles
  <2>5. CASE ~AtLast(c)
    <3> DEFINE new == [s EXCEPT !.done = @ + 1]
    <3>1. call' = [call EXCEPT ![c] = new]
      BY <1>5, <2>5 DEF BeforeHook, On, WInv, IInv, TypeOK
    <3>2. new.list = s.list /\ new.phase = "before" /\ new.done = n
      BY <1>1, OnRecord
    <3> HIDE DEF new
    <3>3. \A i \in 1..n : i \in 1..s.done \/ i = n
      BY <1>1 DEF Record
    <3>4. \A i \in 1..n : Hooked(inst'[s.list[i]].val)
      BY <1>1, <2>3, <2>4, <3>3 DEF Ready
    <3>5. Ready(new, inst')
      BY <2>4, <3>2, <3>4 DEF Ready
    <3> QED
      BY <2>3, <3>1, <3>5, ReadyPut
  <2>6. CASE AtLast(c)
    <3>1. CASE Failed(c)
      BY <1>1, <2>3, <3>1, FailedReady
    <3>2. CASE Went(c, "validate")
      <4> DEFINE new == [s EXCEPT !.phase = "validate", !.done = 0]
      <4>1. call' = [call EXCEPT ![c] = new]
        BY <3>2 DEF Went, WInv, IInv, TypeOK
      <4>2. new.list = s.list /\ new.phase = "validate"
        BY <1>1, WentRecord DEF Phase
      <4> HIDE DEF new
      <4>3. \A i \in DOMAIN s.list : i \in 1..s.done \/ i = n
        BY <1>1, <1>2, <2>6, Items DEF AtLast
      <4>4. \A i \in DOMAIN s.list : Hooked(inst'[s.list[i]].val)
        BY <1>1, <2>3, <2>4, <4>3 DEF Ready
      <4>5. Ready(new, inst')
        BY <2>4, <4>2, <4>4 DEF Ready
      <4> QED
        BY <2>3, <4>1, <4>5, ReadyPut
    <3> QED
      BY <1>5, <2>6, <3>1, <3>2 DEF BeforeHook
  <2> QED
    BY <2>5, <2>6
<1> QED
  BY <1>4, <1>5

LEMMA ValidateReady ==
  ASSUME WInv, NEW c \in Call, Validate(c)
  PROVE  CallsReady'
<1> DEFINE s == call[c]
<1>1. /\ s \in Record /\ Ready(s, inst) /\ s.phase = "validate" /\ call[c] # None
  BY ReadyAt DEF Validate, In
<1>2. inst' = inst /\ Settled(inst, inst')
  BY SameSettled DEF Validate
<1>3. CASE Failed(c)
  BY <1>1, <1>2, <1>3, FailedReady
<1>4. CASE On(c)
  <2> DEFINE new == [s EXCEPT !.done = @ + 1]
  <2>1. call' = [call EXCEPT ![c] = new]
    BY <1>4 DEF On, WInv, IInv, TypeOK
  <2>2. new.list = s.list /\ new.phase = "validate"
    BY <1>1, OnRecord
  <2> HIDE DEF new
  <2>3. Ready(new, inst')
    BY <1>1, <1>2, <2>2 DEF Ready
  <2> QED
    BY <1>2, <2>1, <2>3, ReadyPut
<1>5. CASE Copied(c)
  <2> DEFINE copies == [i \in DOMAIN s.list |-> [key |-> inst[s.list[i]].key, val |-> inst[s.list[i]].val]]
             new == [s EXCEPT !.phase = "encrypt", !.done = 0, !.data = copies]
  <2>1. call' = [call EXCEPT ![c] = new]
    BY <1>5 DEF Copied, Of, WInv, IInv, TypeOK
  <2>2. DOMAIN copies = DOMAIN s.list /\ \A i \in DOMAIN copies : Hooked(copies[i].val)
    BY <1>1 DEF Ready
  <2> HIDE DEF copies
  <2>3. new.list = s.list /\ new.phase = "encrypt" /\ new.data = copies
    BY <1>1 DEF Record
  <2> HIDE DEF new
  <2>4. Ready(new, inst')
    BY <1>1, <2>2, <2>3 DEF Ready
  <2> QED
    BY <1>2, <2>1, <2>4, ReadyPut
<1> QED
  BY <1>3, <1>4, <1>5 DEF Validate

(* Each group of a batch is of one form. *)
LEMMA GroupsAlike ==
  ASSUME NEW data, NEW from, NEW g \in Groups(data, from)
  PROVE  Alike(data, g)
BY DEF Groups, Batch, Alike

LEMMA AdvancedReady ==
  ASSUME NEW s \in Record, NEW I, NEW todo, NEW batch, s.phase = "write", Ready(s, I),
         \A g \in todo : Alike(s.data, g)
  PROVE  Ready(Advanced(s, todo, batch), I)
<1> DEFINE new == Advanced(s, todo, batch)
<1>1. CASE todo # {}
  <2>1. new.list = s.list /\ new.phase = "write" /\ new.data = s.data /\ new.todo = todo
    BY <1>1 DEF Advanced, Record
  <2> QED
    BY <2>1 DEF Ready
<1>2. CASE todo = {} /\ MoreBatches(s, batch)
  <2>1. /\ new.list = s.list /\ new.phase = "write" /\ new.data = s.data
        /\ new.todo = Groups(s.data, batch)
    BY <1>2 DEF Advanced, Record
  <2> QED
    BY <2>1, GroupsAlike DEF Ready
<1>3. CASE todo = {} /\ ~MoreBatches(s, batch)
  <2>1. new.list = s.list /\ new.phase = "after"
    BY <1>3 DEF Advanced, Record
  <2> QED
    BY <2>1 DEF Ready
<1> QED
  BY <1>1, <1>2, <1>3

LEMMA EncryptedReady ==
  ASSUME WInv, NEW c \in Call, Encrypted(c)
  PROVE  CallsReady'
<1> DEFINE s == call[c]
           w == [s EXCEPT !.phase = "write"]
           new == Advanced(w, {}, 0)
<1>1. /\ s \in Record /\ Ready(s, inst) /\ s.phase = "encrypt" /\ call[c] # None
  BY ReadyAt DEF Encrypted, In
<1>2. inst' = inst /\ Settled(inst, inst')
  BY SameSettled DEF Encrypted
<1>3. CASE Failed(c)
  BY <1>1, <1>2, <1>3, FailedReady
<1>4. CASE call' = [call EXCEPT ![c] = new]
  <2>1. new = Advanced([w EXCEPT !.todo = {}], {}, 0)
    BY <1>1 DEF Advanced, MoreBatches, Record
  <2> DEFINE e == [w EXCEPT !.todo = {}]
  <2>2. e \in Record /\ e.phase = "write" /\ e.list = s.list /\ e.data = s.data /\ e.todo = {}
    BY <1>1 DEF Record, Phase
  <2> HIDE DEF e, new
  <2>3. Ready(e, inst)
    BY <1>1, <2>2 DEF Ready
  <2>4. Ready(new, inst)
    BY <2>1, <2>2, <2>3, AdvancedReady DEF e
  <2> QED
    BY <1>2, <1>4, <2>4, ReadyPut
<1> QED
  BY <1>3, <1>4 DEF Encrypted

LEMMA UpsertReady ==
  ASSUME WInv, NEW c \in Call, Upsert(c)
  PROVE  CallsReady'
<1> DEFINE s == call[c]
<1>1. /\ s \in Record /\ CallOK(s, inst) /\ Ready(s, inst)
      /\ s.phase = "write" /\ call[c] # None
  BY ReadyAt DEF Upsert, In
<1>2. inst' = inst /\ Settled(inst, inst')
  BY SameSettled DEF Upsert
<1>3. CASE Failed(c)
  BY <1>1, <1>2, <1>3, FailedReady
<1>4. ASSUME NEW g \in s.todo,
             call' = [call EXCEPT ![c] =
                       Advanced([s EXCEPT !.stored = @ \cup {s.list[i] : i \in g}],
                                s.todo \ {g}, s.batch)]
      PROVE  CallsReady'
  <2> DEFINE stored == s.stored \cup {s.list[i] : i \in g}
             w == [s EXCEPT !.stored = stored]
             rest == s.todo \ {g}
             new == Advanced(w, rest, s.batch)
  <2>1. stored \in SUBSET Handle
    BY <1>1 DEF CallOK, Covers, Record
  <2> HIDE DEF stored
  <2>2. /\ w \in Record /\ w.phase = "write" /\ w.list = s.list
        /\ w.data = s.data /\ w.todo = s.todo
    BY <1>1, <2>1 DEF Record
  <2> HIDE DEF w
  <2>3. Ready(w, inst) /\ \A o \in rest : Alike(w.data, o)
    BY <1>1, <2>2 DEF Ready
  <2> HIDE DEF rest
  <2>4. Ready(new, inst)
    BY <2>2, <2>3, AdvancedReady
  <2>5. call' = [call EXCEPT ![c] = new]
    BY <1>4 DEF stored, w, rest
  <2> HIDE DEF new
  <2> QED
    BY <1>2, <2>4, <2>5, ReadyPut
<1> QED
  BY <1>3, <1>4 DEF Upsert

(* Other steps of a call: it returns, fails, or goes on without statements  *)
(* before it.                                                               *)
LEMMA OtherReady ==
  ASSUME WInv, NEW c \in Call,
         UpdateRow(c) \/ AfterHook(c) \/ FindRow(c) \/ BeforeRemove(c) \/ RemoveRow(c)
  PROVE  CallsReady'
<1> DEFINE s == call[c]
<1>1. s \in Record /\ Ready(s, inst) /\ call[c] # None
  BY ReadyAt DEF UpdateRow, AfterHook, FindRow, BeforeRemove, RemoveRow, In
<1>2. inst' = inst /\ Settled(inst, inst')
  BY SameSettled DEF UpdateRow, AfterHook, FindRow, BeforeRemove, RemoveRow
<1>3. CASE Failed(c) \/ Returned(c)
  BY <1>1, <1>2, <1>3, FailedReady, ReturnedReady
<1>4. CASE On(c) /\ s.phase = "after"
  <2> DEFINE new == [s EXCEPT !.done = @ + 1]
  <2>1. call' = [call EXCEPT ![c] = new]
    BY <1>4 DEF On, WInv, IInv, TypeOK
  <2>2. new.list = s.list /\ new.phase = "after"
    BY <1>1, <1>4, OnRecord
  <2> HIDE DEF new
  <2>3. Ready(new, inst')
    BY <1>1, <2>2 DEF Ready
  <2> QED
    BY <1>2, <2>1, <2>3, ReadyPut
<1>5. ASSUME NEW p \in {"beforeRemove", "remove"}, Went(c, p) PROVE CallsReady'
  <2> DEFINE new == [s EXCEPT !.phase = p, !.done = 0]
  <2>1. call' = [call EXCEPT ![c] = new]
    BY <1>5 DEF Went, WInv, IInv, TypeOK
  <2>0. p \in Phase
    BY DEF Phase
  <2>2. new.list = s.list /\ new.phase = p
    BY <1>1, <2>0, WentRecord
  <2> HIDE DEF new
  <2>3. Ready(new, inst')
    BY <1>1, <2>2 DEF Ready
  <2> QED
    BY <1>2, <2>1, <2>3, ReadyPut
<1> QED
  BY <1>3, <1>4, <1>5 DEF UpdateRow, AfterHook, FindRow, BeforeRemove, RemoveRow, In

LEMMA DeleteReady ==
  ASSUME WInv, NEW c \in Call, NEW k, Delete(c, k)
  PROVE  CallsReady'
<1> DEFINE p == IF RemoveHook THEN "find" ELSE "remove"
           new == [Begun("delete", <<>>) EXCEPT !.key = k, !.phase = p]
<1>1. call' = [call EXCEPT ![c] = new] /\ inst' = inst
  BY DEF Delete
<1>2. new.list = <<>> /\ new.phase = p /\ p \in {"find", "remove"}
  BY DEF Begun
<1>3. IsInjective(<<>>)
  BY DEF IsInjective
<1> HIDE DEF new, p
<1>4. Ready(new, inst')
  BY <1>2, <1>3 DEF Ready
<1> QED
  BY <1>1, <1>4, SameSettled, ReadyPut

LEMMA InitWInv == Init => WInv
  BY InitInv DEF Init, WInv, CallsReady

LEMMA StepWInv ==
  ASSUME HookSets \cap UpdateDate = {}
  PROVE  WInv /\ [Next]_vars => WInv'
<1> SUFFICES ASSUME WInv, [Next]_vars PROVE CallsReady'
  BY StepInv DEF WInv
<1>1. CASE UNCHANGED vars
  BY <1>1 DEF vars, WInv, CallsReady
<1>2. ASSUME NEW c \in Call, Step(c) PROVE CallsReady'
  BY <1>2, BeforeHookReady, ValidateReady, EncryptedReady, UpsertReady, OtherReady DEF Step
<1>3. ASSUME NEW c \in Call,
             \/ Again(c)
             \/ \E h \in Handle : Update(c, h) \/ Insert(c, h)
             \/ \E list \in Lists : InsertMany(c, list)
      PROVE  CallsReady'
  BY <1>3, RequestReady
<1>4. ASSUME NEW c \in Call, NEW k, Delete(c, k) PROVE CallsReady'
  BY <1>4, DeleteReady
<1>5. ASSUME NEW h \in Handle, NEW d \in Column, NEW x \in Value \cup {Unset}, Assign(h, d, x)
      PROVE  CallsReady'
  <2> DEFINE val == [inst[h].val EXCEPT ![d] = x]
  <2>1. inst' = [inst EXCEPT ![h] = [inst[h] EXCEPT !.val = val]] /\ call' = call
    BY <1>5 DEF Assign, WInv, IInv, TypeOK
  <2>2. Hooked(inst[h].val) => Hooked(val)
    BY <1>5, HookAssumption DEF Assign, Hooked, WInv, IInv, TypeOK, Instance, Fields
  <2> HIDE DEF val
  <2>3. Settled(inst, inst')
    BY <2>1, <2>2, PutSettles DEF WInv
  <2> QED
    BY <2>1, <2>3, ReadySettles DEF WInv, IInv, TypeOK, CallsOK, CallsReady
<1> QED
  BY <1>1, <1>2, <1>3, <1>4, <1>5 DEF Next, Free

-----------------------------------------------------------------------------
(* The columns of a row that is set. *)
LEMMA SetCells ==
  ASSUME NEW row \in Row, NEW d \in Copy, NEW columns \in SUBSET Column, NEW e \in Column
  PROVE  SetColumns(row, d, columns).col[e] = IF e \in columns THEN d.val[e] ELSE row.col[e]
BY DEF SetColumns, Row

(* An UPSERT sets each row of its group from the one copy under its key, in *)
(* all the columns this copy has defined and no other.                      *)
LEMMA UpsertedFrom ==
  ASSUME WInv, NEW s \in Record, CallOK(s, inst), Ready(s, inst), s.phase = "write",
         NEW g \in s.todo, First(g, s.todo),
         \A i \in g : Shared(s, g) \subseteq Defined(s.data[i])
  PROVE  /\ \A k \in Key : (\A i \in g : s.data[i].key # k) => Upserted(s, g)[k] = table[k]
         /\ \A i \in g :
              LET d   == s.data[i]
                  row == IF table[d.key] = None THEN EmptyRow(s.list[i]) ELSE table[d.key]
              IN  /\ i \in DOMAIN s.data /\ d \in Copy /\ d.key \in Key /\ row \in Row
                  /\ Upserted(s, g)[d.key] = SetColumns(row, d, Defined(d))
<1>1. /\ DOMAIN s.data = DOMAIN s.list
      /\ s.data \in Seq(Copy) /\ s.list \in Seq(Handle)
      /\ g \subseteq DOMAIN s.list
      /\ \A i \in DOMAIN s.list : s.data[i].key = inst[s.list[i]].key /\ s.data[i].key # Unset
  <2>1. s.data \in Seq(Copy) /\ s.list \in Seq(Handle) /\ Len(s.data) = Len(s.list)
    BY DEF CallOK, Copies, Record
  <2>2. DOMAIN s.data = DOMAIN s.list
    BY <2>1
  <2>3. \A i \in DOMAIN s.list : s.data[i].key = inst[s.list[i]].key /\ s.data[i].key # Unset
    BY DEF CallOK, Keyed, Copies
  <2> QED
    BY <2>1, <2>2, <2>3 DEF CallOK, Covers
<1>2. \A i \in g : s.data[i] \in Copy /\ s.list[i] \in Handle /\ s.data[i].key \in Key
  <2> SUFFICES ASSUME NEW i \in g
               PROVE  s.data[i] \in Copy /\ s.list[i] \in Handle /\ s.data[i].key \in Key
    OBVIOUS
  <2>1. i \in DOMAIN s.list /\ i \in DOMAIN s.data
    BY <1>1
  <2>2. s.data[i] \in Copy /\ s.list[i] \in Handle
    BY <1>1, <2>1
  <2>3. s.data[i].key # Unset
    BY <1>1, <2>1
  <2> QED
    BY <2>2, <2>3 DEF Copy
<1>3. \A i, j \in g : s.data[i].key = s.data[j].key => i = j
  <2> SUFFICES ASSUME NEW i \in g, NEW j \in g, s.data[i].key = s.data[j].key PROVE i = j
    OBVIOUS
  <2>1. s.list[i] = s.list[j]
    BY <1>1, <1>2 DEF WInv, IInv, KeysApart
  <2> QED
    BY <1>1, <2>1 DEF Ready, IsInjective
<1>4. \A i \in g : Shared(s, g) = Defined(s.data[i])
  <2>1. \E i \in g : \A j \in g : i <= j
    BY DEF First
  <2> DEFINE m == CHOOSE i \in g : \A j \in g : i <= j
  <2>2. m \in g
    BY <2>1
  <2>3. Shared(s, g) = Defined(s.data[m])
    BY DEF Shared
  <2> HIDE DEF m
  <2> QED
    BY <2>2, <2>3 DEF Ready, Alike
<1>5. \A k \in Key : (\A i \in g : s.data[i].key # k) => Upserted(s, g)[k] = table[k]
  BY DEF Upserted
<1>6. ASSUME NEW i \in g
      PROVE  LET d   == s.data[i]
                 row == IF table[d.key] = None THEN EmptyRow(s.list[i]) ELSE table[d.key]
             IN  /\ i \in DOMAIN s.data /\ d \in Copy /\ d.key \in Key /\ row \in Row
                 /\ Upserted(s, g)[d.key] = SetColumns(row, d, Defined(d))
  <2> DEFINE d   == s.data[i]
             row == IF table[d.key] = None THEN EmptyRow(s.list[i]) ELSE table[d.key]
             of  == {j \in g : s.data[j].key = d.key}
  <2>1. of = {i}
    BY <1>3
  <2>2. (CHOOSE j \in of : TRUE) = i
    BY <2>1
  <2>3. Upserted(s, g)[d.key] = SetColumns(row, d, Shared(s, g))
    BY <1>2, <2>1, <2>2 DEF Upserted
  <2>4. row \in Row
    <3>1. EmptyRow(s.list[i]) \in Row
      BY <1>2 DEF EmptyRow, Row
    <3> QED
      BY <1>2, <3>1 DEF WInv, IInv, TypeOK
  <2> QED
    BY <1>1, <1>2, <1>4, <2>3, <2>4
<1> QED
  BY <1>5, <1>6

(* The two halves of WritesWhatIsThere, of one step. *)
ChangesWritten ==
  \A k \in Key : \A d \in Column :
    table[k] # None /\ table'[k] # None /\ table'[k].col[d] # table[k].col[d] =>
      Writing(k, d, table'[k].col[d])

AcknowledgedWritten ==
  \A c \in Call : In(c, Inserts, "write") /\ call'[c] # None =>
    \A i \in DOMAIN call[c].data :
      call[c].list[i] \in call'[c].stored \ call[c].stored =>
        LET d == call[c].data[i]
        IN  /\ table'[d.key] # None
            /\ \A col \in Defined(d) : table'[d.key].col[col] = d.val[col]
            /\ \A col \in HookSets : table'[d.key].col[col] = Touched

LEMMA NothingAcknowledged ==
  ASSUME NEW c \in Call, \A d \in Call \ {c} : call'[d] = call[d],
         \/ ~In(c, Inserts, "write")
         \/ call'[c] = None
         \/ call'[c].stored = call[c].stored
  PROVE  AcknowledgedWritten
BY DEF AcknowledgedWritten

LEMMA FailedAcknowledges ==
  ASSUME WInv, NEW c \in Call, Failed(c), call[c] # None
  PROVE  AcknowledgedWritten
<1>1. call[c] \in Record
  BY ReadyAt
<1>2. \A d \in Call \ {c} : call'[d] = call[d]
  BY DEF Failed
<1>3. call'[c] = None \/ call'[c].stored = call[c].stored
  BY <1>1 DEF Failed, Record, WInv, IInv, TypeOK
<1> QED
  BY <1>2, <1>3, NothingAcknowledged

(* Setting a row from a copy changes what the copy has defined. *)
LEMMA SetFromCopy ==
  ASSUME WInv, NEW d \in Copy, d.key \in Key, table[d.key] # None,
         NEW e \in Column
  PROVE  LET row == SetColumns(table[d.key], d, Defined(d))
         IN  row.col[e] # table[d.key].col[e] => row.col[e] = d.val[e]
<1>1. table[d.key] \in Row /\ Defined(d) \in SUBSET Column
  BY DEF WInv, IInv, TypeOK, Defined
<1> QED
  BY <1>1, SetCells

LEMMA UpsertWrites ==
  ASSUME WInv, NEW c \in Call, Upsert(c)
  PROVE  ChangesWritten /\ AcknowledgedWritten
<1> DEFINE s == call[c]
           sent(g) == [s EXCEPT !.stored = @ \cup {s.list[i] : i \in g}]
           new(g) == Advanced(sent(g), s.todo \ {g}, s.batch)
<1>1. /\ s \in Record /\ CallOK(s, inst) /\ Ready(s, inst)
      /\ s.op \in Inserts /\ s.phase = "write" /\ call[c] # None
  BY ReadyAt DEF Upsert, In
<1>2. PICK g \in s.todo :
        /\ First(g, s.todo)
        /\ IF \E i \in g : Unbindable(c, i, Shared(s, g))
             THEN Failed(c) /\ UNCHANGED <<table, faults>>
             ELSE \/ /\ table' = Upserted(s, g)
                     /\ call' = [call EXCEPT ![c] = new(g)]
                     /\ UNCHANGED faults
                  \/ Fault /\ Failed(c) /\ table' \in {table, Upserted(s, g)}
  BY DEF Upsert
<1>3. CASE \E i \in g : Unbindable(c, i, Shared(s, g))
  <2>1. Failed(c) /\ table' = table
    BY <1>2, <1>3
  <2> QED
    BY <2>1, <1>1, FailedAcknowledges DEF ChangesWritten
<1>4. CASE ~ \E i \in g : Unbindable(c, i, Shared(s, g))
  <2>1. \A i \in g : Shared(s, g) \subseteq Defined(s.data[i])
    BY <1>4 DEF Unbindable
  <2>2. /\ \A k \in Key : (\A i \in g : s.data[i].key # k) => Upserted(s, g)[k] = table[k]
        /\ \A i \in g :
             LET d   == s.data[i]
                 row == IF table[d.key] = None THEN EmptyRow(s.list[i]) ELSE table[d.key]
             IN  /\ i \in DOMAIN s.data /\ d \in Copy /\ d.key \in Key /\ row \in Row
                 /\ Upserted(s, g)[d.key] = SetColumns(row, d, Defined(d))
    BY <1>1, <1>2, <2>1, UpsertedFrom
  <2>3. ChangesWritten
    <3> SUFFICES ASSUME NEW k \in Key, NEW e \in Column, table[k] # None,
                        table'[k].col[e] # table[k].col[e]
                 PROVE  Writing(k, e, table'[k].col[e])
      BY DEF ChangesWritten
    <3>1. table' = Upserted(s, g)
      BY <1>2, <1>4
    <3>2. PICK i \in g : s.data[i].key = k
      BY <2>2, <3>1
    <3>3. /\ i \in DOMAIN s.data /\ s.data[i] \in Copy
          /\ table'[k] = SetColumns(table[k], s.data[i], Defined(s.data[i]))
      BY <2>2, <3>1, <3>2
    <3>4. table'[k].col[e] = s.data[i].val[e]
      BY <3>2, <3>3, SetFromCopy
    <3>5. In(c, Writes, "write")
      BY <1>1 DEF In, Writes
    <3> QED
      BY <3>2, <3>3, <3>4, <3>5 DEF Writing
  <2>4. CASE Failed(c)
    BY <1>1, <2>3, <2>4, FailedAcknowledges
  <2>5. CASE table' = Upserted(s, g) /\ call' = [call EXCEPT ![c] = new(g)]
    <3>1. ASSUME NEW i \in DOMAIN s.data, s.list[i] \in call'[c].stored \ s.stored
          PROVE  LET d == s.data[i]
                 IN  /\ table'[d.key] # None
                     /\ \A col \in Defined(d) : table'[d.key].col[col] = d.val[col]
                     /\ \A col \in HookSets : table'[d.key].col[col] = Touched
      <4> DEFINE d   == s.data[i]
                 row == IF table[d.key] = None THEN EmptyRow(s.list[i]) ELSE table[d.key]
      <4>1. call'[c] = new(g)
        BY <2>5 DEF WInv, IInv, TypeOK
      <4>2. new(g).stored = s.stored \cup {s.list[j] : j \in g}
        BY <1>1 DEF Advanced, Record
      <4> HIDE DEF new
      <4>3. i \in g
        <5>1. PICK j \in g : s.list[j] = s.list[i]
          BY <3>1, <4>1, <4>2
        <5>2. DOMAIN s.data = DOMAIN s.list /\ g \subseteq DOMAIN s.list
          <6>1. s.data \in Seq(Copy) /\ s.list \in Seq(Handle) /\ Len(s.data) = Len(s.list)
            BY <1>1 DEF CallOK, Copies, Record
          <6> QED
            BY <1>1, <6>1 DEF CallOK, Covers
        <5> QED
          BY <1>1, <5>1, <5>2 DEF Ready, IsInjective
      <4>4. /\ d \in Copy /\ row \in Row /\ Defined(d) \in SUBSET Column
            /\ table'[d.key] = SetColumns(row, d, Defined(d))
        BY <2>2, <2>5, <4>3 DEF Defined
      <4>5. HookSets \subseteq Defined(d) /\ \A col \in HookSets : d.val[col] = Touched
        BY <1>1, HookAssumption DEF Ready, Hooked, Defined
      <4> HIDE DEF d, row
      <4>6. \A col \in Defined(d) : table'[d.key].col[col] = d.val[col]
        BY <4>4, SetCells
      <4>7. table'[d.key] # None
        BY <4>4, SetRow, NoneAssumption
      <4> QED
        BY <4>5, <4>6, <4>7 DEF d
    <3>2. \A o \in Call \ {c} : call'[o] = call[o]
      BY <2>5
    <3> QED
      BY <2>3, <3>1, <3>2 DEF AcknowledgedWritten
  <2> QED
    BY <1>2, <1>4, <2>3, <2>4, <2>5
<1> QED
  BY <1>3, <1>4

LEMMA UpdateRowWrites ==
  ASSUME WInv, NEW c \in Call, UpdateRow(c)
  PROVE  ChangesWritten
<1> DEFINE s == call[c]
           d == s.data[1]
<1>1. /\ s \in Record /\ CallOK(s, inst)
      /\ s.op = "update" /\ s.phase = "write" /\ call[c] # None
  BY ReadyAt DEF UpdateRow, In
<1>2. 1 \in DOMAIN s.data /\ d \in Copy /\ d.key \in Key
  <2>1. Len(s.list) = 1 /\ Len(s.data) = Len(s.list)
    BY <1>1 DEF CallOK, Shaped, Copies
  <2>2. 1 \in DOMAIN s.list /\ 1 \in DOMAIN s.data
    BY <1>1, <2>1 DEF Record
  <2>3. d \in Copy
    BY <1>1, <2>2 DEF Record
  <2>4. d.key = inst[s.list[1]].key /\ inst[s.list[1]].key # Unset
    BY <1>1, <2>2 DEF CallOK, Keyed, Copies
  <2> QED
    BY <2>2, <2>3, <2>4 DEF Copy
<1> SUFFICES ASSUME NEW k \in Key, NEW e \in Column, table[k] # None,
                    table'[k].col[e] # table[k].col[e]
             PROVE  Writing(k, e, table'[k].col[e])
  BY DEF ChangesWritten
<1>3. table' = [table EXCEPT ![d.key] = SetColumns(@, d, Defined(d))] /\ table[d.key] # None
  BY DEF UpdateRow
<1>4. k = d.key /\ table'[k] = SetColumns(table[k], d, Defined(d))
  BY <1>2, <1>3 DEF WInv, IInv, TypeOK
<1>5. table'[k].col[e] = d.val[e]
  BY <1>2, <1>4, SetFromCopy
<1>6. In(c, Writes, "write")
  BY <1>1 DEF In, Writes
<1> QED
  BY <1>2, <1>4, <1>5, <1>6 DEF Writing

LEMMA StepWrites == WInv /\ [Next]_vars => [ChangesWritten /\ AcknowledgedWritten]_vars
<1> SUFFICES ASSUME WInv, Next PROVE ChangesWritten /\ AcknowledgedWritten
  OBVIOUS
<1>1. ASSUME NEW c \in Call, Upsert(c) PROVE ChangesWritten /\ AcknowledgedWritten
  BY <1>1, UpsertWrites
<1>2. ASSUME NEW c \in Call,
             \/ BeforeHook(c) \/ Validate(c) \/ Encrypted(c) \/ AfterHook(c)
             \/ FindRow(c) \/ BeforeRemove(c) \/ Again(c)
             \/ \E h \in Handle : Update(c, h) \/ Insert(c, h)
             \/ \E list \in Lists : InsertMany(c, list)
             \/ \E k \in Key : Delete(c, k)
      PROVE  ChangesWritten /\ AcknowledgedWritten
  <2>1. table' = table
    BY <1>2 DEF BeforeHook, Validate, Encrypted, AfterHook, FindRow, BeforeRemove, Again,
                Update, Insert, InsertMany, Delete
  <2>2. CASE BeforeHook(c) \/ Validate(c) \/ Encrypted(c)
    <3>1. ~In(c, Inserts, "write")
      BY <2>2 DEF BeforeHook, Validate, Encrypted, In
    <3>2. \A d \in Call \ {c} : call'[d] = call[d]
      BY <2>2 DEF BeforeHook, Validate, Encrypted, Failed, On, Went, Copied, WInv, IInv, TypeOK
    <3>3. AcknowledgedWritten
      BY <3>1, <3>2, NothingAcknowledged DEF In
    <3> QED
      BY <2>1, <3>3 DEF ChangesWritten
  <2>3. CASE AfterHook(c) \/ FindRow(c) \/ BeforeRemove(c)
    <3>1. ~In(c, Inserts, "write")
      BY <2>3 DEF AfterHook, FindRow, BeforeRemove, In
    <3>2. \A d \in Call \ {c} : call'[d] = call[d]
      BY <2>3 DEF AfterHook, FindRow, BeforeRemove, Failed, Returned, On, Went, WInv, IInv, TypeOK
    <3>3. AcknowledgedWritten
      BY <3>1, <3>2, NothingAcknowledged DEF In
    <3> QED
      BY <2>1, <3>3 DEF ChangesWritten
  <2>4. CASE ~ \/ BeforeHook(c) \/ Validate(c) \/ Encrypted(c)
               \/ AfterHook(c) \/ FindRow(c) \/ BeforeRemove(c)
    <3>1. call[c] = None \/ call[c].phase = "failed"
      BY <1>2, <2>4 DEF Again, Update, Insert, InsertMany, Delete, In
    <3>2. \A d \in Call \ {c} : call'[d] = call[d]
      BY <1>2, <2>4 DEF Again, Update, Insert, InsertMany, Delete, WInv, IInv, TypeOK
    <3>3. AcknowledgedWritten
      BY <3>1, <3>2, NothingAcknowledged DEF In
    <3> QED
      BY <2>1, <3>3 DEF ChangesWritten
  <2> QED
    BY <2>2, <2>3, <2>4
<1>3. ASSUME NEW c \in Call, UpdateRow(c) \/ RemoveRow(c)
      PROVE  ChangesWritten /\ AcknowledgedWritten
  <2>1. Returned(c)
    BY <1>3 DEF UpdateRow, RemoveRow
  <2>2. AcknowledgedWritten
    BY <2>1, NothingAcknowledged DEF Returned, WInv, IInv, TypeOK
  <2>3. RemoveRow(c) => ChangesWritten
    BY DEF RemoveRow, ChangesWritten, WInv, IInv, TypeOK
  <2> QED
    BY <1>3, <2>2, <2>3, UpdateRowWrites
<1>4. ASSUME NEW h \in Handle, NEW d \in Column, NEW x \in Value \cup {Unset}, Assign(h, d, x)
      PROVE  ChangesWritten /\ AcknowledgedWritten
  BY <1>4 DEF Assign, ChangesWritten, AcknowledgedWritten
<1>5. \A k \in {inst[h].key : h \in Handle} \ {Unset} : k \in Key
  BY DEF WInv, IInv, TypeOK, Instance
<1> QED
  BY <1>1, <1>2, <1>3, <1>4, <1>5 DEF Next, Step, Free

(* With hooks that do not set the update date, which an overlapping save()  *)
(* of the same entity sets too, a statement changes nothing but what its    *)
(* entity has defined, and an acknowledged one has written all of it and    *)
(* what the hooks set: for batches and groups of any size, and any number   *)
(* of calls that overlap, fail and are made again.                          *)
THEOREM WritesTheCopies ==
  ASSUME HookSets \cap UpdateDate = {}
  PROVE  Spec => WritesWhatIsThere
<1>1. WInv /\ [Next]_vars => WInv'
  BY StepWInv
<1> DEFINE A == /\ \A k \in Key : \A d \in Column :
                    table[k] # None /\ table'[k] # None /\ table'[k].col[d] # table[k].col[d] =>
                      Writing(k, d, table'[k].col[d])
               /\ \A c \in Call : In(c, Inserts, "write") /\ call'[c] # None =>
                    \A i \in DOMAIN call[c].data :
                      call[c].list[i] \in call'[c].stored \ call[c].stored =>
                        LET d == call[c].data[i]
                        IN  /\ table'[d.key] # None
                            /\ \A col \in Defined(d) : table'[d.key].col[col] = d.val[col]
                            /\ \A col \in HookSets : table'[d.key].col[col] = Touched
<1>2. ChangesWritten /\ AcknowledgedWritten => A
  BY DEF ChangesWritten, AcknowledgedWritten
<1> QED
  BY <1>1, <1>2, InitWInv, StepWrites, PTL DEF Spec, WritesWhatIsThere
=============================================================================
