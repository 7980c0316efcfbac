---------------------- MODULE EntityPersistenceProofs ----------------------
(***************************************************************************)
(* Theorems about EntityPersistence for every number of keys, fields,      *)
(* instances and calls, whatever the application does with its entities    *)
(* while calls work on them: types, and when a row is readable, its index  *)
(* that of its text, its text the last one said, and an entity printable.  *)
(***************************************************************************)
EXTENDS EntityPersistence, TLAPS

USE FieldAssumption DEF Field

-----------------------------------------------------------------------------
(* Types. *)

(* A row becomes an instance of the right shape.                           *)
LEMMA InstantiateType ==
  ASSUME NEW row \in Row, NEW k \in Key, NEW S \in SUBSET Field
  PROVE  Instantiate(row, k, S) \in Instance
<1> DEFINE val == [f \in Field |-> IF f \notin S THEN Unset
                                 ELSE IF row.col[f] # Null /\ f \notin Lazy THEN row.col[f].text
                                 ELSE row.col[f]]
           pending == [f \in Lazy |-> IF val[f] \in Cipher THEN val[f] ELSE Unset]
           spoken == [said |-> [f \in Field |-> Shown(val[f])], raced |-> {}]
<1>1. \A f \in Field : row.col[f] \in Column
  BY DEF Row
<1>2. \A f \in Field : row.col[f] # Null => row.col[f] \in Cipher /\ row.col[f].text \in Plain \cup {Garbled}
  BY <1>1 DEF Column, Cipher
<1>3. \A f \in Field : val[f] \in Value
  BY <1>2 DEF Value, Text
<1>4. val \in [Field -> Value]
  BY <1>3
<1>5. pending \in [Lazy -> Cipher \cup {Unset}]
  OBVIOUS
<1>6. \A f \in Field : Shown(val[f]) \in Text
  <2>1. \A f \in Field : val[f] \in Value
    BY <1>4
  <2> HIDE DEF val
  <2> QED BY <2>1 DEF Shown, Value, Cipher, Text
<1>7. spoken \in Spoken
  BY <1>6 DEF Spoken
<1>8. Instantiate(row, k, S) = [key |-> k, val |-> val, pending |-> pending, spoken |-> spoken]
  BY DEF Instantiate
<1> HIDE DEF val, pending, spoken
<1> QED
  BY <1>4, <1>5, <1>7, <1>8 DEF Instance

(* A value of an instance is encrypted to something a column can hold.     *)
LEMMA EncryptedType ==
  ASSUME NEW copy \in [Field -> Value], NEW pending \in [Lazy -> Cipher \cup {Unset}], NEW f \in Field, NEW k \in Key
  PROVE  /\ EncryptedField(copy, pending, f, k) \in Column \cup {Unset}
         /\ BlindIndex(copy, pending, f) \in Text
<1>1. copy[f] \in Value
  OBVIOUS
<1>2. copy[f] \notin {Unset, Null} => Encrypt(copy[f], k) \in Cipher
  BY <1>1 DEF Encrypt, TextOf, Cipher, Value, Text
<1>3. TextOf(copy[f]) \in Text
  BY <1>1 DEF TextOf, Value, Text
<1>4. EncryptedField(copy, pending, f, k) \in Column \cup {Unset}
  <2>1. CASE Encrypts(copy, pending, f)
    BY <2>1, <1>2 DEF EncryptedField, Encrypts, Column
  <2>2. CASE ~Encrypts(copy, pending, f)
    BY <2>2, <1>1 DEF EncryptedField, Encrypts, PassedAsIs, Column, Value, Text
  <2> QED BY <2>1, <2>2
<1> QED
  BY <1>3, <1>4 DEF BlindIndex, Text

(* A row keeps its shape under a statement that sets some of its columns.  *)
LEMMA WrittenType ==
  ASSUME NEW row \in Row, NEW s \in Saving
  PROVE  Written(row, s) \in Row
<1>1. /\ row.col \in [Field -> Column] /\ row.bi \in [Indexed -> Plain \cup {Garbled, Null}]
      /\ s.data \in [Field -> Column \cup {Unset}]
      /\ s.bi \in [Indexed -> Text]
  BY DEF Row, Saving
<1>2. [f \in Field |-> IF s.data[f] = Unset THEN row.col[f] ELSE s.data[f]] \in [Field -> Column]
  BY <1>1
<1>3. [f \in Indexed |-> IF s.bi[f] = Unset THEN row.bi[f] ELSE s.bi[f]]
        \in [Indexed -> Plain \cup {Garbled, Null}]
  BY <1>1 DEF Text
<1> QED
  BY <1>2, <1>3 DEF Written, Row

LEMMA EmptyRowType == EmptyRow \in Row
  BY DEF EmptyRow, Row, Column

(* A save and a decryption are told apart by their op.                     *)
LEMMA CallType ==
  ASSUME TypeOK, NEW c \in Call, call[c] # None
  PROVE  /\ call[c].op = "save" => call[c] \in Saving
         /\ call[c].op = "decrypt" => call[c] \in Decrypting
         /\ call[c].op \in {"save", "decrypt"}
         /\ call[c].of \in Handle /\ call[c].key \in Key
  BY DEF TypeOK, Saving, Decrypting

(* An instance whose values and pending ciphertexts are typed.             *)
LEMMA InstanceOf ==
  ASSUME TypeOK, NEW h \in Handle, inst[h] # None
  PROVE  /\ inst[h] \in Instance
         /\ inst[h].key \in Key \cup {Unset}
         /\ inst[h].val \in [Field -> Value]
         /\ inst[h].pending \in [Lazy -> Cipher \cup {Unset}]
         /\ inst[h].spoken \in Spoken
         /\ inst[h].spoken.said \in [Field -> Text] /\ inst[h].spoken.raced \in SUBSET Lazy
  BY DEF TypeOK, Spoken, Instance

(* The instance of a call in flight is kept.                               *)
Held == \A c \in Call : call[c] # None => inst[call[c].of] # None

(* What a step of encryptEntity() makes of its call.                       *)
Encrypting(s, i, t, upto) ==
  LET copy == IF s.copied THEN s.copy ELSE i.val
      key  == IF s.copied THEN s.key ELSE i.key
      now  == (s.done + 1)..upto
  IN /\ t.op = "save" /\ t.of = s.of /\ t.copied /\ t.copy = copy /\ t.key = key /\ t.done = upto
     /\ t.spoken = IF s.copied THEN s.spoken ELSE i.spoken
     /\ \A f \in Field : t.data[f] = IF f \in now THEN EncryptedField(copy, i.pending, f, key) ELSE s.data[f]
     /\ \A f \in Indexed : t.bi[f] = IF f \in now THEN BlindIndex(copy, i.pending, f) ELSE s.bi[f]

LEMMA EncryptShape ==
  ASSUME TypeOK, Held, NEW c \in Call, EncryptMore(c)
  PROVE  \E t \in Saving, upto \in Field :
           /\ call' = [call EXCEPT ![c] = t] /\ t.of = call[c].of
           /\ call[c] \in Saving /\ inst[call[c].of] # None
           /\ Encrypting(call[c], inst[call[c].of], t, upto)
<1> DEFINE s       == call[c]
           i       == inst[s.of]
           copy    == IF s.copied THEN s.copy ELSE i.val
           key     == IF s.copied THEN s.key ELSE i.key
           spoken  == IF s.copied THEN s.spoken ELSE i.spoken
<1>1. /\ s \in Saving /\ s.of \in Handle /\ s.key \in Key /\ s.op = "save"
      /\ s.data \in [Field -> Column \cup {Unset}]
      /\ s.bi \in [Indexed -> Text] /\ s.copied \in BOOLEAN
      /\ s.copy \in [Field -> Value] /\ s.spoken \in Spoken
  BY CallType DEF EncryptMore, Saving
<1>2. /\ i # None /\ i.pending \in [Lazy -> Cipher \cup {Unset}] /\ i.val \in [Field -> Value]
      /\ i.key \in Key \cup {Unset} /\ i.spoken \in Spoken
  <2>1. i # None
    BY <1>1 DEF EncryptMore, Held
  <2> QED BY <1>1, <2>1, InstanceOf
<1>3. copy \in [Field -> Value] /\ spoken \in Spoken
  BY <1>1, <1>2
<1>4. key \in Key
  BY <1>1, <1>2 DEF EncryptMore
<1>5. PICK upto \in Field :
        LET now == (s.done + 1)..upto
        IN call' = [call EXCEPT ![c] =
             [s EXCEPT !.copied = TRUE, !.copy = copy, !.done = upto, !.key = key, !.spoken = spoken,
                !.data = [f \in Field |-> IF f \in now THEN EncryptedField(copy, i.pending, f, key)
                                                       ELSE s.data[f]],
                !.bi   = [f \in Indexed |-> IF f \in now THEN BlindIndex(copy, i.pending, f)
                                                         ELSE s.bi[f]]]]
  BY DEF EncryptMore
<1> DEFINE now  == (s.done + 1)..upto
           data == [f \in Field |-> IF f \in now THEN EncryptedField(copy, i.pending, f, key)
                                                ELSE s.data[f]]
           bi   == [f \in Indexed |-> IF f \in now THEN BlindIndex(copy, i.pending, f) ELSE s.bi[f]]
           t    == [s EXCEPT !.copied = TRUE, !.copy = copy, !.done = upto, !.key = key, !.spoken = spoken,
                             !.data = data, !.bi = bi]
<1>6. data \in [Field -> Column \cup {Unset}]
  BY <1>1, <1>2, <1>3, <1>4, EncryptedType
<1>7. bi \in [Indexed -> Text]
  BY <1>1, <1>2, <1>3, <1>4, EncryptedType
<1>8. call' = [call EXCEPT ![c] = t]
  BY <1>5
<1>9. /\ t \in Saving /\ t.op = "save" /\ t.of = s.of /\ t.copied /\ t.copy = copy /\ t.key = key
      /\ t.done = upto /\ t.spoken = spoken /\ t.data = data /\ t.bi = bi
  <2>1. upto \in 0..N
    OBVIOUS
  <2> HIDE DEF s, i, data, bi, copy, key, spoken, now
  <2> QED BY <1>1, <1>3, <1>4, <1>6, <1>7, <2>1 DEF Saving
<1>10. Encrypting(s, i, t, upto)
  <2> HIDE DEF t
  <2> QED BY <1>9 DEF Encrypting
<1>11. t \in Saving /\ t.of = s.of
  BY <1>9
<1> HIDE DEF t
<1> QED
  BY <1>1, <1>2, <1>8, <1>10, <1>11

LEMMA Typing == TypeOK /\ Held /\ [Next]_vars => TypeOK' /\ Held'
<1> SUFFICES ASSUME TypeOK, Held, [Next]_vars PROVE TypeOK' /\ Held'
  OBVIOUS
<1> USE MarksAssumption DEF Live, Held
<1>1. ASSUME NEW h \in Handle, NEW k \in Key, NEW S \in SUBSET Field, Find(h, k, S) PROVE TypeOK' /\ Held'
  <2>1. table[k] \in Row
    BY <1>1 DEF TypeOK, Find
  <2>2. Instantiate(table[k], k, S) \in Instance
    BY <2>1, InstantiateType
  <2>types. TypeOK'
    BY <1>1, <2>2 DEF TypeOK, Find
  <2>held. Held'
    BY <1>1, <2>2, CallType DEF TypeOK, Find
  <2> QED
    BY <2>types, <2>held
<1>2. ASSUME NEW h \in Handle, New(h) PROVE TypeOK' /\ Held'
  <2> DEFINE nothing == [f \in Field |-> Unset]
             i == [key |-> Unset, val |-> nothing, pending |-> [f \in Lazy |-> Unset],
                   spoken |-> [said |-> nothing, raced |-> {}]]
  <2>1. i \in Instance
    BY DEF Instance, Value, Text, Spoken
  <2>2. inst' = [inst EXCEPT ![h] = i]
    BY <1>2 DEF New
  <2>3. UNCHANGED <<table, call>>
    BY <1>2 DEF New
  <2> HIDE DEF i
  <2>types. TypeOK'
    BY <2>1, <2>2, <2>3 DEF TypeOK
  <2>held. Held'
    BY <2>1, <2>2, <2>3, CallType DEF TypeOK
  <2> QED
    BY <2>types, <2>held
<1>3. ASSUME NEW h \in Handle, NEW f \in Field, NEW x \in Plain \cup {Null}, Assign(h, f, x) PROVE TypeOK' /\ Held'
  <2> DEFINE val    == [inst[h].val EXCEPT ![f] = x]
             spoken == [said  |-> [inst[h].spoken.said EXCEPT ![f] = x],
                        raced |-> IF BeingDecrypted(h, f) THEN inst[h].spoken.raced \cup {f}
                                                          ELSE inst[h].spoken.raced \ {f}]
  <2>1. /\ inst[h] \in Instance /\ inst[h].val \in [Field -> Value]
        /\ inst[h].spoken.said \in [Field -> Text] /\ inst[h].spoken.raced \in SUBSET Lazy
    BY <1>3, InstanceOf DEF Assign
  <2>2. val \in [Field -> Value]
    BY <2>1 DEF Value, Text
  <2>3. BeingDecrypted(h, f) => f \in Lazy
    BY CallType DEF BeingDecrypted, Decrypting
  <2>4. spoken \in Spoken
    BY <2>1, <2>3 DEF Spoken, Text
  <2>5. inst' = [inst EXCEPT ![h] = [inst[h] EXCEPT !.val = val, !.spoken = spoken]]
    BY <1>3 DEF Assign
  <2> HIDE DEF val, spoken
  <2>6. [inst[h] EXCEPT !.val = val, !.spoken = spoken] \in Instance
    BY <2>1, <2>2, <2>4 DEF Instance
  <2>types. TypeOK'
    BY <1>3, <2>5, <2>6 DEF TypeOK, Assign
  <2>held. Held'
    BY <1>3, <2>5, <2>6, CallType DEF TypeOK, Assign
  <2> QED
    BY <2>types, <2>held
<1>4. ASSUME NEW h \in Handle, Rekey(h) PROVE TypeOK' /\ Held'
  <2>1. [inst[h] EXCEPT !.key = Unset] \in Instance
    BY <1>4, InstanceOf DEF Rekey, Instance
  <2>types. TypeOK'
    BY <1>4, <2>1 DEF TypeOK, Rekey
  <2>held. Held'
    BY <1>4, <2>1, CallType DEF TypeOK, Rekey
  <2> QED
    BY <2>types, <2>held
<1>5. ASSUME NEW h \in Handle, Forget(h) PROVE TypeOK' /\ Held'
  <2>types. TypeOK'
    BY <1>5 DEF TypeOK, Forget
  <2>held. Held'
    BY <1>5, CallType DEF TypeOK, Forget, Unheld
  <2> QED
    BY <2>types, <2>held
<1>6. ASSUME NEW c \in Call, NEW h \in Handle, NEW k \in Key, Save(c, h, k) PROVE TypeOK' /\ Held'
  <2>1. [inst[h] EXCEPT !.key = k] \in Instance
    BY <1>6, InstanceOf DEF Save, Instance
  <2>2. [op |-> "save", of |-> h, insert |-> inst[h].key = Unset, key |-> k, copied |-> FALSE,
         copy |-> [f \in Field |-> Unset],
         spoken |-> [said |-> [f \in Field |-> Unset], raced |-> {}], done |-> 0,
         data |-> [f \in Field |-> Unset], bi |-> [f \in Indexed |-> Unset]] \in Saving
    BY DEF Saving, Value, Spoken, Text
  <2>types. TypeOK'
    BY <1>6, <2>1, <2>2 DEF TypeOK, Save
  <2>held. Held'
    BY <1>6, <2>1, <2>2, CallType DEF TypeOK, Save
  <2> QED
    BY <2>types, <2>held
<1>7. ASSUME NEW c \in Call, EncryptMore(c) PROVE TypeOK' /\ Held'
  <2>1. PICK t \in Saving : call' = [call EXCEPT ![c] = t] /\ t.of = call[c].of
    BY <1>7, EncryptShape
  <2>types. TypeOK'
    BY <1>7, <2>1 DEF TypeOK, EncryptMore
  <2>held. Held'
    BY <1>7, <2>1, CallType DEF TypeOK, EncryptMore
  <2> QED
    BY <2>types, <2>held
<1>8. ASSUME NEW c \in Call, WriteInsert(c) PROVE TypeOK' /\ Held'
  <2> DEFINE s == call[c]  row == IF table[s.key] = None THEN EmptyRow ELSE table[s.key]
  <2>1. s \in Saving /\ s.key \in Key
    BY <1>8, CallType DEF WriteInsert, ReadyToWrite
  <2>2. row \in Row
    BY <2>1, EmptyRowType DEF TypeOK
  <2>3. Written(row, s) \in Row
    BY <2>1, <2>2, WrittenType
  <2>4. table' = [table EXCEPT ![s.key] = Written(row, s)]
    BY <1>8 DEF WriteInsert
  <2>types. TypeOK'
    BY <1>8, <2>1, <2>3, <2>4 DEF TypeOK, WriteInsert
  <2>held. Held'
    BY <1>8, <2>1, <2>3, <2>4, CallType DEF TypeOK, WriteInsert
  <2> QED
    BY <2>types, <2>held
<1>9. ASSUME NEW c \in Call, WriteUpdate(c) PROVE TypeOK' /\ Held'
  <2> DEFINE s == call[c]
  <2>1. s \in Saving /\ s.key \in Key /\ table[s.key] \in Row
    BY <1>9, CallType DEF WriteUpdate, ReadyToWrite, TypeOK
  <2>2. Written(table[s.key], s) \in Row
    BY <2>1, WrittenType
  <2>3. Instantiate(Written(table[s.key], s), s.key, Field) \in Instance
    BY <2>1, <2>2, InstantiateType
  <2>4. table' = [table EXCEPT ![s.key] = Written(table[s.key], s)]
    BY <1>9 DEF WriteUpdate
  <2>5. inst' = inst \/ \E h \in Handle :
          inst' = [inst EXCEPT ![h] = Instantiate(Written(table[s.key], s), s.key, Field)]
    BY <1>9 DEF WriteUpdate
  <2>types. TypeOK'
    BY <1>9, <2>1, <2>2, <2>3, <2>4, <2>5 DEF TypeOK, WriteUpdate
  <2>held. Held'
    BY <1>9, <2>1, <2>2, <2>3, <2>5, CallType DEF TypeOK, WriteUpdate
  <2> QED
    BY <2>types, <2>held
<1>10. ASSUME NEW c \in Call, Decrypted(c) PROVE TypeOK' /\ Held'
  <2> DEFINE d == call[c]
  <2>1. d \in Decrypting /\ d.of \in Handle /\ d.field \in Lazy /\ d.field \in Field
        /\ d.ct.text \in Value /\ inst[d.of] # None
    BY <1>10, CallType DEF Decrypted, Decrypting, Cipher, Value, Text, Held
  <2>2. [inst[d.of].val EXCEPT ![d.field] = d.ct.text] \in [Field -> Value]
    BY <2>1, InstanceOf
  <2>3. [inst[d.of].pending EXCEPT ![d.field] = Unset] \in [Lazy -> Cipher \cup {Unset}]
    BY <2>1, InstanceOf
  <2>4. [inst[d.of] EXCEPT !.val = [inst[d.of].val EXCEPT ![d.field] = d.ct.text],
                           !.pending = [inst[d.of].pending EXCEPT ![d.field] = Unset]] \in Instance
    <3>1. inst[d.of] \in Instance
      BY <2>1, InstanceOf
    <3> HIDE DEF d
    <3> QED BY <2>2, <2>3, <3>1 DEF Instance
  <2>5. inst' = [inst EXCEPT ![d.of] =
          [inst[d.of] EXCEPT !.val = [inst[d.of].val EXCEPT ![d.field] = d.ct.text],
                             !.pending = [inst[d.of].pending EXCEPT ![d.field] = Unset]]]
    BY <1>10 DEF Decrypted
  <2>types. TypeOK'
    BY <1>10, <2>1, <2>4, <2>5 DEF TypeOK, Decrypted
  <2>held. Held'
    BY <1>10, <2>1, <2>4, <2>5, CallType DEF TypeOK, Decrypted
  <2> QED
    BY <2>types, <2>held
<1>11. ASSUME NEW c \in Call, Throws(c) PROVE TypeOK' /\ Held'
  <2>types. TypeOK'
    BY <1>11 DEF TypeOK, Throws
  <2>held. Held'
    BY <1>11, CallType DEF TypeOK, Throws
  <2> QED
    BY <2>types, <2>held
<1>12. ASSUME NEW k \in Key, NEW f \in Field, NEW x \in Plain \cup {Null}, UpdateBy(k, f, x) PROVE TypeOK' /\ Held'
  <2>1. table[k] \in Row
    BY <1>12 DEF TypeOK, UpdateBy
  <2>2. (IF x = Null THEN Null ELSE Encrypt(x, k)) \in Column
    BY DEF Column, Encrypt, TextOf, Cipher
  <2>3. [table[k].col EXCEPT ![f] = IF x = Null THEN Null ELSE Encrypt(x, k)] \in [Field -> Column]
    BY <2>1, <2>2 DEF Row
  <2>4. [g \in Indexed |-> IF g = f THEN x ELSE table[k].bi[g]] \in [Indexed -> Plain \cup {Garbled, Null}]
    BY <2>1 DEF Row
  <2>5. [col |-> [table[k].col EXCEPT ![f] = IF x = Null THEN Null ELSE Encrypt(x, k)],
         bi |-> [g \in Indexed |-> IF g = f THEN x ELSE table[k].bi[g]]] \in Row
    BY <2>3, <2>4 DEF Row
  <2>types. TypeOK'
    BY <1>12, <2>5 DEF TypeOK, UpdateBy
  <2>held. Held'
    BY <1>12, <2>5, CallType DEF TypeOK, UpdateBy
  <2> QED
    BY <2>types, <2>held
<1>13. ASSUME NEW k \in Key, Delete(k) PROVE TypeOK' /\ Held'
  <2>types. TypeOK'
    BY <1>13 DEF TypeOK, Delete
  <2>held. Held'
    BY <1>13, CallType DEF TypeOK, Delete
  <2> QED
    BY <2>types, <2>held
<1>14. ASSUME NEW h \in Handle, NEW f \in Lazy, DropPending(h, f) PROVE TypeOK' /\ Held'
  <2>1. [inst[h].pending EXCEPT ![f] = Unset] \in [Lazy -> Cipher \cup {Unset}]
    BY <1>14, InstanceOf DEF DropPending
  <2>2. [inst[h] EXCEPT !.pending = [inst[h].pending EXCEPT ![f] = Unset]] \in Instance
    <3>1. inst[h] \in Instance
      BY <1>14, InstanceOf DEF DropPending
    <3> QED BY <2>1, <3>1 DEF Instance
  <2>3. inst' = [inst EXCEPT ![h] = [inst[h] EXCEPT !.pending = [inst[h].pending EXCEPT ![f] = Unset]]]
    BY <1>14 DEF DropPending
  <2>types. TypeOK'
    BY <1>14, <2>2, <2>3 DEF TypeOK, DropPending
  <2>held. Held'
    BY <1>14, <2>2, <2>3, CallType DEF TypeOK, DropPending
  <2> QED
    BY <2>types, <2>held
<1>15. ASSUME NEW c \in Call, NEW h \in Handle, NEW f \in Lazy, DecryptField(c, h, f) PROVE TypeOK' /\ Held'
  <2>1. inst[h].pending[f] \in Cipher /\ inst[h].key \in Key
    BY <1>15, InstanceOf DEF DecryptField
  <2>2. [op |-> "decrypt", of |-> h, field |-> f, ct |-> inst[h].pending[f], key |-> inst[h].key] \in Decrypting
    BY <2>1 DEF Decrypting
  <2>types. TypeOK'
    BY <1>15, <2>2 DEF TypeOK, DecryptField
  <2>held. Held'
    BY <1>15, <2>2, CallType DEF TypeOK, DecryptField
  <2> QED
    BY <2>types, <2>held
<1>16. CASE UNCHANGED vars
  BY <1>16 DEF TypeOK, vars
<1> QED
  BY <1>1, <1>2, <1>3, <1>4, <1>5, <1>6, <1>7, <1>8, <1>9, <1>10, <1>11, <1>12, <1>13, <1>14, <1>15, <1>16
     DEF Next

(* Every value of the model has the shape the code gives it, and no call   *)
(* in flight outlives the instance it works on.                            *)
THEOREM TypeCorrect == Spec => []TypeOK
<1>1. Init => TypeOK /\ Held
  BY DEF Init, TypeOK, Held
<1> QED
  BY <1>1, Typing, PTL DEF Spec

-----------------------------------------------------------------------------
(* What the instances and the calls in flight hold.                        *)

(* An instance holds a ciphertext only in a lazy field and has it pending; *)
(* a field shows what was last said of it, unless it was raced.            *)
InstanceSound(i) ==
  /\ \A f \in Field : i.val[f] \in Cipher => f \in Lazy /\ i.pending[f] = i.val[f]
  /\ \A f \in Field \ Lazy : i.val[f] # Garbled
  /\ \A f \in Field : f \in i.spoken.raced \/ i.spoken.said[f] = Shown(i.val[f])

(* What encryptEntity() has made of a field whose copy is x: the column d  *)
(* and the index b.  `still` says that x is still pending in the instance. *)
Settled(x, still, k, d, b) ==
  \/ x \in {Unset, Null} /\ d = x /\ b = x
  \/ x \in Cipher /\ d = x /\ b = Unset
  \/ x \in Cipher /\ ~still /\ d = [text |-> Garbled, key |-> k] /\ b = Garbled
  \/ x \in Plain \cup {Garbled} /\ d = [text |-> x, key |-> k] /\ b = x

Pends(i, x, f) == f \in Lazy /\ i.pending[f] = x

SaveSound(s, i) ==
  /\ ~s.copied => s.done = 0
  /\ \A f \in Field : s.copy[f] \in Cipher => f \in Lazy
  /\ \A f \in Field \ Lazy : s.copy[f] # Garbled
  /\ \A f \in Field : f \in s.spoken.raced \/ s.spoken.said[f] = Shown(s.copy[f])
  /\ \A f \in Field : f <= s.done =>
       \E b \in Text : /\ f \in Indexed => s.bi[f] = b
                       /\ Settled(s.copy[f], Pends(i, s.copy[f], f), s.key, s.data[f], b)

(* The text of a decryption is the last word on its field, or else the     *)
(* field was assigned since.                                               *)
DecryptSound(d, i) == d.field \in i.spoken.raced \/ i.spoken.said[d.field] = d.ct.text

CallSound(c) ==
  /\ call[c].op = "save" => SaveSound(call[c], inst[call[c].of])
  /\ call[c].op = "decrypt" => DecryptSound(call[c], inst[call[c].of])

(* An eager column opens to a text the application wrote.                  *)
TableSound == \A k \in Key, f \in Field \ Lazy : ~Unreadable(k, f)

Inv ==
  /\ TypeOK /\ Held /\ TableSound
  /\ \A h \in Live : InstanceSound(inst[h])
  /\ \A c \in Call : call[c] # None => CallSound(c)

(* A row of readable eager columns becomes a sound instance.               *)
LEMMA InstantiateSound ==
  ASSUME NEW row \in Row, NEW k \in Key, NEW S \in SUBSET Field,
         \A f \in Field \ Lazy : ~Misfit(row.col[f], k)
  PROVE  InstanceSound(Instantiate(row, k, S))
<1> DEFINE i == Instantiate(row, k, S)
<1>1. \A f \in Field : row.col[f] = Null \/ (row.col[f] \in Cipher /\ row.col[f].text \in Plain \cup {Garbled})
  BY DEF Row, Column, Cipher
<1>2. \A f \in Field \ Lazy : row.col[f] # Null => row.col[f].text \in Plain
  BY <1>1 DEF Misfit
<1>3. /\ \A f \in Field : i.val[f] = IF f \notin S THEN Unset
                                    ELSE IF row.col[f] # Null /\ f \notin Lazy THEN row.col[f].text
                                    ELSE row.col[f]
      /\ \A f \in Lazy : i.pending[f] = IF i.val[f] \in Cipher THEN i.val[f] ELSE Unset
      /\ \A f \in Field : i.spoken.said[f] = Shown(i.val[f])
  BY DEF Instantiate
<1>4. \A f \in Field : i.val[f] \in Cipher => f \in Lazy /\ i.pending[f] = i.val[f]
  BY <1>1, <1>3, MarksAssumption
<1>5. \A f \in Field \ Lazy : i.val[f] # Garbled
  BY <1>1, <1>2, <1>3, MarksAssumption
<1> HIDE DEF i
<1>6. InstanceSound(i)
  BY <1>3, <1>4, <1>5 DEF InstanceSound
<1> QED
  BY <1>6 DEF i

(* The loop of encryptEntity() settles a field it comes to.                *)
LEMMA EncryptedSettled ==
  ASSUME NEW copy \in [Field -> Value], NEW i, i.pending \in [Lazy -> Cipher \cup {Unset}],
         NEW f \in Field, NEW k \in Key, copy[f] \in Cipher => f \in Lazy
  PROVE  Settled(copy[f], Pends(i, copy[f], f), k,
                 EncryptedField(copy, i.pending, f, k), BlindIndex(copy, i.pending, f))
<1> DEFINE x == copy[f]
           d == EncryptedField(copy, i.pending, f, k)
           b == BlindIndex(copy, i.pending, f)
<1> SUFFICES Settled(x, Pends(i, x, f), k, d, b)
  OBVIOUS
<1>0. x \in Plain \/ x = Garbled \/ x = Null \/ x = Unset \/ x \in Cipher
  BY DEF Value, Text
<1>1. CASE PassedAsIs(copy, i.pending, f)
  <2>1. x \in Cipher /\ d = x /\ b = Unset
    BY <1>1 DEF PassedAsIs, EncryptedField, Encrypts, BlindIndex
  <2> QED
    BY <2>1 DEF Settled
<1>2. CASE ~PassedAsIs(copy, i.pending, f)
  <2>1. b = TextOf(x)
    BY <1>2 DEF BlindIndex
  <2>2. CASE x \in {Unset, Null}
    <3>1. d = x /\ b = x
      BY <2>1, <2>2, MarksAssumption DEF EncryptedField, Encrypts, TextOf
    <3> QED
      BY <2>2, <3>1 DEF Settled
  <2>3. CASE x \notin {Unset, Null}
    <3>1. d = [text |-> TextOf(x), key |-> k]
      BY <1>2, <2>3 DEF EncryptedField, Encrypts, Encrypt
    <3>2. CASE x \in Cipher
      <4>1. ~Pends(i, x, f)
        BY <1>2, <2>3 DEF Pends, PassedAsIs
      <4> HIDE DEF x, d, b
      <4> QED
        BY <2>1, <3>1, <3>2, <4>1 DEF Settled, TextOf
    <3>3. CASE x \notin Cipher
      <4>1. x \in Plain \cup {Garbled}
        BY <1>0, <2>3, <3>3
      <4> HIDE DEF x, d, b
      <4> QED
        BY <2>1, <3>1, <3>3, <4>1 DEF Settled, TextOf
    <3> QED
      BY <3>2, <3>3
  <2> QED
    BY <2>2, <2>3
<1> QED
  BY <1>1, <1>2

-----------------------------------------------------------------------------
(* What a write leaves in its row. *)

Before(k) == IF table[k] = None THEN EmptyRow ELSE table[k]

(* UPSERT and UPDATE set the columns and indexes of what is settled and    *)
(* leave the others, and the other rows, alone.                            *)
LEMMA WriteFacts ==
  ASSUME Inv, NEW c \in Call, Writes(c)
  PROVE  LET s == call[c] IN
         /\ s \in Saving /\ s.key \in Key /\ SaveSound(s, inst[s.of]) /\ s.done = N
         /\ table'[s.key] # None /\ table' = [table EXCEPT ![s.key] = Written(Before(s.key), s)]
         /\ \A f \in Field : table'[s.key].col[f] = IF s.data[f] = Unset THEN Before(s.key).col[f] ELSE s.data[f]
         /\ \A f \in Indexed : table'[s.key].bi[f] = IF s.bi[f] = Unset THEN Before(s.key).bi[f] ELSE s.bi[f]
<1> DEFINE s == call[c]
<1>1. s \in Saving /\ s.key \in Key /\ SaveSound(s, inst[s.of]) /\ s.done = N
  BY CallType DEF Inv, Writes, ReadyToWrite, CallSound
<1>2. table' = [table EXCEPT ![s.key] = Written(Before(s.key), s)]
  <2>1. CASE WriteInsert(c)
    BY <2>1 DEF WriteInsert, Before
  <2>2. CASE WriteUpdate(c)
    <3>1. table[s.key] # None /\ table' = [table EXCEPT ![s.key] = Written(table[s.key], s)]
      BY <2>2 DEF WriteUpdate
    <3> QED BY <3>1 DEF Before
  <2> QED BY <2>1, <2>2 DEF Writes
<1>3. table'[s.key] = Written(Before(s.key), s)
  BY <1>1, <1>2 DEF Inv, TypeOK
<1>4. Written(Before(s.key), s) # None
  <2>1. Before(s.key) \in Row
    BY <1>1, EmptyRowType DEF Before, Inv, TypeOK
  <2> QED
    BY <1>1, <2>1, WrittenType, MarksAssumption
<1>5. /\ \A f \in Field : Written(Before(s.key), s).col[f] = IF s.data[f] = Unset THEN Before(s.key).col[f] ELSE s.data[f]
      /\ \A f \in Indexed : Written(Before(s.key), s).bi[f] = IF s.bi[f] = Unset THEN Before(s.key).bi[f] ELSE s.bi[f]
  BY DEF Written
<1> HIDE DEF s
<1>6. /\ s \in Saving /\ s.key \in Key /\ SaveSound(s, inst[s.of]) /\ s.done = N
      /\ table'[s.key] # None /\ table' = [table EXCEPT ![s.key] = Written(Before(s.key), s)]
      /\ \A f \in Field : table'[s.key].col[f] = IF s.data[f] = Unset THEN Before(s.key).col[f] ELSE s.data[f]
      /\ \A f \in Indexed : table'[s.key].bi[f] = IF s.bi[f] = Unset THEN Before(s.key).bi[f] ELSE s.bi[f]
  BY <1>1, <1>2, <1>3, <1>4, <1>5
<1> QED
  BY <1>6 DEF s

(* updateBy() encrypts the text it is given under the key of the row.      *)
LEMMA UpdateByFacts ==
  ASSUME Inv, NEW k \in Key, NEW f \in Field, NEW x \in Plain \cup {Null}, UpdateBy(k, f, x)
  PROVE  /\ table[k] # None /\ table'[k] # None /\ \A j \in Key : j # k => table'[j] = table[j]
         /\ \A e \in Field : e # f => table'[k].col[e] = table[k].col[e]
         /\ \A e \in Indexed : e # f => table'[k].bi[e] = table[k].bi[e]
         /\ f \in Indexed => table'[k].bi[f] = x
         /\ ~Misfit(table'[k].col[f], k) /\ Shown(table'[k].col[f]) = x
<1> DEFINE y   == IF x = Null THEN Null ELSE Encrypt(x, k)
           col == [table[k].col EXCEPT ![f] = y]
           bi  == [g \in Indexed |-> IF g = f THEN x ELSE table[k].bi[g]]
<1>1. table[k] # None /\ table' = [table EXCEPT ![k] = [col |-> col, bi |-> bi]]
  BY DEF UpdateBy
<1>2. table[k] \in Row /\ table \in [Key -> Row \cup {None}]
  BY <1>1 DEF Inv, TypeOK
<1>3. col[f] = y /\ \A e \in Field : e # f => col[e] = table[k].col[e]
  BY <1>2 DEF Row
<1>4. ~Misfit(y, k) /\ Shown(y) = x /\ y \in Column
  BY MarksAssumption DEF Misfit, Opens, Shown, Encrypt, TextOf, Cipher, Column
<1>5. [col |-> col, bi |-> bi] \in Row
  <2>1. col \in [Field -> Column]
    BY <1>2, <1>4 DEF Row
  <2>2. bi \in [Indexed -> Plain \cup {Garbled, Null}]
    BY <1>2 DEF Row
  <2> HIDE DEF col, bi
  <2> QED BY <2>1, <2>2 DEF Row
<1>6. f \in Indexed => bi[f] = x
  OBVIOUS
<1>7. \A e \in Indexed : e # f => bi[e] = table[k].bi[e]
  OBVIOUS
<1> HIDE DEF y, col, bi
<1>8. table'[k] = [col |-> col, bi |-> bi] /\ \A j \in Key : j # k => table'[j] = table[j]
  BY <1>1, <1>2
<1> QED
  BY <1>1, <1>3, <1>4, <1>5, <1>6, <1>7, <1>8, MarksAssumption

(* A row changes by a write, by updateBy() or by its deletion.             *)
LEMMA RowChanges ==
  ASSUME Inv, [Next]_vars, NEW k \in Key, table'[k] # table[k], table'[k] # None
  PROVE  \/ \E c \in Call : Writes(c) /\ call[c].key = k
         \/ \E f \in Field, x \in Plain \cup {Null} : UpdateBy(k, f, x)
<1>0. table \in [Key -> Row \cup {None}]
  BY DEF Inv, TypeOK
<1>1. ASSUME NEW c \in Call, WriteInsert(c) \/ WriteUpdate(c) PROVE Writes(c) /\ call[c].key = k
  <2>1. Writes(c)
    BY <1>1 DEF Writes, WriteInsert, WriteUpdate
  <2> QED
    BY <1>0, <2>1, WriteFacts
<1>2. ASSUME NEW j \in Key, NEW f \in Field, NEW x \in Plain \cup {Null}, UpdateBy(j, f, x) PROVE j = k
  BY <1>2, UpdateByFacts
<1>3. ASSUME NEW j \in Key, Delete(j) PROVE FALSE
  BY <1>0, <1>3 DEF Delete
<1>4. table' # table
  OBVIOUS
<1> QED
  BY <1>1, <1>2, <1>3, <1>4
     DEF Next, Find, New, Assign, Rekey, Forget, Save, EncryptMore, Decrypted, Throws, DropPending,
         DecryptField, vars

LEMMA RowsStep ==
  ASSUME Inv, [Next]_vars, NEW k \in Key, table'[k] # table[k], NEW f \in Field, Unreadable(k, f)'
  PROVE  \/ Unreadable(k, f) /\ table'[k].col[f] = table[k].col[f]
         \/ /\ f \in Lazy
            /\ \E c \in Call : /\ Writes(c) /\ call[c].key = k
                               /\ Overtaken(c, f) \/ Misfit(call[c].copy[f], k)
<1>0. table'[k] # None /\ Misfit(table'[k].col[f], k)
  BY DEF Unreadable
<1>1. ASSUME NEW g \in Field, NEW x \in Plain \cup {Null}, UpdateBy(k, g, x)
      PROVE  Unreadable(k, f) /\ table'[k].col[f] = table[k].col[f]
  BY <1>0, <1>1, UpdateByFacts DEF Unreadable
<1>2. ASSUME NEW c \in Call, Writes(c), call[c].key = k
      PROVE  \/ Unreadable(k, f) /\ table'[k].col[f] = table[k].col[f]
             \/ f \in Lazy /\ (Overtaken(c, f) \/ Misfit(call[c].copy[f], k))
  <2> DEFINE s == call[c]  x == s.copy[f]  d == s.data[f]
  <2>1. /\ s \in Saving /\ SaveSound(s, inst[s.of]) /\ s.done = N
        /\ table'[k].col[f] = IF d = Unset THEN Before(k).col[f] ELSE d
    BY <1>2, WriteFacts
  <2>2. PICK b \in Text : Settled(x, Pends(inst[s.of], x, f), s.key, d, b)
    BY <2>1 DEF SaveSound
  <2>3. /\ x \in Cipher => f \in Lazy
        /\ f \notin Lazy => x # Garbled
    BY <2>1 DEF SaveSound
  <2>4. CASE d = Unset
    <3>1. Misfit(Before(k).col[f], k)
      BY <1>0, <2>1, <2>4
    <3>2. table[k] # None
      BY <3>1, MarksAssumption DEF Before, EmptyRow, Misfit
    <3> QED
      BY <2>1, <2>4, <3>1, <3>2 DEF Unreadable, Before
  <2>5. CASE d # Unset
    <3>1. Misfit(d, k)
      BY <1>0, <2>1, <2>5
    <3>2. CASE d = x
      BY <2>3, <3>1, <3>2 DEF Misfit
    <3>3. CASE x \in Cipher /\ ~Pends(inst[s.of], x, f)
      BY <2>3, <3>3 DEF Overtaken, Pends
    <3>4. CASE x \in Plain \cup {Garbled} /\ d = [text |-> x, key |-> s.key]
      <4>1. x = Garbled
        <5> SUFFICES ASSUME x \in Plain PROVE FALSE
          BY <3>4
        <5>1. d.text = x /\ d.key = k
          BY <1>2, <3>4
        <5>2. d # Garbled
          <6>1. d \in Cipher
            BY <1>2, <3>4 DEF Cipher
          <6> QED BY <6>1, MarksAssumption
        <5> HIDE DEF d, x
        <5> QED
          BY <3>1, <5>1, <5>2, MarksAssumption DEF Misfit, Opens
      <4> QED
        BY <2>3, <4>1 DEF Misfit
    <3> QED
      BY <2>2, <3>2, <3>3, <3>4 DEF Settled
  <2> QED BY <2>4, <2>5
<1> QED
  BY <1>0, <1>1, <1>2, RowChanges

LEMMA TableStep ==
  ASSUME Inv, [Next]_vars
  PROVE  TableSound'
<1> SUFFICES ASSUME NEW k \in Key, NEW f \in Field \ Lazy, Unreadable(k, f)' PROVE FALSE
  BY DEF TableSound
<1>1. ~Unreadable(k, f)
  BY DEF Inv, TableSound
<1>2. table'[k] # table[k]
  BY <1>1 DEF Unreadable
<1> QED
  BY <1>1, <1>2, RowsStep

-----------------------------------------------------------------------------
(* The invariant is kept. *)

(* Every step leaves the instances sound.                                  *)
LEMMA InstanceStep ==
  ASSUME Inv, [Next]_vars, NEW g \in Handle, inst'[g] # None
  PROVE  InstanceSound(inst'[g])
<1>0. inst[g] # None => InstanceSound(inst[g])
  BY DEF Inv, Live
<1>00. inst \in [Handle -> Instance \cup {None}]
  BY DEF Inv, TypeOK
<1>1. ASSUME NEW h \in Handle, NEW k \in Key, NEW S \in SUBSET Field, Find(h, k, S) PROVE InstanceSound(inst'[g])
  <2>1. table[k] \in Row /\ \A f \in Field \ Lazy : ~Misfit(table[k].col[f], k)
    BY <1>1 DEF Find, Inv, TypeOK, TableSound, Unreadable
  <2> QED
    BY <1>0, <1>00, <1>1, <2>1, InstantiateSound DEF Find
<1>2. ASSUME NEW h \in Handle, New(h) PROVE InstanceSound(inst'[g])
  <2> DEFINE nothing == [f \in Field |-> Unset]
             i == [key |-> Unset, val |-> nothing, pending |-> [f \in Lazy |-> Unset],
                   spoken |-> [said |-> nothing, raced |-> {}]]
  <2>1. InstanceSound(i)
    BY MarksAssumption DEF InstanceSound, Shown
  <2>2. inst' = [inst EXCEPT ![h] = i]
    BY <1>2 DEF New
  <2> HIDE DEF i
  <2> QED
    BY <1>0, <1>00, <2>1, <2>2
<1>3. ASSUME NEW h \in Handle, NEW f \in Field, NEW x \in Plain \cup {Null}, Assign(h, f, x)
      PROVE  InstanceSound(inst'[g])
  <2> DEFINE val    == [inst[h].val EXCEPT ![f] = x]
             said   == [inst[h].spoken.said EXCEPT ![f] = x]
             raced  == IF BeingDecrypted(h, f) THEN inst[h].spoken.raced \cup {f} ELSE inst[h].spoken.raced \ {f}
             spoken == [said |-> said, raced |-> raced]
             i      == [inst[h] EXCEPT !.val = val, !.spoken = spoken]
  <2>1. x # Garbled /\ x \notin Cipher /\ Shown(x) = x
    BY MarksAssumption DEF Shown
  <2>2. /\ inst[h] \in Instance /\ InstanceSound(inst[h]) /\ inst[h].val \in [Field -> Value]
        /\ inst[h].spoken.said \in [Field -> Text]
    BY <1>3, InstanceOf DEF Assign, Live, Inv
  <2>3. inst' = [inst EXCEPT ![h] = i]
    BY <1>3 DEF Assign
  <2>4. i.val = val /\ i.pending = inst[h].pending /\ i.spoken.said = said /\ i.spoken.raced = raced
    <3> HIDE DEF val, said, raced
    <3> QED BY <2>2 DEF Instance
  <2>5. \A e \in Field : e # f => (e \in raced <=> e \in inst[h].spoken.raced)
    OBVIOUS
  <2> HIDE DEF i, raced
  <2>6. InstanceSound(i)
    BY <2>1, <2>2, <2>4, <2>5 DEF InstanceSound
  <2> QED
    BY <1>0, <1>00, <2>3, <2>6
<1>4. ASSUME NEW h \in Handle, inst[h] # None, NEW k, inst' = [inst EXCEPT ![h] = [inst[h] EXCEPT !.key = k]]
      PROVE  InstanceSound(inst'[g])
  <2> DEFINE i == [inst[h] EXCEPT !.key = k]
  <2>1. inst[h] \in Instance /\ InstanceSound(inst[h])
    BY <1>4, InstanceOf DEF Live, Inv
  <2>2. i.val = inst[h].val /\ i.pending = inst[h].pending /\ i.spoken = inst[h].spoken
    BY <2>1 DEF Instance
  <2> HIDE DEF i
  <2>3. InstanceSound(i)
    BY <2>1, <2>2 DEF InstanceSound
  <2> QED
    BY <1>0, <1>00, <1>4, <2>3 DEF i
<1>5. ASSUME NEW h \in Handle, Rekey(h) PROVE InstanceSound(inst'[g])
  BY <1>4, <1>5 DEF Rekey, Live
<1>6. ASSUME NEW h \in Handle, Forget(h) PROVE InstanceSound(inst'[g])
  BY <1>0, <1>00, <1>6 DEF Forget
<1>7. ASSUME NEW c \in Call, NEW h \in Handle, NEW k \in Key, Save(c, h, k) PROVE InstanceSound(inst'[g])
  BY <1>4, <1>7 DEF Save, Live
<1>8. ASSUME NEW c \in Call, WriteUpdate(c) PROVE InstanceSound(inst'[g])
  <2> DEFINE s == call[c]  row == Written(table[s.key], s)
  <2>1. /\ s \in Saving /\ s.key \in Key /\ table'[s.key] = row
        /\ table[s.key] \in Row /\ row \in Row
    <3>1. s \in Saving /\ s.key \in Key
      BY <1>8, CallType DEF WriteUpdate, ReadyToWrite, Inv
    <3>2. table[s.key] \in Row
      BY <1>8, <3>1 DEF WriteUpdate, Inv, TypeOK
    <3> QED
      BY <1>8, <3>1, <3>2, WrittenType DEF WriteUpdate, Inv, TypeOK
  <2>2. \A f \in Field \ Lazy : ~Misfit(row.col[f], s.key)
    BY <2>1, TableStep, MarksAssumption DEF TableSound, Unreadable
  <2>3. InstanceSound(Instantiate(row, s.key, Field))
    BY <2>1, <2>2, InstantiateSound
  <2>4. inst' = inst \/ \E h \in Handle : inst' = [inst EXCEPT ![h] = Instantiate(row, s.key, Field)]
    BY <1>8 DEF WriteUpdate
  <2> QED
    BY <1>0, <1>00, <2>3, <2>4
<1>9. ASSUME NEW h \in Handle, NEW f \in Lazy, DropPending(h, f) PROVE InstanceSound(inst'[g])
  <2> DEFINE i == [inst[h] EXCEPT !.pending = [inst[h].pending EXCEPT ![f] = Unset]]
  <2>1. /\ inst[h] \in Instance /\ InstanceSound(inst[h]) /\ inst[h].pending \in [Lazy -> Cipher \cup {Unset}]
        /\ inst[h].val[f] # inst[h].pending[f]
    BY <1>9, InstanceOf DEF DropPending, Live, Inv
  <2>2. /\ i.val = inst[h].val /\ i.pending = [inst[h].pending EXCEPT ![f] = Unset]
        /\ i.spoken = inst[h].spoken
    BY <2>1 DEF Instance
  <2>3. inst' = [inst EXCEPT ![h] = i]
    BY <1>9 DEF DropPending
  <2> HIDE DEF i
  <2>4. InstanceSound(i)
    BY <2>1, <2>2 DEF InstanceSound
  <2> QED
    BY <1>0, <1>00, <2>3, <2>4
<1>10. ASSUME NEW c \in Call, Decrypted(c) PROVE InstanceSound(inst'[g])
  <2> DEFINE h == call[c].of  f == call[c].field  x == call[c].ct.text
             i == [inst[h] EXCEPT !.val     = [inst[h].val EXCEPT ![f] = x],
                                  !.pending = [inst[h].pending EXCEPT ![f] = Unset]]
  <2>1. /\ h \in Handle /\ f \in Lazy /\ f \in Field /\ inst[h] # None /\ x \in Plain \cup {Garbled}
        /\ DecryptSound(call[c], inst[h])
    BY <1>10, CallType DEF Decrypted, Inv, Held, CallSound, Decrypting, Cipher
  <2>2. x \notin Cipher /\ Shown(x) = x
    BY <2>1, MarksAssumption DEF Shown
  <2>3. /\ inst[h] \in Instance /\ InstanceSound(inst[h])
        /\ inst[h].val \in [Field -> Value] /\ inst[h].pending \in [Lazy -> Cipher \cup {Unset}]
    BY <2>1, InstanceOf DEF Live, Inv
  <2>4. inst' = [inst EXCEPT ![h] = i]
    BY <1>10 DEF Decrypted
  <2>5. f \in inst[h].spoken.raced \/ inst[h].spoken.said[f] = x
    BY <2>1 DEF DecryptSound
  <2>6. /\ i.val = [inst[h].val EXCEPT ![f] = x] /\ i.pending = [inst[h].pending EXCEPT ![f] = Unset]
        /\ i.spoken = inst[h].spoken
    <3> HIDE DEF h, f, x
    <3> QED BY <2>3 DEF Instance
  <2> HIDE DEF i, h, f, x
  <2>7. InstanceSound(i)
    BY <2>1, <2>2, <2>3, <2>5, <2>6 DEF InstanceSound
  <2> QED
    BY <1>0, <1>00, <2>1, <2>4, <2>7
<1>11. CASE UNCHANGED inst
  BY <1>0, <1>11
<1> QED
  BY <1>1, <1>2, <1>3, <1>5, <1>6, <1>7, <1>8, <1>9, <1>10, <1>11
     DEF Next, EncryptMore, WriteInsert, Throws, UpdateBy, Delete, DecryptField, vars

(* While a call is in flight, its instance loses what it has pending but   *)
(* gains nothing, and a field being decrypted keeps what was last said of  *)
(* it, or counts as raced.                                                 *)
Follows(i, j) == \A f \in Lazy : j.pending[f] \in {i.pending[f], Unset}

KeepsWord(i, j, f) == f \in j.spoken.raced \/ (f \notin i.spoken.raced /\ j.spoken.said[f] = i.spoken.said[f])

LEMMA Frame ==
  ASSUME Inv, [Next]_vars, NEW c \in Call, call[c] # None, call'[c] # None
  PROVE  LET h == call[c].of IN
         /\ Follows(inst[h], inst'[h])
         /\ call[c].op = "decrypt" => KeepsWord(inst[h], inst'[h], call[c].field)
<1> DEFINE h == call[c].of
           Goal == /\ Follows(inst[h], inst'[h])
                   /\ call[c].op = "decrypt" => KeepsWord(inst[h], inst'[h], call[c].field)
<1>0. /\ h \in Handle /\ inst[h] # None /\ inst[h] \in Instance
      /\ inst[h].pending \in [Lazy -> Cipher \cup {Unset}]
      /\ inst[h].val \in [Field -> Value]
      /\ inst[h].spoken.said \in [Field -> Text] /\ inst[h].spoken.raced \in SUBSET Lazy
      /\ inst \in [Handle -> Instance \cup {None}]
      /\ call[c].op = "decrypt" => call[c].field \in Lazy
  <2>1. h \in Handle /\ inst[h] # None
    BY CallType DEF Inv, Held
  <2>2. call[c].op = "decrypt" => call[c].field \in Lazy
    BY CallType DEF Inv, Decrypting
  <2> QED
    BY <2>1, <2>2, InstanceOf DEF Inv, TypeOK
<1>1. ASSUME inst'[h] = inst[h] PROVE Goal
  BY <1>1 DEF Follows, KeepsWord
<1>2. ASSUME NEW j \in Instance, inst'[h] = j, j.pending = inst[h].pending, j.spoken = inst[h].spoken PROVE Goal
  BY <1>2 DEF Follows, KeepsWord
<1>3. ASSUME NEW g \in Handle, NEW k \in Key, NEW S \in SUBSET Field, Find(g, k, S) PROVE Goal
  BY <1>0, <1>1, <1>3 DEF Find
<1>4. ASSUME NEW g \in Handle, New(g) PROVE Goal
  <2>1. h # g
    BY <1>0, <1>4 DEF New
  <2>2. inst'[h] = inst[h]
    BY <1>0, <1>4, <2>1 DEF New
  <2> QED
    BY <1>1, <2>2
<1>5. ASSUME NEW g \in Handle, NEW f \in Field, NEW x \in Plain \cup {Null}, Assign(g, f, x) PROVE Goal
  <2> DEFINE val    == [inst[g].val EXCEPT ![f] = x]
             said   == [inst[g].spoken.said EXCEPT ![f] = x]
             raced  == IF BeingDecrypted(g, f) THEN inst[g].spoken.raced \cup {f} ELSE inst[g].spoken.raced \ {f}
             spoken == [said |-> said, raced |-> raced]
             j      == [inst[g] EXCEPT !.val = val, !.spoken = spoken]
  <2>1. inst' = [inst EXCEPT ![g] = j]
    BY <1>5 DEF Assign
  <2>2. CASE h # g
    <3>1. inst'[h] = inst[h]
      BY <1>0, <2>1, <2>2
    <3> QED
      BY <1>1, <3>1
  <2>3. CASE h = g
    <3>1. inst'[h] = j
      <4> HIDE DEF j
      <4> QED BY <1>0, <2>1, <2>3
    <3>2. j.pending = inst[h].pending /\ j.spoken.said = said /\ j.spoken.raced = raced
      <4> HIDE DEF val, said, raced
      <4> QED BY <1>0, <2>3 DEF Instance
    <3>3. ASSUME call[c].op = "decrypt" PROVE KeepsWord(inst[h], j, call[c].field)
      <4> DEFINE e == call[c].field
      <4>1. CASE e = f
        <5>1. BeingDecrypted(g, f)
          BY <2>3, <3>3, <4>1 DEF BeingDecrypted
        <5>2. f \in raced
          BY <5>1
        <5> HIDE DEF j, raced, said
        <5> QED
          BY <3>2, <4>1, <5>2 DEF KeepsWord
      <4>2. CASE e # f
        <5>1. e \in raced <=> e \in inst[h].spoken.raced
          BY <2>3, <4>2
        <5>2. said[e] = inst[h].spoken.said[e]
          BY <1>0, <2>3, <3>3, <4>2
        <5> HIDE DEF j, raced, said
        <5> QED
          BY <3>2, <5>1, <5>2 DEF KeepsWord
      <4> QED
        BY <4>1, <4>2
    <3> HIDE DEF j
    <3> QED
      BY <3>1, <3>2, <3>3 DEF Follows
  <2> QED
    BY <2>2, <2>3
<1>6. ASSUME NEW g \in Handle, NEW k, inst' = [inst EXCEPT ![g] = [inst[g] EXCEPT !.key = k]] PROVE Goal
  <2>1. CASE h # g
    BY <1>0, <1>1, <1>6, <2>1
  <2>2. CASE h = g
    <3> DEFINE j == [inst[h] EXCEPT !.key = k]
    <3>1. inst'[h] = j
      BY <1>0, <1>6, <2>2
    <3>2. j.pending = inst[h].pending /\ j.spoken = inst[h].spoken
      BY <1>0 DEF Instance
    <3> HIDE DEF j
    <3> QED
      BY <3>1, <3>2 DEF Follows, KeepsWord
  <2> QED
    BY <2>1, <2>2
<1>7. ASSUME NEW g \in Handle, Rekey(g) PROVE Goal
  BY <1>6, <1>7 DEF Rekey
<1>8. ASSUME NEW g \in Handle, Forget(g) PROVE Goal
  BY <1>0, <1>1, <1>8 DEF Forget, Unheld
<1>9. ASSUME NEW d \in Call, NEW g \in Handle, NEW k \in Key, Save(d, g, k) PROVE Goal
  BY <1>6, <1>9 DEF Save
<1>10. ASSUME NEW d \in Call, WriteUpdate(d) PROVE Goal
  <2>1. c # d
    BY <1>10 DEF WriteUpdate, Inv, TypeOK
  <2>2. inst' = inst \/ \E g \in Handle : Unheld(g, Call \ {d}) /\ inst' =
          [inst EXCEPT ![g] = Instantiate(Written(table[call[d].key], call[d]), call[d].key, Field)]
    BY <1>10 DEF WriteUpdate
  <2>3. \A g \in Handle : Unheld(g, Call \ {d}) => h # g
    BY <2>1 DEF Unheld
  <2> QED
    BY <1>0, <1>1, <2>2, <2>3
<1>11. ASSUME NEW g \in Handle, NEW f \in Lazy, NEW val,
              inst' = [inst EXCEPT ![g] = [inst[g] EXCEPT !.val = val,
                                                          !.pending = [inst[g].pending EXCEPT ![f] = Unset]]]
       PROVE  Goal
  <2>1. CASE h # g
    BY <1>0, <1>1, <1>11, <2>1
  <2>2. CASE h = g
    <3> DEFINE j == [inst[h] EXCEPT !.val = val, !.pending = [inst[h].pending EXCEPT ![f] = Unset]]
    <3>1. inst'[h] = j
      BY <1>0, <1>11, <2>2
    <3>2. j.pending = [inst[h].pending EXCEPT ![f] = Unset] /\ j.spoken = inst[h].spoken
      BY <1>0 DEF Instance
    <3> HIDE DEF j
    <3> QED
      BY <1>0, <3>1, <3>2 DEF Follows, KeepsWord
  <2> QED
    BY <2>1, <2>2
<1>12. ASSUME NEW g \in Handle, NEW f \in Lazy, DropPending(g, f) PROVE Goal
  <2>1. inst' = [inst EXCEPT ![g] = [inst[g] EXCEPT !.pending = [inst[g].pending EXCEPT ![f] = Unset]]]
    BY <1>12 DEF DropPending
  <2>2. CASE h # g
    BY <1>0, <1>1, <2>1, <2>2
  <2>3. CASE h = g
    <3> DEFINE j == [inst[h] EXCEPT !.pending = [inst[h].pending EXCEPT ![f] = Unset]]
    <3>1. inst'[h] = j
      BY <1>0, <2>1, <2>3
    <3>2. j.pending = [inst[h].pending EXCEPT ![f] = Unset] /\ j.spoken = inst[h].spoken
      BY <1>0 DEF Instance
    <3> HIDE DEF j
    <3> QED
      BY <1>0, <3>1, <3>2 DEF Follows, KeepsWord
  <2> QED
    BY <2>2, <2>3
<1>13. ASSUME NEW d \in Call, Decrypted(d) PROVE Goal
  <2>1. call[d].of \in Handle /\ call[d].field \in Lazy
    BY <1>13, CallType DEF Decrypted, Inv, Decrypting
  <2>2. inst' = [inst EXCEPT ![call[d].of] =
          [inst[call[d].of] EXCEPT !.val     = [inst[call[d].of].val EXCEPT ![call[d].field] = call[d].ct.text],
                                   !.pending = [inst[call[d].of].pending EXCEPT ![call[d].field] = Unset]]]
    BY <1>13 DEF Decrypted
  <2> QED
    BY <1>11, <2>1, <2>2
<1>14. ASSUME inst' = inst PROVE Goal
  BY <1>1, <1>14
<1>15. Goal
  <2> HIDE DEF Goal, h
  <2> QED
    BY <1>3, <1>4, <1>5, <1>7, <1>8, <1>9, <1>10, <1>12, <1>13, <1>14
       DEF Next, EncryptMore, WriteInsert, Throws, UpdateBy, Delete, DecryptField, vars
<1> QED
  BY <1>15 DEF Goal

(* What is settled stays so while the instance only loses what is pending. *)
LEMMA SettledStays ==
  ASSUME NEW s \in Saving, NEW i, NEW j, SaveSound(s, i), Follows(i, j)
  PROVE  SaveSound(s, j)
<1> SUFFICES ASSUME NEW f \in Field, f <= s.done
             PROVE  \E b \in Text : /\ f \in Indexed => s.bi[f] = b
                                    /\ Settled(s.copy[f], Pends(j, s.copy[f], f), s.key, s.data[f], b)
  BY DEF SaveSound
<1>1. PICK b \in Text : /\ f \in Indexed => s.bi[f] = b
                        /\ Settled(s.copy[f], Pends(i, s.copy[f], f), s.key, s.data[f], b)
  BY DEF SaveSound
<1>2. s.copy[f] \in Cipher /\ ~Pends(i, s.copy[f], f) => ~Pends(j, s.copy[f], f)
  BY MarksAssumption DEF Pends, Follows
<1>3. Settled(s.copy[f], Pends(j, s.copy[f], f), s.key, s.data[f], b)
  BY <1>1, <1>2 DEF Settled
<1> QED
  BY <1>1, <1>3

(* The step of encryptEntity() over some fields of one save.               *)
LEMMA EncryptStep ==
  ASSUME Inv, NEW c \in Call, EncryptMore(c)
  PROVE  call'[c].op = "save" /\ call'[c].of = call[c].of /\ SaveSound(call'[c], inst[call[c].of])
<1> DEFINE s    == call[c]
           i    == inst[s.of]
           copy == IF s.copied THEN s.copy ELSE i.val
           key  == IF s.copied THEN s.key ELSE i.key
<1>1. PICK t \in Saving, upto \in Field :
        /\ call' = [call EXCEPT ![c] = t] /\ s \in Saving /\ i # None
        /\ Encrypting(s, i, t, upto)
  BY EncryptShape DEF Inv
<1>2. call'[c] = t
  BY <1>1 DEF Inv, TypeOK
<1>3. /\ s \in Saving /\ s.of \in Handle /\ s.op = "save" /\ s.done \in 0..N /\ s.copied \in BOOLEAN
      /\ s.copy \in [Field -> Value] /\ SaveSound(s, i)
  BY <1>1, CallType DEF EncryptMore, Saving, Inv, CallSound
<1>4. i.pending \in [Lazy -> Cipher \cup {Unset}] /\ i.val \in [Field -> Value] /\ InstanceSound(i)
  BY <1>1, <1>3, InstanceOf DEF Inv, Live
<1>5. copy \in [Field -> Value]
  BY <1>3, <1>4
<1>6. /\ t.op = "save" /\ t.of = s.of /\ t.copied /\ t.copy = copy /\ t.key = key /\ t.done = upto
      /\ t.spoken = IF s.copied THEN s.spoken ELSE i.spoken
      /\ \A f \in Field : t.data[f] = IF f \in (s.done + 1)..upto THEN EncryptedField(copy, i.pending, f, key)
                                                                  ELSE s.data[f]
      /\ \A f \in Indexed : t.bi[f] = IF f \in (s.done + 1)..upto THEN BlindIndex(copy, i.pending, f)
                                                                  ELSE s.bi[f]
  BY <1>1 DEF Encrypting
<1>7. key \in Key
  <2>1. t.key \in Key
    BY <1>1 DEF Saving
  <2> QED BY <1>6, <2>1
<1>8. /\ \A f \in Field : copy[f] \in Cipher => f \in Lazy
      /\ \A f \in Field \ Lazy : copy[f] # Garbled
      /\ \A f \in Field : f \in t.spoken.raced \/ t.spoken.said[f] = Shown(copy[f])
  <2>1. CASE s.copied
    BY <1>3, <1>6, <2>1 DEF SaveSound
  <2>2. CASE ~s.copied
    BY <1>3, <1>4, <1>6, <2>2 DEF InstanceSound
  <2> QED BY <1>3, <2>1, <2>2
<1>9. ASSUME NEW f \in Field, f <= upto
      PROVE  \E b \in Text : /\ f \in Indexed => t.bi[f] = b
                             /\ Settled(copy[f], Pends(i, copy[f], f), key, t.data[f], b)
  <2>1. CASE f \in (s.done + 1)..upto
    <3> DEFINE b == BlindIndex(copy, i.pending, f)
    <3>1. Settled(copy[f], Pends(i, copy[f], f), key, EncryptedField(copy, i.pending, f, key), b)
      <4> HIDE DEF copy, key, i
      <4> QED BY <1>4, <1>5, <1>7, <1>8, EncryptedSettled
    <3>2. b \in Text
      <4> HIDE DEF copy, key, i
      <4> QED BY <1>4, <1>5, <1>7, EncryptedType
    <3>3. t.data[f] = EncryptedField(copy, i.pending, f, key) /\ (f \in Indexed => t.bi[f] = b)
      BY <1>6, <2>1
    <3> HIDE DEF copy, key, b, i
    <3> QED
      BY <3>1, <3>2, <3>3
  <2>2. CASE f \notin (s.done + 1)..upto
    <3>1. f <= s.done /\ s.done # 0
      <4> HIDE DEF s
      <4> QED BY <1>3, <1>9, <2>2
    <3>2. s.copied
      BY <1>3, <3>1 DEF SaveSound
    <3>3. PICK b \in Text : /\ f \in Indexed => s.bi[f] = b
                            /\ Settled(s.copy[f], Pends(i, s.copy[f], f), s.key, s.data[f], b)
      BY <1>3, <3>1 DEF SaveSound
    <3>4. t.data[f] = s.data[f] /\ (f \in Indexed => t.bi[f] = s.bi[f]) /\ copy = s.copy /\ key = s.key
      BY <1>6, <2>2, <3>2
    <3> HIDE DEF copy, key, i, s
    <3> QED
      BY <3>3, <3>4
  <2> QED
    BY <2>1, <2>2
<1>10. SaveSound(t, i)
  <2> HIDE DEF copy, key, i, s
  <2> QED
    BY <1>6, <1>8, <1>9 DEF SaveSound
<1> QED
  BY <1>2, <1>6, <1>10

(* Every step leaves the calls in flight sound.                            *)
LEMMA CallStep ==
  ASSUME Inv, [Next]_vars, NEW c \in Call, call'[c] # None
  PROVE  CallSound(c)'
<1>0. call \in [Call -> Saving \cup Decrypting \cup {None}] /\ None \notin Saving \cup Decrypting
  BY MarksAssumption DEF Inv, TypeOK
<1>1. ASSUME call'[c] = call[c] PROVE CallSound(c)'
  <2> DEFINE i == inst[call[c].of]  j == inst'[call[c].of]
  <2>1. CallSound(c) /\ Follows(i, j)
    BY <1>1, Frame DEF Inv
  <2>2. CASE call[c].op = "save"
    <3>1. call[c] \in Saving /\ SaveSound(call[c], i)
      BY <1>1, <2>1, <2>2, CallType DEF Inv, CallSound
    <3>2. SaveSound(call[c], j)
      BY <2>1, <3>1, SettledStays
    <3> QED
      BY <1>1, <2>2, <3>2 DEF CallSound
  <2>3. CASE call[c].op = "decrypt"
    <3>1. DecryptSound(call[c], i) /\ KeepsWord(i, j, call[c].field)
      BY <1>1, <2>1, <2>3, Frame DEF CallSound
    <3>2. DecryptSound(call[c], j)
      BY <3>1 DEF DecryptSound, KeepsWord
    <3> QED
      BY <1>1, <2>3, <3>2 DEF CallSound
  <2> QED
    BY <1>1, <2>2, <2>3, CallType DEF Inv
<1>2. ASSUME NEW d \in Call, NEW h \in Handle, NEW k \in Key, Save(d, h, k) PROVE CallSound(c)'
  <2>1. CASE c # d
    BY <1>0, <1>1, <1>2, <2>1 DEF Save
  <2>2. CASE c = d
    <3> DEFINE t == [op |-> "save", of |-> h, insert |-> inst[h].key = Unset, key |-> k, copied |-> FALSE,
                     copy |-> [f \in Field |-> Unset],
                     spoken |-> [said |-> [f \in Field |-> Unset], raced |-> {}], done |-> 0,
                     data |-> [f \in Field |-> Unset], bi |-> [f \in Indexed |-> Unset]]
    <3>1. call'[c] = t
      BY <1>0, <1>2, <2>2 DEF Save
    <3>2. /\ t.op = "save" /\ t.done = 0 /\ t.spoken.raced = {}
          /\ \A f \in Field : t.copy[f] = Unset /\ t.spoken.said[f] = Unset
      OBVIOUS
    <3> HIDE DEF t
    <3>3. ASSUME NEW i PROVE SaveSound(t, i)
      BY <3>2, MarksAssumption DEF SaveSound, Shown
    <3> QED
      BY <3>1, <3>2, <3>3 DEF CallSound
  <2> QED
    BY <2>1, <2>2
<1>3. ASSUME NEW d \in Call, EncryptMore(d) PROVE CallSound(c)'
  <2>1. CASE c # d
    <3>1. call'[c] = call[c]
      <4>1. PICK t : call' = [call EXCEPT ![d] = t]
        BY <1>3, EncryptShape DEF Inv
      <4> QED BY <1>0, <2>1, <4>1
    <3> QED
      BY <1>1, <3>1
  <2>2. CASE c = d
    <3>1. inst' = inst
      BY <1>3 DEF EncryptMore
    <3> QED
      BY <1>3, <2>2, <3>1, EncryptStep DEF CallSound
  <2> QED
    BY <2>1, <2>2
<1>4. ASSUME NEW d \in Call, NEW h \in Handle, NEW f \in Lazy, DecryptField(d, h, f) PROVE CallSound(c)'
  <2>1. CASE c # d
    BY <1>0, <1>1, <1>4, <2>1 DEF DecryptField
  <2>2. CASE c = d
    <3> DEFINE t == [op |-> "decrypt", of |-> h, field |-> f, ct |-> inst[h].pending[f], key |-> inst[h].key]
    <3>1. call'[c] = t /\ inst' = inst
      BY <1>0, <1>4, <2>2 DEF DecryptField
    <3>2. /\ InstanceSound(inst[h]) /\ inst[h].val[f] = inst[h].pending[f] /\ inst[h].pending[f] \in Cipher
      BY <1>4, InstanceOf DEF DecryptField, Inv, Live
    <3>3. f \in inst[h].spoken.raced \/ inst[h].spoken.said[f] = inst[h].pending[f].text
      BY <3>2 DEF InstanceSound, Shown
    <3>4. t.of = h /\ t.field = f /\ t.op = "decrypt" /\ t.ct = inst[h].pending[f]
      OBVIOUS
    <3> HIDE DEF t
    <3> QED
      BY <3>1, <3>3, <3>4 DEF CallSound, DecryptSound
  <2> QED
    BY <2>1, <2>2
<1>5. ASSUME NEW d \in Call, call' = [call EXCEPT ![d] = None] PROVE CallSound(c)'
  BY <1>0, <1>1, <1>5
<1>6. CASE UNCHANGED call
  BY <1>1, <1>6
<1> QED
  BY <1>2, <1>3, <1>4, <1>5, <1>6
     DEF Next, Find, New, Assign, Rekey, Forget, WriteInsert, WriteUpdate, Decrypted, Throws,
         UpdateBy, Delete, DropPending, vars

LEMMA InvHolds == Spec => []Inv
<1>1. Init => Inv
  BY DEF Init, Inv, TypeOK, Held, TableSound, Unreadable, Live
<1>2. Inv /\ [Next]_vars => Inv'
  <2> SUFFICES ASSUME Inv, [Next]_vars PROVE Inv'
    OBVIOUS
  <2>1. TypeOK' /\ Held'
    BY Typing DEF Inv
  <2>2. \A h \in Live' : InstanceSound(inst'[h])
    BY InstanceStep DEF Live
  <2>3. \A c \in Call : call'[c] # None => CallSound(c)'
    BY CallStep
  <2> QED
    BY <2>1, <2>2, <2>3, TableStep DEF Inv
<1> QED
  BY <1>1, <1>2, PTL DEF Spec

-----------------------------------------------------------------------------
(* The theorems. *)

(* A column becomes unreadable in no other way than by a save() overtaken  *)
(* by a decryption of the lazy field, or by one that carries on what was   *)
(* read from a row of another key or no better; an eager column never.     *)
(* The application may do anything with an entity that calls work on.      *)
THEOREM Readable == Spec => RowsReadable
<1>1. Inv /\ [Next]_vars =>
        [\A k \in Key : table'[k] # table[k] =>
           \A f \in Field : Unreadable(k, f)' =>
             \/ Unreadable(k, f) /\ table'[k].col[f] = table[k].col[f]
             \/ /\ f \in Lazy
                /\ \E c \in Call : /\ Writes(c) /\ call[c].key = k
                                   /\ Overtaken(c, f) \/ Misfit(call[c].copy[f], k)]_vars
  BY RowsStep
<1> QED
  BY <1>1, InvHolds, PTL DEF Spec, RowsReadable

(* The columns that are decrypted with their row open always, to a text    *)
(* the application wrote, whatever becomes of the lazy ones.               *)
THEOREM EagerReadable == Spec => [](\A k \in Key, f \in Field \ Lazy : ~Unreadable(k, f))
<1>1. Inv => \A k \in Key, f \in Field \ Lazy : ~Unreadable(k, f)
  BY DEF Inv, TableSound
<1> QED
  BY <1>1, InvHolds, PTL

(* toJSON() prints no ciphertext: an instance that has one has it pending, *)
(* on which toJSON() throws, whatever is saved or decrypted meanwhile.     *)
THEOREM Printable == Spec => []SafeToPrint
<1>1. Inv => SafeToPrint
  <2> SUFFICES ASSUME Inv, NEW h \in Live, \A f \in Lazy : inst[h].pending[f] = Unset,
                      NEW f \in Field, inst[h].val[f] \in Cipher
               PROVE  FALSE
    BY DEF SafeToPrint
  <2>1. InstanceSound(inst[h])
    BY DEF Inv
  <2> QED
    BY <2>1, MarksAssumption DEF InstanceSound
<1> QED
  BY <1>1, InvHolds, PTL

(* Any set of fields may be lazy, indexed or both: an index parts from its *)
(* column only where a save() puts a ciphertext back over another one.     *)
THEOREM Faithful == Spec => IndexFaithful
<1>1. ASSUME Inv, [Next]_vars, NEW k \in Key, table'[k] # table[k], NEW f \in Indexed, OutOfStep(k, f)'
      PROVE  \/ /\ OutOfStep(k, f)
                /\ table'[k].col[f] = table[k].col[f] /\ table'[k].bi[f] = table[k].bi[f]
             \/ /\ f \in Lazy
                /\ \E c \in Call : Writes(c) /\ call[c].key = k /\ PutsBack(c, k, f)
  <2>0. f \in Field /\ table'[k] # None /\ table'[k].bi[f] # Shown(table'[k].col[f])
    BY <1>1 DEF OutOfStep
  <2>1. ASSUME NEW g \in Field, NEW x \in Plain \cup {Null}, UpdateBy(k, g, x)
        PROVE  /\ OutOfStep(k, f)
               /\ table'[k].col[f] = table[k].col[f] /\ table'[k].bi[f] = table[k].bi[f]
    BY <1>1, <2>0, <2>1, UpdateByFacts DEF OutOfStep
  <2>2. ASSUME NEW c \in Call, Writes(c), call[c].key = k
        PROVE  \/ /\ OutOfStep(k, f)
                  /\ table'[k].col[f] = table[k].col[f] /\ table'[k].bi[f] = table[k].bi[f]
               \/ f \in Lazy /\ PutsBack(c, k, f)
    <3> DEFINE s == call[c]  x == s.copy[f]  d == s.data[f]  b == s.bi[f]
    <3>1. /\ s \in Saving /\ SaveSound(s, inst[s.of]) /\ s.done = N
          /\ table'[k].col[f] = IF d = Unset THEN Before(k).col[f] ELSE d
          /\ table'[k].bi[f] = IF b = Unset THEN Before(k).bi[f] ELSE b
      BY <1>1, <2>0, <2>2, WriteFacts
    <3>2. Settled(x, Pends(inst[s.of], x, f), s.key, d, b)
      BY <1>1, <2>0, <3>1 DEF SaveSound
    <3>3. table[k] # None => Before(k) = table[k]
      BY DEF Before
    <3>4. table[k] = None => Before(k).bi[f] = Null /\ Before(k).col[f] = Null /\ Shown(Null) = Null
      BY <1>1, <2>0, MarksAssumption DEF Before, EmptyRow, Shown
    <3>5. CASE x \in {Unset, Null} /\ d = x /\ b = x
      <4>1. Shown(Null) = Null
        BY MarksAssumption DEF Shown
      <4> QED
        BY <2>0, <3>1, <3>3, <3>4, <3>5, <4>1 DEF OutOfStep
    <3>6. CASE x \in Cipher /\ d = x /\ b = Unset
      <4>1. d # Unset /\ f \in Lazy
        BY <2>0, <3>1, <3>6, MarksAssumption DEF SaveSound
      <4>2. table'[k].col[f] = x /\ table'[k].bi[f] = Before(k).bi[f]
        BY <3>1, <3>6, <4>1
      <4>3. CASE table[k] = None \/ table[k].col[f] # x
        BY <3>6, <4>1, <4>3 DEF PutsBack
      <4>4. CASE table[k] # None /\ table[k].col[f] = x
        BY <2>0, <3>3, <4>2, <4>4 DEF OutOfStep
      <4> QED
        BY <4>3, <4>4
    <3>7. ASSUME NEW y \in Plain \cup {Garbled}, d = [text |-> y, key |-> s.key], b = y PROVE FALSE
      <4>1. d \in Cipher /\ d.text = y
        BY <3>1, <3>7 DEF Cipher, Saving
      <4>2. d # Unset /\ b # Unset
        BY <3>7, <4>1, MarksAssumption
      <4>3. table'[k].col[f] = d /\ table'[k].bi[f] = y
        BY <3>1, <3>7, <4>2
      <4>4. Shown(d) = y
        <5> HIDE DEF d
        <5> QED BY <4>1 DEF Shown
      <4> QED
        BY <2>0, <4>3, <4>4
    <3> QED
      BY <3>2, <3>5, <3>6, <3>7 DEF Settled
  <2> QED
    BY <1>1, <2>0, <2>1, <2>2, RowChanges
<1>2. Inv /\ [Next]_vars =>
        [\A k \in Key : table'[k] # table[k] =>
           \A f \in Indexed : OutOfStep(k, f)' =>
             \/ /\ OutOfStep(k, f)
                /\ table'[k].col[f] = table[k].col[f] /\ table'[k].bi[f] = table[k].bi[f]
             \/ /\ f \in Lazy
                /\ \E c \in Call : Writes(c) /\ call[c].key = k /\ PutsBack(c, k, f)]_vars
  BY <1>1
<1> QED
  BY <1>2, InvHolds, PTL DEF Spec, IndexFaithful

(* What a save leaves in a column is what the application had last said of *)
(* the field when the entity was copied, unless it assigned the field      *)
(* while a decryption of it was under way, or decrypted it during the save.*)
THEOREM Stores == Spec => StoresWhatWasSaid
<1> DEFINE Said(s, k, f) ==
             IF s.spoken.said[f] = Unset
               THEN table'[k].col[f] = IF table[k] = None THEN Null ELSE table[k].col[f]
               ELSE Shown(table'[k].col[f]) = s.spoken.said[f]
<1>1. ASSUME Inv, NEW c \in Call, Writes(c), NEW f \in Field, f \notin call[c].spoken.raced, ~Overtaken(c, f)
      PROVE  Said(call[c], call[c].key, f)
  <2> DEFINE s == call[c]  k == s.key  x == s.copy[f]  d == s.data[f]
  <2>1. /\ s \in Saving /\ SaveSound(s, inst[s.of]) /\ s.done = N
        /\ table'[k].col[f] = IF d = Unset THEN Before(k).col[f] ELSE d
    BY <1>1, WriteFacts
  <2>2. PICK b \in Text : Settled(x, Pends(inst[s.of], x, f), s.key, d, b)
    BY <2>1 DEF SaveSound
  <2>3. s.spoken.said[f] = Shown(x) /\ (x \in Cipher => f \in Lazy)
    BY <1>1, <2>1 DEF SaveSound
  <2>4. x \in Cipher => Pends(inst[s.of], x, f)
    BY <1>1, <2>3 DEF Overtaken, Pends
  <2>5. CASE x = Unset /\ d = Unset
    <3>1. s.spoken.said[f] = Unset
      BY <2>3, <2>5, MarksAssumption DEF Shown
    <3>2. Before(k).col[f] = IF table[k] = None THEN Null ELSE table[k].col[f]
      BY DEF Before, EmptyRow
    <3> QED
      BY <2>1, <2>5, <3>1, <3>2
  <2>6. ASSUME d # Unset, Shown(d) = Shown(x), Shown(x) # Unset PROVE Said(s, k, f)
    BY <2>1, <2>3, <2>6
  <2>7. CASE x = Null /\ d = x
    <3>1. d # Unset /\ Shown(x) # Unset
      BY <2>7, MarksAssumption DEF Shown
    <3> QED
      BY <2>6, <2>7, <3>1
  <2>8. CASE x \in Cipher /\ d = x
    <3>1. d # Unset /\ Shown(x) # Unset
      BY <2>8, MarksAssumption DEF Shown, Cipher
    <3> QED
      BY <2>6, <2>8, <3>1
  <2>9. CASE x \in Plain \cup {Garbled} /\ d = [text |-> x, key |-> s.key]
    <3>1. d \in Cipher /\ d.text = x
      BY <2>1, <2>9 DEF Cipher, Saving
    <3>2. x \notin Cipher /\ x # Unset /\ d # Unset
      BY <2>9, <3>1, MarksAssumption
    <3>3. Shown(x) = x /\ Shown(d) = x
      <4> HIDE DEF d, x
      <4> QED BY <3>1, <3>2 DEF Shown
    <3> HIDE DEF d, x, Said
    <3> QED
      BY <2>6, <3>2, <3>3
  <2> QED
    BY <2>2, <2>4, <2>5, <2>7, <2>8, <2>9 DEF Settled
<1>2. Inv /\ [Next]_vars =>
        [\A c \in Call : Writes(c) =>
           LET s == call[c]
               k == s.key
           IN \A f \in Field :
                \/ f \in s.spoken.raced \/ Overtaken(c, f)
                \/ IF s.spoken.said[f] = Unset
                     THEN table'[k].col[f] = IF table[k] = None THEN Null ELSE table[k].col[f]
                     ELSE Shown(table'[k].col[f]) = s.spoken.said[f]]_vars
  BY <1>1
<1> QED
  BY <1>2, InvHolds, PTL DEF Spec, StoresWhatWasSaid

=============================================================================
