------------------------- MODULE EntityPersistence -------------------------
(***************************************************************************)
(* Encrypted columns in src/persistence/entity-persistence.ts: entities    *)
(* are read, changed, decrypted on demand and saved by calls that run at   *)
(* once in one or several processes, over one table.                       *)
(*                                                                         *)
(* The security AAD of a row is its primary key: @YdbSecurityAAD applies   *)
(* to key columns only.  A ciphertext is a record of the text in it and    *)
(* the key it is bound to; encrypting a ciphertext (the bytes turned into  *)
(* a string) gives a Garbled text.  The columns of the model that are not  *)
(* keys are the encrypted fields, 1..N in the order of the metadata.  The  *)
(* provider and the database are external.                                 *)
(***************************************************************************)
EXTENDS Naturals

CONSTANTS
  Key,      \* primary keys
  Plain,    \* plaintexts
  N,        \* number of encrypted fields
  Lazy,     \* those decrypted on demand
  Indexed,  \* those with a blind index
  Handle,   \* entity instances the application holds
  Call,     \* calls in flight
  Garbled,  \* the text of an encrypted ciphertext
  Null,
  Unset,    \* undefined: the property is not there
  None      \* no row, no instance, no call

Field == 1..N

ASSUME FieldAssumption == N \in Nat \ {0} /\ Lazy \subseteq Field /\ Indexed \subseteq Field

VARIABLES
  table,   \* the rows of the table
  inst,    \* the entity instances, with their entries of lazyPendingCiphertext
  call     \* the calls in flight

vars == <<table, inst, call>>

Cipher == [text : Plain \cup {Garbled}, key : Key]
Column == Cipher \cup {Null}
Row    == [col : [Field -> Column], bi : [Indexed -> Plain \cup {Garbled, Null}]]

Text     == Plain \cup {Garbled, Null, Unset}
Value    == Text \cup Cipher

(* History, which no step reads: `said` is what the application last gave  *)
(* a field or found in it, `raced` the fields it assigned while a          *)
(* decryption of them was under way.                                       *)
Spoken   == [said : [Field -> Text], raced : SUBSET Lazy]
Instance == [key : Key \cup {Unset}, val : [Field -> Value], pending : [Lazy -> Cipher \cup {Unset}],
             spoken : Spoken]

Saving ==
  [op : {"save"}, of : Handle, insert : BOOLEAN, key : Key, copied : BOOLEAN,
   copy : [Field -> Value], spoken : Spoken, done : 0..N, data : [Field -> Column \cup {Unset}],
   bi : [Indexed -> Text]]
Decrypting == [op : {"decrypt"}, of : Handle, field : Lazy, ct : Cipher, key : Key]

(* The four marks are none of the values they stand beside.                *)
ASSUME MarksAssumption ==
  /\ Garbled \notin Plain \cup Cipher \cup {Null, Unset}
  /\ Null \notin Plain \cup Cipher \cup {Unset}
  /\ Unset \notin Plain \cup Cipher \cup Key
  /\ Plain \cap Cipher = {}
  /\ None \notin Row \cup Instance \cup Saving \cup Decrypting

TypeOK ==
  /\ table \in [Key -> Row \cup {None}]
  /\ inst  \in [Handle -> Instance \cup {None}]
  /\ call  \in [Call -> Saving \cup Decrypting \cup {None}]

Init ==
  /\ table = [k \in Key |-> None]
  /\ inst  = [h \in Handle |-> None]
  /\ call  = [c \in Call |-> None]

Live == {h \in Handle : inst[h] # None}

(* No call of S holds a reference to the instance.                         *)
Unheld(h, S) == \A c \in S : call[c] # None => call[c].of # h

BeingDecrypted(h, f) ==
  \E c \in Call : call[c] # None /\ call[c].op = "decrypt" /\ call[c].of = h /\ call[c].field = f

-----------------------------------------------------------------------------
(* Ciphertexts. *)

(* What is in a column or a value once it is decrypted.                    *)
Shown(x) == IF x \in Cipher THEN x.text ELSE x

(* String(value) *)
TextOf(x) == IF x \in Cipher THEN Garbled ELSE x

Encrypt(x, k) == [text |-> TextOf(x), key |-> k]

(* decryptWithAadFallback(): it opens under the AAD of the row, in either  *)
(* AAD format.                                                             *)
Opens(ct, k) == ct.key = k

EagerOpens(row, k) ==
  \A f \in Field \ Lazy : row.col[f] # Null => Opens(row.col[f], k)

(* decryptResult() and instantiate(): the entity of a row of which the     *)
(* fields S were selected.                                                 *)
Instantiate(row, k, S) ==
  LET val == [f \in Field |-> IF f \notin S THEN Unset
                             ELSE IF row.col[f] # Null /\ f \notin Lazy THEN row.col[f].text
                             ELSE row.col[f]]
  IN [key     |-> k,
      val     |-> val,
      pending |-> [f \in Lazy |-> IF val[f] \in Cipher THEN val[f] ELSE Unset],
      spoken  |-> [said |-> [f \in Field |-> Shown(val[f])], raced |-> {}]]

-----------------------------------------------------------------------------
(* The application. *)

(* find() / findAll(), of all the columns or with a select; it throws when *)
(* an eager field of the row does not open.                                *)
Find(h, k, S) ==
  /\ inst[h] = None
  /\ table[k] # None
  /\ EagerOpens(table[k], k)
  /\ inst' = [inst EXCEPT ![h] = Instantiate(table[k], k, S)]
  /\ UNCHANGED <<table, call>>

(* new Entity() *)
New(h) ==
  /\ inst[h] = None
  /\ LET nothing == [f \in Field |-> Unset]
     IN inst' = [inst EXCEPT ![h] = [key |-> Unset, val |-> nothing, pending |-> [f \in Lazy |-> Unset],
                                     spoken |-> [said |-> nothing, raced |-> {}]]]
  /\ UNCHANGED <<table, call>>

Assign(h, f, x) ==
  /\ h \in Live
  /\ LET raced  == inst[h].spoken.raced
         spoken == [said  |-> [inst[h].spoken.said EXCEPT ![f] = x],
                    raced |-> IF BeingDecrypted(h, f) THEN raced \cup {f} ELSE raced \ {f}]
     IN inst' = [inst EXCEPT ![h] = [@ EXCEPT !.val[f] = x, !.spoken = spoken]]
  /\ UNCHANGED <<table, call>>

(* entity.uuid = undefined, to save the entity as a new one *)
Rekey(h) ==
  /\ h \in Live
  /\ inst' = [inst EXCEPT ![h].key = Unset]
  /\ UNCHANGED <<table, call>>

Forget(h) ==
  /\ h \in Live
  /\ Unheld(h, Call)
  /\ inst' = [inst EXCEPT ![h] = None]
  /\ UNCHANGED <<table, call>>

-----------------------------------------------------------------------------
(* save() *)

(* generateUuid(): a key that nothing has yet.                             *)
Fresh(k) ==
  /\ table[k] = None
  /\ \A h \in Live : inst[h].key # k /\ \A f \in Field : inst[h].val[f] \in Cipher => inst[h].val[f].key # k
  /\ \A c \in Call : call[c] # None => call[c].key # k

(* save(), insert() and update() up to the hooks and the validation: an    *)
(* entity with a key is updated, another one is inserted under a new key.  *)
Save(c, h, k) ==
  /\ call[c] = None
  /\ h \in Live
  /\ IF inst[h].key = Unset THEN Fresh(k) ELSE k = inst[h].key
  /\ inst' = [inst EXCEPT ![h].key = k]
  /\ call' = [call EXCEPT ![c] =
       [op |-> "save", of |-> h, insert |-> inst[h].key = Unset, key |-> k, copied |-> FALSE,
        copy |-> [f \in Field |-> Unset],
        spoken |-> [said |-> [f \in Field |-> Unset], raced |-> {}], done |-> 0,
        data |-> [f \in Field |-> Unset], bi |-> [f \in Indexed |-> Unset]]]
  /\ UNCHANGED table

(* Mutant: a lazy field that is still a ciphertext is encrypted like any   *)
(* other value.                                                            *)
NothingPassedAsIs(copy, pending, f) == FALSE

(* What encryptEntity() does with a field: `copy` is the spread it was     *)
(* given, `pending` the entry the source instance has at this moment.      *)
PassedAsIs(copy, pending, f) == f \in Lazy /\ copy[f] # Unset /\ pending[f] = copy[f]

Encrypts(copy, pending, f) ==
  copy[f] \notin {Unset, Null} /\ ~PassedAsIs(copy, pending, f)

EncryptedField(copy, pending, f, k) ==
  IF Encrypts(copy, pending, f) THEN Encrypt(copy[f], k) ELSE copy[f]

(* Mutant: a field that is set to null leaves its blind index alone.       *)
BlindIndexOfTexts(copy, pending, f) ==
  IF PassedAsIs(copy, pending, f) \/ copy[f] = Null THEN Unset ELSE TextOf(copy[f])

BlindIndex(copy, pending, f) ==
  IF PassedAsIs(copy, pending, f) THEN Unset ELSE TextOf(copy[f])

(* Mutant: the entity is read again after each call of the provider.       *)
EncryptMoreLive(c) ==
  /\ call[c] # None /\ call[c].op = "save"
  /\ ~call[c].copied \/ call[c].done < N
  /\ LET s    == call[c]
         f    == s.done + 1
         live == inst[s.of]
         key  == IF s.copied THEN s.key ELSE live.key
     IN /\ ~s.copied => key # Unset /\ (s.insert \/ \E g \in Field : live.val[g] # Unset)
        /\ call' = [call EXCEPT ![c] =
             [s EXCEPT !.copied = TRUE, !.done = f, !.key = key,
                !.copy = IF s.copied THEN s.copy ELSE live.val,
                !.spoken = IF s.copied THEN s.spoken ELSE live.spoken,
                !.data[f] = EncryptedField(live.val, live.pending, f, key),
                !.bi = [g \in Indexed |-> IF g = f THEN BlindIndex(live.val, live.pending, f)
                                                   ELSE s.bi[g]]]]
  /\ UNCHANGED <<table, inst>>

(* encryptEntity() goes on to the next field it awaits the provider for.   *)
(* Its first step takes the copy of the entity, with the key it has then;  *)
(* without one, or with no value to update, the call has thrown by then.   *)
EncryptMore(c) ==
  /\ call[c] # None /\ call[c].op = "save"
  /\ ~call[c].copied \/ call[c].done < N
  /\ LET s       == call[c]
         pending == inst[s.of].pending
         copy    == IF s.copied THEN s.copy ELSE inst[s.of].val
         awaited == {f \in (s.done + 1)..N : Encrypts(copy, pending, f)}
         key     == IF s.copied THEN s.key ELSE inst[s.of].key
     IN /\ ~s.copied => key # Unset /\ (s.insert \/ \E f \in Field : copy[f] # Unset)
        /\ \E upto \in Field :
             /\ IF awaited = {} THEN upto = N ELSE upto \in awaited /\ \A f \in awaited : upto <= f
             /\ LET now == (s.done + 1)..upto
                IN call' = [call EXCEPT ![c] =
                     [s EXCEPT !.copied = TRUE, !.copy = copy, !.done = upto, !.key = key,
                        !.spoken = IF s.copied THEN s.spoken ELSE inst[s.of].spoken,
                        !.data = [f \in Field |-> IF f \in now THEN EncryptedField(copy, pending, f, key)
                                                               ELSE s.data[f]],
                        !.bi   = [f \in Indexed |-> IF f \in now THEN BlindIndex(copy, pending, f)
                                                                 ELSE s.bi[f]]]]
  /\ UNCHANGED <<table, inst>>

ReadyToWrite(c) == call[c] # None /\ call[c].op = "save" /\ call[c].copied /\ call[c].done = N

EmptyRow == [col |-> [f \in Field |-> Null], bi |-> [f \in Indexed |-> Null]]

(* SET of the columns that are defined *)
Written(row, s) ==
  [col |-> [f \in Field   |-> IF s.data[f] = Unset THEN row.col[f] ELSE s.data[f]],
   bi  |-> [f \in Indexed |-> IF s.bi[f] = Unset THEN row.bi[f] ELSE s.bi[f]]]

(* UPSERT of an insert; it returns the entity it was given.                *)
WriteInsert(c) ==
  /\ ReadyToWrite(c) /\ call[c].insert
  /\ LET s   == call[c]
         row == IF table[s.key] = None THEN EmptyRow ELSE table[s.key]
     IN table' = [table EXCEPT ![s.key] = Written(row, s)]
  /\ call' = [call EXCEPT ![c] = None]
  /\ UNCHANGED inst

(* UPDATE ... RETURNING of an update that finds its row; the application   *)
(* keeps the instance made of the returned row, beside or in place of one  *)
(* it had, or does not (or gets an error, where an eager field of it does  *)
(* not open).                                                              *)
WriteUpdate(c) ==
  /\ ReadyToWrite(c) /\ ~call[c].insert
  /\ LET s == call[c] IN
     /\ table[s.key] # None
     /\ table' = [table EXCEPT ![s.key] = Written(@, s)]
     /\ \/ UNCHANGED inst
        \/ \E h \in Handle :
             /\ Unheld(h, Call \ {c})
             /\ EagerOpens(Written(table[s.key], s), s.key)
             /\ inst' = [inst EXCEPT ![h] = Instantiate(Written(table[s.key], s), s.key, Field)]
  /\ call' = [call EXCEPT ![c] = None]

(* A hook, the validation, the provider or the database throws; an update  *)
(* finds no row; a ciphertext does not open.                               *)
Throws(c) ==
  /\ call[c] # None
  /\ call' = [call EXCEPT ![c] = None]
  /\ UNCHANGED <<table, inst>>

-----------------------------------------------------------------------------
(* updateBy() of one field where the key is k, and delete(k). *)

UpdateBy(k, f, x) ==
  /\ table[k] # None
  /\ table' = [table EXCEPT ![k] =
       [col |-> [@.col EXCEPT ![f] = IF x = Null THEN Null ELSE Encrypt(x, k)],
        bi  |-> [g \in Indexed |-> IF g = f THEN x ELSE @.bi[g]]]]
  /\ UNCHANGED <<inst, call>>

Delete(k) ==
  /\ table[k] # None
  /\ table' = [table EXCEPT ![k] = None]
  /\ UNCHANGED <<inst, call>>

-----------------------------------------------------------------------------
(* decryptField(); decryptLazyFields() calls it for every pending field. *)

(* A field the application has assigned meanwhile is left as it is.        *)
DropPending(h, f) ==
  /\ h \in Live
  /\ inst[h].pending[f] # Unset /\ inst[h].val[f] # inst[h].pending[f]
  /\ inst' = [inst EXCEPT ![h].pending[f] = Unset]
  /\ UNCHANGED <<table, call>>

(* The ciphertext and the key are read before the provider is awaited.     *)
DecryptField(c, h, f) ==
  /\ call[c] = None
  /\ h \in Live
  /\ inst[h].key # Unset
  /\ inst[h].pending[f] # Unset /\ inst[h].val[f] = inst[h].pending[f]
  /\ call' = [call EXCEPT ![c] =
       [op |-> "decrypt", of |-> h, field |-> f, ct |-> inst[h].pending[f], key |-> inst[h].key]]
  /\ UNCHANGED <<table, inst>>

(* The plaintext is written over whatever the field has by then.           *)
Decrypted(c) ==
  /\ call[c] # None /\ call[c].op = "decrypt"
  /\ LET d == call[c] IN
     /\ Opens(d.ct, d.key)
     /\ inst' = [inst EXCEPT ![d.of] = [@ EXCEPT !.val[d.field]     = d.ct.text,
                                                 !.pending[d.field] = Unset]]
  /\ call' = [call EXCEPT ![c] = None]
  /\ UNCHANGED table

-----------------------------------------------------------------------------

Next ==
  \/ \E h \in Handle, k \in Key, S \in SUBSET Field : Find(h, k, S)
  \/ \E h \in Handle, f \in Field, x \in Plain \cup {Null} : Assign(h, f, x)
  \/ \E h \in Handle : New(h) \/ Rekey(h) \/ Forget(h)
  \/ \E c \in Call, h \in Handle, k \in Key : Save(c, h, k)
  \/ \E c \in Call : EncryptMore(c) \/ WriteInsert(c) \/ WriteUpdate(c) \/ Decrypted(c) \/ Throws(c)
  \/ \E k \in Key, f \in Field, x \in Plain \cup {Null} : UpdateBy(k, f, x)
  \/ \E k \in Key : Delete(k)
  \/ \E h \in Handle, f \in Lazy : DropPending(h, f)
  \/ \E c \in Call, h \in Handle, f \in Lazy : DecryptField(c, h, f)

Spec == Init /\ [][Next]_vars

-----------------------------------------------------------------------------
(* Properties. *)

Writes(c) == ReadyToWrite(c) /\ (WriteInsert(c) \/ WriteUpdate(c))

(* A field that save() c copied as a ciphertext was decrypted, or given    *)
(* up, before the call was through: encryptEntity() may have taken the     *)
(* ciphertext for a text.                                                  *)
Overtaken(c, f) ==
  /\ call[c].copy[f] \in Cipher
  /\ inst[call[c].of].pending[f] # call[c].copy[f]

(* A text that is the bytes of a ciphertext, or a ciphertext of such a     *)
(* text, or of a row of another key.                                       *)
Misfit(x, k) == x = Garbled \/ (x \in Cipher /\ (~Opens(x, k) \/ x.text = Garbled))

Unreadable(k, f) == table[k] # None /\ Misfit(table[k].col[f], k)

(* A column is written that does not open under the key of its row, or     *)
(* that opens to the bytes of a ciphertext, only in a lazy field and only  *)
(* by a save() that was overtaken by a decryption of the field or that     *)
(* carries on what was no better when it was read; eager columns are       *)
(* readable always, whoever saves, decrypts, assigns, copies or deletes.   *)
RowsReadable ==
  [][\A k \in Key : table'[k] # table[k] =>
       \A f \in Field : Unreadable(k, f)' =>
         \/ Unreadable(k, f) /\ table'[k].col[f] = table[k].col[f]
         \/ /\ f \in Lazy
            /\ \E c \in Call : /\ Writes(c) /\ call[c].key = k
                               /\ Overtaken(c, f) \/ Misfit(call[c].copy[f], k)]_vars

(* save() c writes the ciphertext it copied over another one, or over      *)
(* nothing.                                                                *)
PutsBack(c, k, f) ==
  /\ call[c].copy[f] \in Cipher
  /\ call[c].data[f] = call[c].copy[f]
  /\ table[k] = None \/ table[k].col[f] # call[c].copy[f]

OutOfStep(k, f) == table[k] # None /\ table[k].bi[f] # Shown(table[k].col[f])

(* A lookup by a blind index finds the row by the text that is in it and   *)
(* by no other: column and index part only where a save() passes a lazy    *)
(* ciphertext as it was over a row that holds another one by now, and the  *)
(* next write of a text or of null brings them together again.             *)
IndexFaithful ==
  [][\A k \in Key : table'[k] # table[k] =>
       \A f \in Indexed : OutOfStep(k, f)' =>
         \/ /\ OutOfStep(k, f)
            /\ table'[k].col[f] = table[k].col[f] /\ table'[k].bi[f] = table[k].bi[f]
         \/ /\ f \in Lazy
            /\ \E c \in Call : Writes(c) /\ call[c].key = k /\ PutsBack(c, k, f)]_vars

(* What a save() leaves in a column is what the application had last said  *)
(* when the entity was copied, and nothing in a column of which it had     *)
(* said nothing, whatever is assigned, decrypted or saved meanwhile,       *)
(* unless the field was assigned while its decryption was under way, which *)
(* may write the old text over the new, or decrypted while it was saved.   *)
StoresWhatWasSaid ==
  [][\A c \in Call : Writes(c) =>
       LET s == call[c]
           k == s.key
       IN \A f \in Field :
            \/ f \in s.spoken.raced \/ Overtaken(c, f)
            \/ IF s.spoken.said[f] = Unset
                 THEN table'[k].col[f] = IF table[k] = None THEN Null ELSE table[k].col[f]
                 ELSE Shown(table'[k].col[f]) = s.spoken.said[f]]_vars

(* toJSON() throws while lazyPendingCiphertext has an entry for the        *)
(* entity: without one, it prints no ciphertext.                           *)
SafeToPrint ==
  \A h \in Live : (\A f \in Lazy : inst[h].pending[f] = Unset) =>
    \A f \in Field : inst[h].val[f] \notin Cipher
=============================================================================
