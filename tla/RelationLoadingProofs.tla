------------------------ MODULE RelationLoadingProofs ------------------------
(***************************************************************************)
(* What loading promises for any model, rows, chunk size and writes of     *)
(* other clients: one load gives a row one instance, afterFind fires once  *)
(* and last, and in the transaction of the call. IInv says where a call    *)
(* is: which levels of the path wait for their hooks (LevelsOK), who may   *)
(* hold an instance whose hook waits (HooksOK), how many contexts are open *)
(* (ContextOK), and that what is being loaded is apart from what is there  *)
(* (FetchedOK).                                                            *)
(*                                                                         *)
(* And what the readers of a declared model promise each other, for any    *)
(* classes and relations: what they look for in lists of classes is        *)
(* brought down to one set of declarations (Whole), where they can be      *)
(* compared.                                                               *)
(*                                                                         *)
(* And that a find() nobody writes beside ends with the whole graph: GInv  *)
(* says that every instance is a row that holds what is related to it      *)
(* (StoredOK), that the call is on the paths of every root (OnPath), the   *)
(* loaded ones complete (Trail), and what has been read of the relation    *)
(* that is being loaded (ReadOK).                                          *)
(***************************************************************************)
EXTENDS RelationLoading, FiniteSetTheorems, SequenceTheorems,
        WellFoundedInduction, TLAPS

Fields == {"cls", "key", "cols", "batch", "hooked", "via", "rel"}

CallFields ==
  {"phase", "kind", "roots", "todo", "outcome", "trx", "known", "outer", "ctx", "segs",
   "items", "above", "loads", "owners", "read", "values", "got", "pairs"}

(* An instance holds instances, is hooked at most once, and by nobody       *)
(* before that.                                                             *)
Instances(h) == h \in Seq(Items(h)) /\ \A i \in DOMAIN h : DOMAIN h[i] = Fields

HeapOK(m, h) ==
  /\ Instances(h)
  /\ \A i \in DOMAIN h :
       /\ h[i].cls \in DOMAIN m.of
       /\ DOMAIN h[i].rel = {r.prop : r \in Items(Relations(m, h[i].cls))}
       /\ h[i].hooked \in {0, 1}
       /\ h[i].hooked = 0 => h[i].via = {}
       /\ Held(m, h, i) \subseteq DOMAIN h

CallOK(o) ==
  /\ DOMAIN o = CallFields
  /\ o.phase \in {"path", "open", "links", "fetch", "unwind", "ended"}
  /\ o.kind \in {"find", "loadRelations"}
  /\ o.trx \in BOOLEAN /\ o.known \in BOOLEAN
  /\ o.todo \in Seq(Seq(STRING) \ {<<>>})
  /\ o.segs \in Seq(STRING)
  /\ o.loads \in Nat
  /\ o.above \in Seq(SUBSET Nat)

(* The levels of the path, from the roots to the owners of the relation     *)
(* that is to be loaded.                                                    *)
Level(o, n) == IF n = 0 THEN o.roots ELSE o.above[n]
Depths(o)   == 0..Len(o.above)
Loading(o)  == o.phase \in {"links", "fetch"}
Live(o)     == o.phase \notin {"idle", "ended"}

LevelsOK(o, h) ==
  /\ \A n \in Depths(o) : Level(o, n) \subseteq DOMAIN h
  /\ \A n \in Depths(o) : \A i, j \in Level(o, n) :
       h[i].cls = h[j].cls /\ (h[i].key = h[j].key => i = j)
  /\ \A k, n \in Depths(o) : k # n => Level(o, k) \cap Level(o, n) = {}
  /\ o.phase \in {"open", "links", "fetch"} =>
       o.segs # <<>> /\ o.items = Level(o, Len(o.above))
  /\ o.phase # "path" => o.roots # {}
  /\ o.phase = "path" => o.above = <<>>

(* loadRelations() is given single relations; it has no way back.           *)
KindOK(o) ==
  o.kind = "loadRelations" =>
    /\ o.above = <<>> /\ o.phase # "unwind"
    /\ \A n \in DOMAIN o.todo : Len(o.todo[n]) = 1
    /\ o.phase # "path" => Len(o.segs) = 1

(* A context for every level above, and for the one whose relation is being *)
(* loaded if it is not the last.                                            *)
Context(o, n) ==
  /\ o.ctx = IF o.kind = "find" /\ o.trx THEN n ELSE 0
  /\ o.ctx > 0 => o.known

Nested(o) == IF Len(o.segs) > 1 THEN 1 ELSE 0

ContextOK(o) == Context(o, Len(o.above) + (IF Loading(o) THEN Nested(o) ELSE 0))

(* What is being loaded is apart from what is there; no level has been      *)
(* hooked, and what holds an instance that is not is above it.              *)
FetchedOK(m, o, h) ==
  /\ o.items # {}
  /\ Current(m, o, h) \in Items(Relations(m, Class(o, h)))
  /\ o.got \subseteq DOMAIN h
  /\ \A x \in o.got :
       /\ h[x].cls = Current(m, o, h).target
       /\ h[x].batch = o.loads
       /\ o.kind = "find" => h[x].hooked = IF Deferred(o) THEN 0 ELSE 1
       /\ \A n \in Depths(o) : x \notin Level(o, n)
       /\ \A y \in o.got : h[x].key = h[y].key => x = y
  /\ \A p \in o.pairs : p[2] \in o.got

HooksOK(m, o, h) ==
  o.kind = "find" =>
    /\ \A n \in Depths(o) : \A i \in Level(o, n) : h[i].hooked = 0
    /\ \A i \in DOMAIN h : \A x \in Held(m, h, i) :
         \/ h[x].hooked = 1
         \/ \E k, n \in Depths(o) : k < n /\ i \in Level(o, k) /\ x \in Level(o, n)

(* One load, one batch.                                                     *)
BatchesOK(m, h, last) ==
  /\ \A i \in DOMAIN h : \A x \in Held(m, h, i) : h[x].batch \in Nat /\ h[x].batch <= last
  /\ \A i, j \in DOMAIN h :
       /\ \A x \in Held(m, h, i), y \in Held(m, h, j) :
            h[x].batch = h[y].batch /\ h[x].key = h[y].key => x = y
       /\ i # j /\ h[i].cls = h[j].cls => \A p \in DOMAIN h[i].rel :
            Relation(m, h[i].cls, p).type = "one-to-many" =>
              Targets(m, h, i, p) \cap Targets(m, h, j, p) = {}

LiveOK(m, o, h) ==
  /\ CallOK(o) /\ LevelsOK(o, h) /\ KindOK(o) /\ ContextOK(o) /\ HooksOK(m, o, h)
  /\ Loading(o) => FetchedOK(m, o, h) /\ BatchesOK(m, h, o.loads - 1)

Done(m, o, h) ==
  /\ o.roots \subseteq DOMAIN h
  /\ \A i \in o.roots : h[i].hooked = 1
  /\ \A i \in DOMAIN h : \A x \in Held(m, h, i) : h[x].hooked = 1

OpOK(m, o, h) ==
  /\ o.phase # "idle"
  /\ HeapOK(m, h)
  /\ o.loads \in Nat /\ BatchesOK(m, h, o.loads)
  /\ Live(o) => LiveOK(m, o, h)
  /\ ~ Live(o) /\ o.outcome = "ok" /\ o.kind = "find" => Done(m, o, h)

RowsOK(m, rs) ==
  /\ WellFormed(m)
  /\ DOMAIN m.of \subseteq DOMAIN rs
  /\ \A C \in DOMAIN rs : IsFiniteSet(DOMAIN rs[C])

IInv ==
  /\ RowsOK(model, rows)
  /\ IF op = Idle THEN heap = <<>> ELSE OpOK(model, op, heap)
---------------------------------------------------------------------------
(* What the functions on the heap return.                                   *)

(* A function on 1..n is a sequence.                                        *)
LEMMA IsSequence ==
  ASSUME NEW n \in Nat, NEW f, f = [i \in 1..n |-> f[i]]
  PROVE  f \in Seq(Items(f)) /\ Len(f) = n /\ DOMAIN f = 1..n
<1>1. DOMAIN f = 1..n
  OBVIOUS
<1>2. \A i \in 1..n : f[i] \in Items(f)
  BY <1>1 DEF Items
<1>3. f \in [1..n -> Items(f)]
  BY <1>2
<1>4. f \in Seq(Items(f))
  BY <1>3
<1>5. QED BY <1>1, <1>4

(* g is h after the hooks of I, which query through e.                      *)
IsHooked(h, g, I, e) ==
  /\ g \in Seq(Items(g)) /\ Len(g) = Len(h) /\ DOMAIN g = DOMAIN h
  /\ \A i \in DOMAIN h :
       /\ DOMAIN g[i] = Fields
       /\ g[i].cls = h[i].cls /\ g[i].key = h[i].key /\ g[i].cols = h[i].cols
       /\ g[i].batch = h[i].batch /\ g[i].rel = h[i].rel
       /\ i \in I => g[i].hooked = h[i].hooked + 1 /\ g[i].via = h[i].via \cup {e}
       /\ i \notin I => g[i] = h[i]

LEMMA NonEmpty ==
  ASSUME NEW S, NEW s \in Seq(S), Len(s) > 0
  PROVE  s # <<>>
OBVIOUS

LEMMA FunctionIsSequence ==
  ASSUME NEW S, NEW n \in Nat, NEW f \in [1..n -> S]
  PROVE  f \in Seq(S)
OBVIOUS

LEMMA OneElement ==
  ASSUME NEW S, NEW e \in S
  PROVE  <<e>> \in Seq(S)
OBVIOUS

LEMMA SequenceOfItems ==
  ASSUME NEW S, NEW s \in Seq(S)
  PROVE  s \in Seq(Items(s)) /\ DOMAIN s = 1..Len(s) /\ Len(s) \in Nat
<1>1. Len(s) \in Nat /\ s = [i \in 1..Len(s) |-> s[i]]
  OBVIOUS
<1> QED BY <1>1, IsSequence

(* callHooks('afterFind') touches two fields of those it is called for.     *)
LEMMA HookedShape ==
  ASSUME NEW h, NEW I, NEW o, Instances(h)
  PROVE  IsHooked(h, Hooked(h, I, o), I, Executor(o, FALSE))
<1> DEFINE g == Hooked(h, I, o)
           e == Executor(o, FALSE)
<1>1. DOMAIN h = 1..Len(h) /\ Len(h) \in Nat
  BY DEF Instances
<1>2. g = [i \in 1..Len(h) |->
             IF i \in I THEN [h[i] EXCEPT !.hooked = @ + 1, !.via = @ \cup {e}] ELSE h[i]]
  BY <1>1 DEF Hooked
<1> HIDE DEF e
<1>3. g = [i \in 1..Len(h) |-> g[i]]
  BY <1>2
<1> HIDE DEF g
<1>4. g \in Seq(Items(g)) /\ Len(g) = Len(h) /\ DOMAIN g = DOMAIN h
  BY <1>1, <1>3, IsSequence
<1>5. ASSUME NEW i \in DOMAIN h
      PROVE  /\ DOMAIN g[i] = Fields
             /\ g[i].cls = h[i].cls /\ g[i].key = h[i].key /\ g[i].cols = h[i].cols
             /\ g[i].batch = h[i].batch /\ g[i].rel = h[i].rel
             /\ i \in I => g[i].hooked = h[i].hooked + 1 /\ g[i].via = h[i].via \cup {e}
             /\ i \notin I => g[i] = h[i]
  <2>1. DOMAIN h[i] = Fields
    BY DEF Instances
  <2>2. CASE i \in I
    <3>1. g[i] = [h[i] EXCEPT !.hooked = @ + 1, !.via = @ \cup {e}]
      BY <1>1, <1>2, <2>2
    <3> QED BY <2>1, <2>2, <3>1 DEF Fields
  <2>3. CASE i \notin I
    BY <1>1, <1>2, <2>1, <2>3
  <2> QED BY <2>2, <2>3
<1> QED BY <1>4, <1>5 DEF IsHooked, e, g

(* SetToSeq() lists every element of a finite set once.                     *)
LEMMA Listed ==
  ASSUME NEW S, IsFiniteSet(S)
  PROVE  /\ Cardinality(S) \in Nat
         /\ SetToSeq(S) \in [1..Cardinality(S) -> S]
         /\ \A i, j \in 1..Cardinality(S) : SetToSeq(S)[i] = SetToSeq(S)[j] => i = j
         /\ \A k \in S : \E i \in 1..Cardinality(S) : SetToSeq(S)[i] = k
<1> DEFINE n == Cardinality(S)
           f == SetToSeq(S)
<1>1. n \in Nat /\ ExistsBijection(1..n, S)
  BY FS_CardinalityType
<1>2. \E g \in [1..n -> S] : IsInjective(g)
  BY <1>1 DEF ExistsBijection, Bijection, Injection
<1>3. f \in [1..n -> S] /\ IsInjective(f)
  BY <1>2 DEF SetToSeq
<1>4. Cardinality(1..n) = n
  BY <1>1, FS_Interval
<1>5. f \in Injection(1..n, S)
  <2> HIDE DEF f, n
  <2> QED BY <1>3 DEF Injection
<1>6. f \in Surjection(1..n, S)
  <2> HIDE DEF f
  <2> QED BY <1>4, <1>5, FS_Injection
<1> HIDE DEF f, n
<1>7. \A k \in S : \E i \in 1..n : f[i] = k
  BY <1>6 DEF Surjection
<1>8. \A i, j \in 1..n : f[i] = f[j] => i = j
  BY <1>3 DEF IsInjective
<1> QED BY <1>1, <1>3, <1>7, <1>8 DEF f, n

(* g is h with an instance for every row, nothing on it, hooked unless that *)
(* is deferred.                                                             *)
IsHydrated(h, g, C, keys, o, immediate) ==
  /\ g \in Seq(Items(g)) /\ Cardinality(keys) \in Nat
  /\ Len(g) = Len(h) + Cardinality(keys)
  /\ \A i \in DOMAIN h : g[i] = h[i]
  /\ \A i \in (Len(h) + 1)..Len(g) :
       /\ DOMAIN g[i] = Fields
       /\ g[i].cls = C /\ g[i].key \in keys
       /\ g[i].cols = rows[C][g[i].key] /\ g[i].batch = o.loads
       /\ g[i].rel = [p \in {r.prop : r \in Items(Relations(model, C))} |-> Unset]
       /\ g[i].hooked = IF immediate THEN 1 ELSE 0
       /\ g[i].via = IF immediate THEN {Executor(o, FALSE)} ELSE {}
  /\ \A i, j \in (Len(h) + 1)..Len(g) : g[i].key = g[j].key => i = j
  /\ \A k \in keys : \E i \in (Len(h) + 1)..Len(g) : g[i].key = k

(* hydrate() appends them.                                                  *)
LEMMA HydratedShape ==
  ASSUME NEW h, NEW C, NEW keys, NEW o, NEW immediate \in BOOLEAN,
         Instances(h), IsFiniteSet(keys)
  PROVE  IsHydrated(h, Hydrated(h, C, keys, o, immediate), C, keys, o, immediate)
<1> DEFINE k     == SetToSeq(keys)
           n     == Cardinality(keys)
           none  == [p \in {r.prop : r \in Items(Relations(model, C))} |-> Unset]
           fresh == [j \in DOMAIN k |-> Instance(C, k[j], rows[C][k[j]], o.loads)]
           long  == h \o fresh
           new   == (Len(h) + 1)..(Len(h) + Len(k))
           g     == Hydrated(h, C, keys, o, immediate)
<1>1. /\ n \in Nat /\ k \in [1..n -> keys]
      /\ \A i, j \in 1..n : k[i] = k[j] => i = j
      /\ \A e \in keys : \E i \in 1..n : k[i] = e
  BY Listed
<1> HIDE DEF k, n
<1>2. DOMAIN k = 1..n /\ Len(k) = n /\ k \in Seq(keys)
  BY <1>1
<1>3. fresh = [j \in 1..n |-> fresh[j]]
  BY <1>2
<1>4. fresh \in Seq(Items(fresh)) /\ Len(fresh) = n /\ DOMAIN fresh = 1..n
  <2> HIDE DEF fresh
  <2> QED BY <1>1, <1>3, IsSequence
<1>5. \A j \in 1..n :
        /\ DOMAIN fresh[j] = Fields
        /\ fresh[j].cls = C /\ fresh[j].key = k[j]
        /\ fresh[j].cols = rows[C][k[j]] /\ fresh[j].batch = o.loads
        /\ fresh[j].hooked = 0 /\ fresh[j].via = {} /\ fresh[j].rel = none
  BY <1>2 DEF Instance, Fields
<1> HIDE DEF fresh, none
<1>6. Len(h) \in Nat /\ DOMAIN h = 1..Len(h) /\ h \in Seq(Items(h))
      /\ \A i \in DOMAIN h : DOMAIN h[i] = Fields
  BY DEF Instances
<1>7. /\ long \in Seq(Items(h) \cup Items(fresh)) /\ Len(long) = Len(h) + n
      /\ DOMAIN long = 1..(Len(h) + n)
      /\ \A i \in DOMAIN h : long[i] = h[i]
      /\ \A i \in (Len(h) + 1)..(Len(h) + n) : long[i] = fresh[i - Len(h)]
  <2>1. h \in Seq(Items(h) \cup Items(fresh)) /\ fresh \in Seq(Items(h) \cup Items(fresh))
    BY <1>4, <1>6
  <2>2. long \in Seq(Items(h) \cup Items(fresh)) /\ Len(long) = Len(h) + n
    BY <1>1, <1>4, <2>1
  <2>3. DOMAIN long = 1..(Len(h) + n)
    BY <2>2
  <2>4. \A i \in DOMAIN h : long[i] = h[i]
    BY <1>1, <1>4, <1>6, <2>1
  <2>5. \A i \in (Len(h) + 1)..(Len(h) + n) : long[i] = fresh[i - Len(h)]
    BY <1>1, <1>4, <1>6, <2>1
  <2> QED BY <2>2, <2>3, <2>4, <2>5
<1> HIDE DEF long
<1>8. Instances(long)
  <2>1. long \in Seq(Items(long))
    BY <1>7, SequenceOfItems
  <2>2. ASSUME NEW i \in DOMAIN long PROVE DOMAIN long[i] = Fields
    <3>1. CASE i \in DOMAIN h
      BY <3>1, <1>6, <1>7
    <3>2. CASE i \notin DOMAIN h
      <4>1. i \in (Len(h) + 1)..(Len(h) + n) /\ i - Len(h) \in 1..n
        BY <3>2, <1>1, <1>6, <1>7
      <4> QED BY <4>1, <1>5, <1>7
    <3> QED BY <3>1, <3>2
  <2> QED BY <2>1, <2>2 DEF Instances
<1>9. g = IF immediate THEN Hooked(long, new, o) ELSE long
  BY DEF Hydrated, fresh, long, k
<1> HIDE DEF new, g
<1>10. /\ g \in Seq(Items(g)) /\ Len(g) = Len(h) + n /\ DOMAIN g = DOMAIN long
       /\ \A i \in DOMAIN long :
            /\ DOMAIN g[i] = Fields
            /\ g[i].cls = long[i].cls /\ g[i].key = long[i].key /\ g[i].cols = long[i].cols
            /\ g[i].batch = long[i].batch /\ g[i].rel = long[i].rel
            /\ immediate /\ i \in new => /\ g[i].hooked = long[i].hooked + 1
                                          /\ g[i].via = long[i].via \cup {Executor(o, FALSE)}
            /\ ~ (immediate /\ i \in new) => g[i] = long[i]
  <2>1. CASE immediate
    <3>1. IsHooked(long, g, new, Executor(o, FALSE))
      BY <2>1, <1>8, <1>9, HookedShape
    <3> QED BY <2>1, <3>1, <1>7 DEF IsHooked
  <2>2. CASE ~ immediate
    BY <2>2, <1>7, <1>8, <1>9 DEF Instances
  <2> QED BY <2>1, <2>2
<1>11. new = (Len(h) + 1)..Len(g) /\ new \subseteq DOMAIN long /\ new \cap DOMAIN h = {}
       /\ DOMAIN h \subseteq DOMAIN long
  BY <1>1, <1>2, <1>6, <1>7, <1>10 DEF new
<1>12. \A i \in DOMAIN h : g[i] = h[i]
  BY <1>7, <1>10, <1>11
<1>13. ASSUME NEW i \in new
       PROVE  /\ i - Len(h) \in 1..n /\ long[i] = fresh[i - Len(h)]
              /\ g[i].key = k[i - Len(h)] /\ g[i].key \in keys
              /\ DOMAIN g[i] = Fields /\ g[i].cls = C
              /\ g[i].cols = rows[C][g[i].key] /\ g[i].batch = o.loads
              /\ g[i].rel = none
              /\ g[i].hooked = IF immediate THEN 1 ELSE 0
              /\ g[i].via = IF immediate THEN {Executor(o, FALSE)} ELSE {}
  <2>1. i - Len(h) \in 1..n /\ long[i] = fresh[i - Len(h)]
    BY <1>1, <1>2, <1>6, <1>7 DEF new
  <2>2. i \in DOMAIN long
    BY <1>11
  <2>3. k[i - Len(h)] \in keys
    BY <2>1, <1>1
  <2>4. /\ long[i].cls = C /\ long[i].key = k[i - Len(h)]
        /\ long[i].cols = rows[C][k[i - Len(h)]] /\ long[i].batch = o.loads
        /\ long[i].hooked = 0 /\ long[i].via = {} /\ long[i].rel = none
    BY <2>1, <1>5
  <2>5. g[i].key = k[i - Len(h)] /\ DOMAIN g[i] = Fields /\ g[i].cls = C
        /\ g[i].cols = rows[C][k[i - Len(h)]] /\ g[i].batch = o.loads /\ g[i].rel = none
    BY <2>2, <2>4, <1>10
  <2>6. /\ g[i].hooked = IF immediate THEN 1 ELSE 0
        /\ g[i].via = IF immediate THEN {Executor(o, FALSE)} ELSE {}
    <3>1. CASE immediate
      <4>1. g[i].hooked = 0 + 1 /\ g[i].via = {} \cup {Executor(o, FALSE)}
        BY <2>2, <2>4, <3>1, <1>10
      <4>2. g[i].hooked = 1 /\ g[i].via = {Executor(o, FALSE)}
        BY <4>1
      <4> QED BY <3>1, <4>2
    <3>2. CASE ~ immediate
      BY <2>2, <2>4, <3>2, <1>10
    <3> QED BY <3>1, <3>2
  <2> QED BY <2>1, <2>3, <2>4, <2>5, <2>6
<1>14. \A i, j \in new : g[i].key = g[j].key => i = j
  BY <1>1, <1>6, <1>13 DEF new
<1>15. ASSUME NEW e \in keys PROVE \E i \in new : g[i].key = e
  <2>1. PICK j \in 1..n : k[j] = e
    BY <1>1
  <2>2. j + Len(h) \in new /\ (j + Len(h)) - Len(h) = j
    BY <1>1, <1>2, <1>6 DEF new
  <2> QED BY <2>1, <2>2, <1>13
<1>16. \A i \in new : g[i].rel = [p \in {r.prop : r \in Items(Relations(model, C))} |-> Unset]
  BY <1>13 DEF none
<1> QED BY <1>1, <1>10, <1>11, <1>12, <1>13, <1>14, <1>15, <1>16 DEF g, n, IsHydrated

(* g is h with relation p of the instances I assigned.                      *)
IsAssigned(h, g, I, p) ==
  /\ Instances(g) /\ Len(g) = Len(h) /\ DOMAIN g = DOMAIN h
  /\ \A i \in DOMAIN h :
       /\ g[i].cls = h[i].cls /\ g[i].key = h[i].key /\ g[i].cols = h[i].cols
       /\ g[i].batch = h[i].batch /\ g[i].hooked = h[i].hooked /\ g[i].via = h[i].via
       /\ DOMAIN g[i].rel = DOMAIN h[i].rel
       /\ i \notin I => g[i].rel = h[i].rel
       /\ \A q \in DOMAIN h[i].rel : q # p => g[i].rel[q] = h[i].rel[q]

LEMMA AssignedShape ==
  ASSUME NEW h, NEW o, NEW r, Instances(h),
         \A i \in o.items : i \in DOMAIN h /\ r.prop \in DOMAIN h[i].rel
  PROVE  /\ IsAssigned(h, Assigned(o, h, r), o.items, r.prop)
         /\ \A i \in o.items : Assigned(o, h, r)[i].rel[r.prop] = Loaded(o, h, r, i)
<1> DEFINE g == Assigned(o, h, r)
           V == [i \in DOMAIN h |-> Loaded(o, h, r, i)]
<1>1. DOMAIN h = 1..Len(h) /\ Len(h) \in Nat /\ \A i \in DOMAIN h : DOMAIN h[i] = Fields
  BY DEF Instances
<1>2. g = [i \in 1..Len(h) |->
             IF i \in o.items THEN [h[i] EXCEPT !.rel[r.prop] = V[i]] ELSE h[i]]
  BY <1>1 DEF Assigned
<1>3. \A i \in o.items : V[i] = Loaded(o, h, r, i)
  OBVIOUS
<1>4. g = [i \in 1..Len(h) |-> g[i]]
  BY <1>2
<1> HIDE DEF g, V
<1>5. g \in Seq(Items(g)) /\ Len(g) = Len(h) /\ DOMAIN g = DOMAIN h
  BY <1>1, <1>4, IsSequence
<1>6. ASSUME NEW i \in DOMAIN h
      PROVE  /\ DOMAIN g[i] = Fields
             /\ g[i].cls = h[i].cls /\ g[i].key = h[i].key /\ g[i].cols = h[i].cols
             /\ g[i].batch = h[i].batch /\ g[i].hooked = h[i].hooked /\ g[i].via = h[i].via
             /\ DOMAIN g[i].rel = DOMAIN h[i].rel
             /\ i \notin o.items => g[i].rel = h[i].rel
             /\ i \in o.items => g[i].rel[r.prop] = V[i]
             /\ \A q \in DOMAIN h[i].rel : q # r.prop => g[i].rel[q] = h[i].rel[q]
  <2>1. DOMAIN h[i] = Fields
    BY <1>1
  <2>2. CASE i \in o.items
    <3>1. g[i] = [h[i] EXCEPT !.rel[r.prop] = V[i]]
      BY <1>1, <1>2, <2>2
    <3>2. g[i] = [h[i] EXCEPT !.rel = [h[i].rel EXCEPT ![r.prop] = V[i]]]
      BY <2>1, <3>1 DEF Fields
    <3>3. r.prop \in DOMAIN h[i].rel
      BY <2>2
    <3> DEFINE v == [h[i].rel EXCEPT ![r.prop] = V[i]]
    <3>4. DOMAIN v = DOMAIN h[i].rel /\ v[r.prop] = V[i]
          /\ \A q \in DOMAIN h[i].rel : q # r.prop => v[q] = h[i].rel[q]
      BY <3>3
    <3>5. g[i] = [h[i] EXCEPT !.rel = v]
      BY <3>2
    <3> HIDE DEF v
    <3>6. /\ DOMAIN g[i] = Fields /\ g[i].rel = v
          /\ g[i].cls = h[i].cls /\ g[i].key = h[i].key /\ g[i].cols = h[i].cols
          /\ g[i].batch = h[i].batch /\ g[i].hooked = h[i].hooked /\ g[i].via = h[i].via
      BY <2>1, <3>5 DEF Fields
    <3> QED BY <2>2, <3>4, <3>6
  <2>3. CASE i \notin o.items
    <3>1. g[i] = h[i]
      BY <1>1, <1>2, <2>3
    <3> QED BY <2>1, <2>3, <3>1
  <2> QED BY <2>2, <2>3
<1>7. Instances(g)
  BY <1>5, <1>6 DEF Instances
<1>8. IsAssigned(h, g, o.items, r.prop)
  BY <1>5, <1>6, <1>7 DEF IsAssigned
<1>9. \A i \in o.items : g[i].rel[r.prop] = Loaded(o, h, r, i)
  BY <1>3, <1>6
<1> QED BY <1>8, <1>9 DEF g

(* A relation that is found is one of the class, of that name.              *)
LEMMA FoundRelation ==
  ASSUME NEW m, WellFormed(m), NEW C \in DOMAIN m.of, NEW p, Relation(m, C, p) # Unset
  PROVE  /\ Relation(m, C, p) \in Items(Relations(m, C))
         /\ Relation(m, C, p).prop = p
         /\ Relation(m, C, p).target \in DOMAIN m.of
<1> DEFINE places == {j \in DOMAIN Relations(m, C) : Relations(m, C)[j].prop = p}
<1>1. places # {}
  BY DEF Relation
<1>2. \A j, k \in places : j = k
  BY DEF WellFormed
<1>3. DOMAIN Relations(m, C) \subseteq Nat
  BY DEF WellFormed
<1>4. \E j \in places : \A k \in places : j <= k
  BY <1>1, <1>2, <1>3
<1>5. PICK j \in places : Relation(m, C, p) = Relations(m, C)[j]
  BY <1>1, <1>4 DEF Relation
<1>6. Relation(m, C, p) \in Items(Relations(m, C)) /\ Relation(m, C, p).prop = p
  BY <1>5 DEF Items
<1> QED BY <1>6 DEF WellFormed

(* What an instance holds depends on its class and its relations only.      *)
LEMMA SameTargets ==
  ASSUME NEW m, NEW h, NEW g, NEW i, NEW p,
         g[i].cls = h[i].cls, g[i].rel[p] = h[i].rel[p]
  PROVE  Targets(m, g, i, p) = Targets(m, h, i, p)
BY DEF Targets

LEMMA SameHeld ==
  ASSUME NEW m, NEW h, NEW g, NEW i, g[i].cls = h[i].cls, g[i].rel = h[i].rel
  PROVE  Held(m, g, i) = Held(m, h, i) /\ \A p : Targets(m, g, i, p) = Targets(m, h, i, p)
<1>1. \A p : Targets(m, g, i, p) = Targets(m, h, i, p)
  BY SameTargets
<1> QED BY <1>1 DEF Held

LEMMA HeldNothing ==
  ASSUME NEW m, NEW h, NEW i, \A p \in DOMAIN h[i].rel : h[i].rel[p] = Unset
  PROVE  Held(m, h, i) = {} /\ \A p \in DOMAIN h[i].rel : Targets(m, h, i, p) = {}
<1>1. \A p \in DOMAIN h[i].rel : Targets(m, h, i, p) = {}
  BY DEF Targets
<1> QED BY <1>1 DEF Held

(* What a load of relation r hands to its owners.                           *)
Delivers(o, r) == IF r.type = "many-to-many" THEN {q[2] : q \in o.pairs} ELSE o.got

IsLoaded(m, o, h, g, r, i) ==
  Relation(m, g[i].cls, r.prop) = r /\ g[i].rel[r.prop] = Loaded(o, h, r, i)

LEMMA LoadedTargets ==
  ASSUME NEW m, NEW h, NEW g, NEW o, NEW r, NEW i,
         IsLoaded(m, o, h, g, r, i)
  PROVE  Targets(m, g, i, r.prop) \subseteq Delivers(o, r)
<1> DEFINE v == g[i].rel[r.prop]
<1>1. CASE r.type = "one-to-many"
  <2>1. v = {y \in o.got : ValueOf(h, y, r.joinColumn) = h[i].key}
    BY <1>1 DEF Loaded, IsLoaded
  <2>2. Targets(m, g, i, r.prop) \subseteq v
    BY <1>1 DEF Targets, Many, IsLoaded
  <2> QED BY <1>1, <2>1, <2>2 DEF Delivers
<1>2. CASE r.type = "many-to-many"
  <2>1. v = {q[2] : q \in {q \in o.pairs : q[1] = h[i].key}}
    BY <1>2 DEF Loaded, IsLoaded
  <2>2. Targets(m, g, i, r.prop) \subseteq v
    BY <1>2 DEF Targets, Many, IsLoaded
  <2>3. v \subseteq {q[2] : q \in o.pairs}
    BY <2>1
  <2> QED BY <1>2, <2>2, <2>3 DEF Delivers
<1>3. CASE r.type \notin {"one-to-many", "many-to-many"}
  <2> DEFINE one == {y \in o.got : h[y].key = ValueOf(h, i, r.joinColumn)}
  <2>1. v = IF one = {} THEN Null ELSE CHOOSE y \in one : TRUE
    BY <1>3 DEF Loaded, IsLoaded
  <2>2. v = Null \/ v \in o.got
    BY <2>1
  <2>3. Targets(m, g, i, r.prop) = IF v \in {Unset, Null} THEN {} ELSE {v}
    BY <1>3 DEF Targets, Many, IsLoaded
  <2> QED BY <1>3, <2>2, <2>3 DEF Delivers
<1> QED BY <1>1, <1>2, <1>3

LEMMA LoadedByColumn ==
  ASSUME NEW m, NEW h, NEW g, NEW o, NEW r, NEW i,
         IsLoaded(m, o, h, g, r, i),
         r.type = "one-to-many", NEW y \in Targets(m, g, i, r.prop)
  PROVE  ValueOf(h, y, r.joinColumn) = h[i].key
<1> DEFINE v == g[i].rel[r.prop]
<1>1. v = {z \in o.got : ValueOf(h, z, r.joinColumn) = h[i].key}
  BY DEF Loaded, IsLoaded
<1>2. Targets(m, g, i, r.prop) \subseteq v
  BY DEF Targets, Many, IsLoaded
<1> QED BY <1>1, <1>2
---------------------------------------------------------------------------
(* A call whose queries so far have been answered: what Proceed() is given. *)
Ready(m, o, h) ==
  /\ o.phase \in {"open", "links", "fetch"}
  /\ HeapOK(m, h) /\ CallOK(o) /\ LevelsOK(o, h) /\ KindOK(o) /\ HooksOK(m, o, h)
  /\ FetchedOK(m, o, h) /\ BatchesOK(m, h, o.loads - 1)
  /\ Context(o, Len(o.above) + Nested(o))

(* The fields of a call that say where it is.                               *)
SamePlace(o, q) ==
  /\ DOMAIN q = CallFields
  /\ q.kind = o.kind /\ q.roots = o.roots /\ q.trx = o.trx /\ q.known = o.known
  /\ q.outer = o.outer /\ q.ctx = o.ctx /\ q.segs = o.segs /\ q.items = o.items
  /\ q.above = o.above /\ q.loads = o.loads /\ q.todo = o.todo

LEMMA SamePlaceFacts ==
  ASSUME NEW o, NEW q, SamePlace(o, q), NEW m, NEW h
  PROVE  /\ Depths(q) = Depths(o) /\ \A n : Level(q, n) = Level(o, n)
         /\ Class(q, h) = Class(o, h) /\ Current(m, q, h) = Current(m, o, h)
         /\ Deferred(q) = Deferred(o) /\ Nested(q) = Nested(o)
         /\ HooksOK(m, o, h) => HooksOK(m, q, h)
         /\ \A n : Context(o, n) => Context(q, n)
         /\ q.phase \in {"open", "links", "fetch"} /\ o.phase \in {"open", "links", "fetch"} =>
              /\ LevelsOK(o, h) => LevelsOK(q, h)
              /\ KindOK(o) => KindOK(q)
              /\ CallOK(o) => CallOK(q)
              /\ FetchedOK(m, o, h) /\ q.got = o.got /\ (\A p \in q.pairs : p[2] \in q.got) =>
                   FetchedOK(m, q, h)
<1>1. Depths(q) = Depths(o) /\ \A n : Level(q, n) = Level(o, n)
  BY DEF SamePlace, Depths, Level
<1>2. Class(q, h) = Class(o, h) /\ Current(m, q, h) = Current(m, o, h)
  BY DEF SamePlace, Class, Current
<1>3. Deferred(q) = Deferred(o) /\ Nested(q) = Nested(o)
  BY DEF SamePlace, Deferred, Nested
<1>4. HooksOK(m, o, h) => HooksOK(m, q, h)
  BY <1>1 DEF HooksOK, SamePlace
<1>5. \A n : Context(o, n) => Context(q, n)
  BY DEF Context, SamePlace
<1>6. ASSUME q.phase \in {"open", "links", "fetch"}, o.phase \in {"open", "links", "fetch"}
      PROVE  /\ LevelsOK(o, h) => LevelsOK(q, h)
             /\ KindOK(o) => KindOK(q)
             /\ CallOK(o) => CallOK(q)
             /\ FetchedOK(m, o, h) /\ q.got = o.got /\ (\A p \in q.pairs : p[2] \in q.got) =>
                  FetchedOK(m, q, h)
  <2>1. LevelsOK(o, h) => LevelsOK(q, h)
    BY <1>1, <1>6 DEF LevelsOK, SamePlace
  <2>2. KindOK(o) => KindOK(q)
    BY <1>6 DEF KindOK, SamePlace
  <2>3. CallOK(o) => CallOK(q)
    BY <1>6 DEF CallOK, SamePlace
  <2>4. FetchedOK(m, o, h) /\ q.got = o.got /\ (\A p \in q.pairs : p[2] \in q.got) =>
          FetchedOK(m, q, h)
    BY <1>1, <1>2, <1>3 DEF FetchedOK, SamePlace
  <2> QED BY <2>1, <2>2, <2>3, <2>4
<1> QED BY <1>1, <1>2, <1>3, <1>4, <1>5, <1>6

(* Nothing but relations of the instances I changes on what is there.       *)
OnlyAssigns(h, g, I) ==
  \A i \in DOMAIN h :
    /\ i \in DOMAIN g /\ g[i].hooked = h[i].hooked /\ g[i].via = h[i].via
    /\ g[i].rel # h[i].rel => i \in I

LEMMA BatchesLater ==
  ASSUME NEW m, NEW h, NEW n \in Int, NEW k \in Int, n <= k, BatchesOK(m, h, n)
  PROVE  BatchesOK(m, h, k)
BY DEF BatchesOK

(* The assignment: the owners hold what was delivered besides what they had *)
(* from other relations.                                                    *)
LEMMA AssignStep ==
  ASSUME NEW m, WellFormed(m), NEW o, NEW h, Ready(m, o, h),
         NEW r, r = Current(m, o, h), NEW g, g = Assigned(o, h, r)
  PROVE  /\ IsAssigned(h, g, o.items, r.prop)
         /\ Delivers(o, r) \subseteq o.got
         /\ \A i \in DOMAIN h : Held(m, g, i) \subseteq
              Held(m, h, i) \cup (IF i \in o.items THEN Delivers(o, r) ELSE {})
         /\ HeapOK(m, g) /\ BatchesOK(m, g, o.loads)
<1> DEFINE C == Class(o, h)
           T == Delivers(o, r)
<1>1. /\ o.items \subseteq DOMAIN h /\ \A i \in o.items : h[i].cls = C
      /\ \A i, j \in o.items : h[i].key = h[j].key => i = j
  <2>1. o.items = Level(o, Len(o.above)) /\ Len(o.above) \in Depths(o) /\ o.items # {}
    BY DEF Ready, LevelsOK, CallOK, Depths, FetchedOK
  <2>2. PICK j \in o.items : C = h[j].cls
    BY <2>1 DEF Class
  <2> QED BY <2>1, <2>2 DEF Ready, LevelsOK
<1>2. r \in Items(Relations(m, C)) /\ o.items # {}
  BY DEF Ready, FetchedOK
<1>3. C \in DOMAIN m.of
  BY <1>1, <1>2 DEF Ready, HeapOK
<1>4. Relation(m, C, r.prop) = r
  <2>1. PICK j \in DOMAIN Relations(m, C) : r = Relations(m, C)[j]
    BY <1>2 DEF Items
  <2>2. \A k \in DOMAIN Relations(m, C) : Relations(m, C)[k].prop = r.prop => k = j
    BY <1>3, <2>1 DEF WellFormed
  <2>3. {k \in DOMAIN Relations(m, C) : Relations(m, C)[k].prop = r.prop} = {j}
    BY <2>1, <2>2
  <2>4. DOMAIN Relations(m, C) \subseteq Nat
    BY <1>3 DEF WellFormed
  <2>5. (CHOOSE i \in {j} : \A k \in {j} : i <= k) = j
    BY <2>4
  <2> QED BY <2>1, <2>3, <2>5 DEF Relation
<1>5. \A i \in o.items : i \in DOMAIN h /\ r.prop \in DOMAIN h[i].rel
  BY <1>1, <1>2 DEF Ready, HeapOK
<1>6. /\ IsAssigned(h, g, o.items, r.prop)
      /\ \A i \in o.items : g[i].rel[r.prop] = Loaded(o, h, r, i)
  BY <1>5, AssignedShape DEF Ready, HeapOK
<1> HIDE DEF C, T
<1>7. T \subseteq o.got
  BY DEF T, Delivers, Ready, FetchedOK
<1>8. ASSUME NEW i \in o.items
      PROVE  /\ Targets(m, g, i, r.prop) \subseteq T
             /\ r.type = "one-to-many" => \A y \in Targets(m, g, i, r.prop) :
                  ValueOf(h, y, r.joinColumn) = h[i].key
  <2>1. g[i].cls = C
    BY <1>1, <1>6 DEF IsAssigned
  <2>2. IsLoaded(m, o, h, g, r, i)
    BY <2>1, <1>4, <1>6 DEF IsLoaded
  <2>3. Targets(m, g, i, r.prop) \subseteq Delivers(o, r)
    BY <2>2, LoadedTargets
  <2>4. ASSUME r.type = "one-to-many", NEW y \in Targets(m, g, i, r.prop)
        PROVE  ValueOf(h, y, r.joinColumn) = h[i].key
    BY <2>2, <2>4, LoadedByColumn
  <2> QED BY <2>3, <2>4 DEF T
<1>9. ASSUME NEW i \in DOMAIN h, NEW p \in DOMAIN h[i].rel, i \notin o.items \/ p # r.prop
      PROVE  Targets(m, g, i, p) = Targets(m, h, i, p)
  BY <1>6, <1>9, SameTargets DEF IsAssigned
<1>10. ASSUME NEW i \in DOMAIN h
       PROVE  Held(m, g, i) \subseteq Held(m, h, i) \cup (IF i \in o.items THEN T ELSE {})
  <2>1. DOMAIN g[i].rel = DOMAIN h[i].rel
    BY <1>6 DEF IsAssigned
  <2>2. ASSUME NEW p \in DOMAIN h[i].rel
        PROVE  Targets(m, g, i, p) \subseteq
                 Held(m, h, i) \cup (IF i \in o.items THEN T ELSE {})
    <3>1. CASE i \in o.items /\ p = r.prop
      BY <3>1, <1>8
    <3>2. CASE i \notin o.items \/ p # r.prop
      BY <3>2, <1>9 DEF Held
    <3> QED BY <3>1, <3>2
  <2> QED BY <2>1, <2>2 DEF Held
<1>11. HeapOK(m, g)
  <2>1. /\ Instances(g) /\ DOMAIN g = DOMAIN h
        /\ \A i \in DOMAIN h : /\ g[i].cls = h[i].cls /\ g[i].hooked = h[i].hooked
                               /\ g[i].via = h[i].via /\ DOMAIN g[i].rel = DOMAIN h[i].rel
    BY <1>6 DEF IsAssigned
  <2>2. o.got \subseteq DOMAIN h
    BY DEF Ready, FetchedOK
  <2>3. \A i \in DOMAIN h : Held(m, h, i) \subseteq DOMAIN h
    BY DEF Ready, HeapOK
  <2>4. \A i \in DOMAIN h : Held(m, g, i) \subseteq DOMAIN h
    BY <2>2, <2>3, <1>7, <1>10
  <2> QED BY <2>1, <2>4 DEF Ready, HeapOK
<1>12. BatchesOK(m, g, o.loads)
  <2>1. DOMAIN g = DOMAIN h /\ o.loads \in Nat
    BY <1>6 DEF IsAssigned, Ready, CallOK
  <2>2. \A i \in DOMAIN h : /\ g[i].batch = h[i].batch /\ g[i].key = h[i].key
                            /\ g[i].cls = h[i].cls /\ DOMAIN g[i].rel = DOMAIN h[i].rel
    BY <1>6 DEF IsAssigned
  <2>3. \A y \in o.got : y \in DOMAIN h /\ h[y].batch = o.loads
                          /\ \A z \in o.got : h[y].key = h[z].key => y = z
    BY DEF Ready, FetchedOK
  <2>4. /\ \A i \in DOMAIN h : Held(m, h, i) \subseteq DOMAIN h
        /\ \A i \in DOMAIN h : \A y \in Held(m, h, i) :
             h[y].batch \in Nat /\ h[y].batch <= o.loads - 1
        /\ \A i, j \in DOMAIN h : \A y \in Held(m, h, i), z \in Held(m, h, j) :
             h[y].batch = h[z].batch /\ h[y].key = h[z].key => y = z
    BY DEF Ready, HeapOK, BatchesOK
  <2>5. ASSUME NEW i \in DOMAIN g, NEW y \in Held(m, g, i)
        PROVE  /\ y \in DOMAIN h
               /\ y \in Held(m, h, i) \/ y \in o.got
    BY <2>1, <2>3, <2>4, <1>7, <1>10
  <2>6. \A i \in DOMAIN g : \A y \in Held(m, g, i) : g[y].batch \in Nat /\ g[y].batch <= o.loads
    BY <2>1, <2>2, <2>3, <2>4, <2>5
  <2>7. ASSUME NEW i \in DOMAIN g, NEW j \in DOMAIN g,
               NEW y \in Held(m, g, i), NEW z \in Held(m, g, j),
               g[y].batch = g[z].batch, g[y].key = g[z].key
        PROVE  y = z
    <3>1. h[y].batch = h[z].batch /\ h[y].key = h[z].key
      BY <2>2, <2>5, <2>7
    <3>2. CASE y \in o.got /\ z \in o.got
      BY <3>1, <3>2, <2>3
    <3>3. CASE y \in Held(m, h, i) /\ z \in Held(m, h, j)
      BY <3>1, <3>3, <2>1, <2>4
    <3>4. CASE y \in Held(m, h, i) /\ z \in o.got
      BY <3>1, <3>4, <2>1, <2>3, <2>4
    <3>5. CASE y \in o.got /\ z \in Held(m, h, j)
      BY <3>1, <3>5, <2>1, <2>3, <2>4
    <3> QED BY <3>2, <3>3, <3>4, <3>5, <2>5
  <2>8. ASSUME NEW i \in DOMAIN g, NEW j \in DOMAIN g, i # j, g[i].cls = g[j].cls,
               NEW p \in DOMAIN g[i].rel, Relation(m, g[i].cls, p).type = "one-to-many",
               NEW y \in Targets(m, g, i, p) \cap Targets(m, g, j, p)
        PROVE  FALSE
    <3>1. /\ h[i].cls = h[j].cls /\ g[i].cls = h[i].cls /\ p \in DOMAIN h[i].rel
          /\ p \in DOMAIN h[j].rel /\ i \in DOMAIN h /\ j \in DOMAIN h
      <4>1. /\ h[i].cls = h[j].cls /\ g[i].cls = h[i].cls /\ p \in DOMAIN h[i].rel
            /\ i \in DOMAIN h /\ j \in DOMAIN h
        BY <2>1, <2>2, <2>8
      <4> QED BY <4>1 DEF Ready, HeapOK
    <3>2. ASSUME NEW k \in DOMAIN h, p \in DOMAIN h[k].rel, y \in Targets(m, h, k, p)
          PROVE  y \notin o.got
      <4>1. y \in Held(m, h, k)
        BY <3>2 DEF Held
      <4> QED BY <4>1, <2>1, <2>3, <2>4
    <3>3. CASE p = r.prop /\ i \in o.items /\ j \in o.items
      <4>1. r.type = "one-to-many"
        BY <3>1, <3>3, <1>1, <1>4, <2>8
      <4>2. h[i].key = h[j].key
        BY <4>1, <3>3, <1>8, <2>8
      <4> QED BY <4>2, <3>3, <1>1, <2>8
    <3>4. CASE p = r.prop /\ i \in o.items /\ j \notin o.items
      <4>1. y \in o.got
        BY <3>4, <1>7, <1>8
      <4>2. y \in Targets(m, h, j, p)
        BY <3>1, <3>4, <1>9
      <4> QED BY <4>1, <4>2, <3>1, <3>2
    <3>5. CASE p = r.prop /\ i \notin o.items /\ j \in o.items
      <4>1. y \in o.got
        BY <3>5, <1>7, <1>8
      <4>2. y \in Targets(m, h, i, p)
        BY <3>1, <3>5, <1>9
      <4> QED BY <4>1, <4>2, <3>1, <3>2
    <3>6. CASE p # r.prop \/ (i \notin o.items /\ j \notin o.items)
      <4>1. y \in Targets(m, h, i, p) \cap Targets(m, h, j, p)
        BY <3>1, <3>6, <1>9
      <4> QED BY <4>1, <3>1, <2>8 DEF Ready, BatchesOK
    <3> QED BY <3>3, <3>4, <3>5, <3>6
  <2> QED BY <2>6, <2>7, <2>8 DEF BatchesOK
<1> QED BY <1>6, <1>7, <1>10, <1>11, <1>12 DEF T

(* Holding more of what was delivered: every instance that is held is       *)
(* hooked, or a level below what holds it.                                  *)
LEMMA AssignedHooks ==
  ASSUME NEW m, WellFormed(m), NEW o, NEW h, Ready(m, o, h), o.kind = "find",
         NEW r, r = Current(m, o, h), NEW g, g = Assigned(o, h, r),
         NEW i \in DOMAIN h, NEW y \in Held(m, g, i)
  PROVE  \/ g[y].hooked = 1
         \/ \E k, n \in Depths(o) : k < n /\ i \in Level(o, k) /\ y \in Level(o, n)
         \/ i \in Level(o, Len(o.above)) /\ y \in Delivers(o, r) /\ Nested(o) = 1
<1>1. /\ IsAssigned(h, g, o.items, r.prop) /\ Delivers(o, r) \subseteq o.got
      /\ Held(m, g, i) \subseteq Held(m, h, i) \cup (IF i \in o.items THEN Delivers(o, r) ELSE {})
  BY AssignStep
<1>2. o.items = Level(o, Len(o.above))
  BY DEF Ready, LevelsOK
<1>3. CASE y \in Held(m, h, i)
  <2>1. y \in DOMAIN h
    BY <1>3 DEF Ready, HeapOK
  <2>2. g[y].hooked = h[y].hooked
    BY <1>1, <2>1 DEF IsAssigned
  <2> QED BY <1>3, <2>2 DEF Ready, HooksOK
<1>4. CASE y \notin Held(m, h, i)
  <2>1. i \in o.items /\ y \in Delivers(o, r) /\ y \in o.got
    BY <1>1, <1>4
  <2>2. y \in DOMAIN h /\ h[y].hooked = IF Deferred(o) THEN 0 ELSE 1
    BY <2>1 DEF Ready, FetchedOK
  <2>3. g[y].hooked = h[y].hooked
    BY <1>1, <2>2 DEF IsAssigned
  <2>4. Deferred(o) => Nested(o) = 1
    BY DEF Deferred, Nested
  <2> QED BY <1>2, <2>1, <2>2, <2>3, <2>4
<1> QED BY <1>3, <1>4

(* After the assignment: the next path, the next level or the way back.     *)
(* The targets T of the relation just loaded, as the next level of call o   *)
(* in heap g.                                                               *)
Handed(m, o, g, T) ==
  /\ o.phase \in {"open", "links", "fetch"}
  /\ CallOK(o) /\ LevelsOK(o, g) /\ KindOK(o)
  /\ Context(o, Len(o.above) + Nested(o))
  /\ HeapOK(m, g) /\ BatchesOK(m, g, o.loads)
  /\ T \subseteq DOMAIN g
  /\ \A i, j \in T :
       /\ g[i].cls = g[j].cls /\ (g[i].key = g[j].key => i = j)
       /\ \A n \in Depths(o) : i \notin Level(o, n)
  /\ o.kind = "find" =>
       /\ Deferred(o) => \A i \in T : g[i].hooked = 0
       /\ \A n \in Depths(o) : \A i \in Level(o, n) : g[i].hooked = 0
       /\ \A i \in DOMAIN g : \A y \in Held(m, g, i) :
            \/ g[y].hooked = 1
            \/ \E k, n \in Depths(o) : k < n /\ i \in Level(o, k) /\ y \in Level(o, n)
            \/ i \in Level(o, Len(o.above)) /\ y \in T /\ Nested(o) = 1

LEMMA DescendCall ==
  ASSUME NEW m, NEW o, NEW g, NEW T, Handed(m, o, g, T)
  PROVE  OpOK(m, Descend(o, T), g) /\ Live(Descend(o, T))
<1> DEFINE q == Descend(o, T)
<1>1. HeapOK(m, g) /\ BatchesOK(m, g, o.loads)
  BY DEF Handed
<1>2. ASSUME o.kind = "find", NEW i \in DOMAIN g, NEW y \in Held(m, g, i)
      PROVE  \/ g[y].hooked = 1
             \/ \E k, n \in Depths(o) : k < n /\ i \in Level(o, k) /\ y \in Level(o, n)
             \/ i \in Level(o, Len(o.above)) /\ y \in T /\ Nested(o) = 1
  BY <1>2 DEF Handed
<1>4. /\ CallOK(o) /\ LevelsOK(o, g) /\ KindOK(o)
      /\ Context(o, Len(o.above) + Nested(o)) /\ o.phase \in {"open", "links", "fetch"}
  BY DEF Handed
<1>6. DOMAIN o = CallFields /\ o.loads \in Nat /\ Len(o.above) \in Nat
      /\ o.above \in Seq(SUBSET Nat) /\ o.segs \in Seq(STRING) /\ o.segs # <<>>
      /\ o.roots # {}
  BY <1>4 DEF CallOK, LevelsOK
<1>7. \A n \in Depths(o) : \A i, j \in Level(o, n) :
        /\ i \in DOMAIN g
        /\ g[i].cls = g[j].cls /\ (g[i].key = g[j].key => i = j)
        /\ o.kind = "find" => g[i].hooked = 0
  BY <1>4 DEF LevelsOK, Handed
<1>8. CASE o.kind = "loadRelations"
  <2>1. q = [o EXCEPT !.phase = "path"]
    BY <1>8 DEF Descend
  <2>2. SamePlace(o, q) /\ q.phase = "path" /\ DOMAIN q = CallFields
    BY <1>6, <2>1 DEF SamePlace, CallFields
  <2>3. o.above = <<>> /\ \A n \in DOMAIN o.todo : Len(o.todo[n]) = 1
    BY <1>4, <1>8 DEF KindOK
  <2>4. Depths(q) = Depths(o) /\ \A n : Level(q, n) = Level(o, n)
    BY <2>2, SamePlaceFacts
  <2>5. CallOK(q)
    BY <1>4, <2>2 DEF CallOK, SamePlace
  <2>6. LevelsOK(q, g)
    BY <1>4, <1>7, <2>2, <2>3, <2>4 DEF LevelsOK, SamePlace
  <2>7. KindOK(q)
    BY <2>2, <2>3 DEF KindOK, SamePlace
  <2>8. ContextOK(q)
    BY <1>4, <1>8, <2>2 DEF ContextOK, Context, SamePlace
  <2>9. HooksOK(m, q, g)
    BY <1>8, <2>2 DEF HooksOK, SamePlace
  <2>10. Live(q) /\ ~ Loading(q) /\ q.loads = o.loads /\ q.phase # "idle"
    BY <2>2 DEF Live, Loading, SamePlace
  <2> QED BY <1>1, <1>6, <2>5, <2>6, <2>7, <2>8, <2>9, <2>10 DEF OpOK, LiveOK
<1>9. CASE o.kind = "find" /\ Len(o.segs) > 1
  <2>1. q = [o EXCEPT !.phase = "open", !.items = T, !.segs = Tail(@), !.above = Append(@, T)]
    BY <1>9 DEF Descend
  <2>2. /\ DOMAIN q = CallFields /\ q.phase = "open" /\ q.kind = "find" /\ q.items = T
        /\ q.segs = Tail(o.segs) /\ q.above = Append(o.above, T)
        /\ q.roots = o.roots /\ q.trx = o.trx /\ q.known = o.known /\ q.outer = o.outer
        /\ q.ctx = o.ctx /\ q.loads = o.loads /\ q.todo = o.todo
    BY <1>6, <1>9, <2>1 DEF CallFields
  <2>3. T \subseteq Nat
    <3>1. DOMAIN g \subseteq Nat
      BY <1>1 DEF HeapOK, Instances
    <3> QED BY <3>1 DEF Handed
  <2>4. /\ q.above \in Seq(SUBSET Nat) /\ Len(q.above) = Len(o.above) + 1
        /\ \A n \in 1..Len(o.above) : q.above[n] = o.above[n]
        /\ q.above[Len(o.above) + 1] = T
        /\ q.segs \in Seq(STRING) /\ Len(q.segs) = Len(o.segs) - 1 /\ q.segs # <<>>
    <3>1. T \in SUBSET Nat
      BY <2>3
    <3>2. /\ Append(o.above, T) \in Seq(SUBSET Nat)
          /\ Len(Append(o.above, T)) = Len(o.above) + 1
          /\ \A n \in 1..Len(o.above) : Append(o.above, T)[n] = o.above[n]
          /\ Append(o.above, T)[Len(o.above) + 1] = T
      BY <1>6, <3>1
    <3>3. Tail(o.segs) \in Seq(STRING) /\ Len(Tail(o.segs)) = Len(o.segs) - 1
      BY <1>6, HeadTailProperties
    <3>4. Len(o.segs) \in Nat /\ Len(Tail(o.segs)) > 0
      BY <1>6, <1>9, <3>3
    <3>5. Tail(o.segs) # <<>>
      BY <3>3, <3>4, NonEmpty
    <3> QED BY <2>2, <3>2, <3>3, <3>5
  <2>5. /\ Depths(q) = Depths(o) \cup {Len(o.above) + 1}
        /\ \A n \in Depths(o) : Level(q, n) = Level(o, n) /\ n < Len(o.above) + 1
        /\ Level(q, Len(o.above) + 1) = T
    BY <1>6, <2>2, <2>4 DEF Depths, Level
  <2>6. CallOK(q)
    BY <1>4, <2>2, <2>4 DEF CallOK
  <2>7. \A i, j \in T : /\ i \in DOMAIN g /\ g[i].cls = g[j].cls
                        /\ g[i].key = g[j].key => i = j
                        /\ g[i].hooked = 0
                        /\ \A n \in Depths(o) : i \notin Level(o, n)
    BY <1>9 DEF Deferred, Handed
  <2>8. LevelsOK(q, g)
    <3>1. q.segs # <<>> /\ q.items = Level(q, Len(q.above)) /\ q.roots # {}
      BY <1>6, <1>9, <2>2, <2>4, <2>5
    <3>2. \A n \in Depths(q) : Level(q, n) \subseteq DOMAIN g
      BY <1>7, <2>5, <2>7
    <3>3. \A n \in Depths(q) : \A i, j \in Level(q, n) :
            g[i].cls = g[j].cls /\ (g[i].key = g[j].key => i = j)
      BY <1>7, <2>5, <2>7
    <3>4. \A k, n \in Depths(q) : k # n => Level(q, k) \cap Level(q, n) = {}
      <4>1. \A k, n \in Depths(o) : k # n => Level(o, k) \cap Level(o, n) = {}
        BY <1>4 DEF LevelsOK
      <4> QED BY <4>1, <2>5, <2>7
    <3> QED BY <2>2, <3>1, <3>2, <3>3, <3>4 DEF LevelsOK
  <2>9. KindOK(q)
    BY <2>2 DEF KindOK
  <2>10. ContextOK(q)
    <3>1. Nested(o) = 1 /\ ~ Loading(q)
      BY <1>9, <2>2 DEF Nested, Loading
    <3>2. Len(q.above) + 0 = Len(o.above) + Nested(o)
      BY <1>6, <2>4, <3>1
    <3>3. q.ctx = (IF q.kind = "find" /\ q.trx THEN Len(o.above) + Nested(o) ELSE 0)
          /\ (q.ctx > 0 => q.known)
      BY <1>4, <1>9, <2>2 DEF Context
    <3> QED BY <3>1, <3>2, <3>3 DEF ContextOK, Context
  <2>11. HooksOK(m, q, g)
    <3>1. \A n \in Depths(q) : \A i \in Level(q, n) : g[i].hooked = 0
      BY <1>7, <1>9, <2>5, <2>7
    <3>2. ASSUME NEW i \in DOMAIN g, NEW y \in Held(m, g, i)
          PROVE  \/ g[y].hooked = 1
                 \/ \E k, n \in Depths(q) : k < n /\ i \in Level(q, k) /\ y \in Level(q, n)
      <4>1. CASE \E k, n \in Depths(o) : k < n /\ i \in Level(o, k) /\ y \in Level(o, n)
        BY <4>1, <2>5
      <4>2. CASE i \in Level(o, Len(o.above)) /\ y \in T
        <5>1. Len(o.above) \in Depths(o)
          BY <1>6 DEF Depths
        <5> QED BY <4>2, <5>1, <2>5
      <4> QED BY <4>1, <4>2, <1>2, <1>9
    <3> QED BY <3>1, <3>2 DEF HooksOK
  <2>12. Live(q) /\ ~ Loading(q) /\ q.phase # "idle"
    BY <2>2 DEF Live, Loading
  <2> QED BY <1>1, <1>6, <2>2, <2>6, <2>8, <2>9, <2>10, <2>11, <2>12 DEF OpOK, LiveOK
<1>10. CASE o.kind = "find" /\ ~ (Len(o.segs) > 1)
  <2>1. q = [o EXCEPT !.phase = "unwind"]
    BY <1>10 DEF Descend
  <2>2. SamePlace(o, q) /\ q.phase = "unwind" /\ q.kind = "find"
    BY <1>6, <1>10, <2>1 DEF SamePlace, CallFields
  <2>3. Depths(q) = Depths(o) /\ \A n : Level(q, n) = Level(o, n)
    BY <2>2, SamePlaceFacts
  <2>4. CallOK(q)
    BY <1>4, <2>2 DEF CallOK, SamePlace
  <2>5. LevelsOK(q, g)
    <3>1. \A k, n \in Depths(o) : k # n => Level(o, k) \cap Level(o, n) = {}
      BY <1>4 DEF LevelsOK
    <3> QED BY <1>6, <1>7, <2>2, <2>3, <3>1 DEF LevelsOK, SamePlace
  <2>6. KindOK(q)
    BY <2>2 DEF KindOK
  <2>7. ContextOK(q)
    BY <1>4, <1>6, <1>10, <2>2 DEF ContextOK, Context, Nested, Loading, SamePlace
  <2>8. HooksOK(m, q, g)
    <3>1. Nested(o) = 0
      BY <1>10 DEF Nested
    <3> QED BY <1>2, <1>7, <1>10, <2>2, <2>3, <3>1 DEF HooksOK
  <2>9. Live(q) /\ ~ Loading(q) /\ q.phase # "idle" /\ q.loads = o.loads
    BY <2>2 DEF Live, Loading, SamePlace
  <2> QED BY <1>1, <1>6, <2>4, <2>5, <2>6, <2>7, <2>8, <2>9 DEF OpOK, LiveOK
<1> QED BY <1>4, <1>8, <1>9, <1>10 DEF CallOK

LEMMA DescendStep ==
  ASSUME NEW m, WellFormed(m), NEW o, NEW h, Ready(m, o, h),
         NEW r, r = Current(m, o, h), NEW g, g = Assigned(o, h, r),
         NEW q, q = Descend(o, Delivers(o, r))
  PROVE  OpOK(m, q, g) /\ Live(q) /\ OnlyAssigns(h, g, o.items)
<1> DEFINE T == Delivers(o, r)
<1>1. /\ IsAssigned(h, g, o.items, r.prop) /\ T \subseteq o.got
      /\ HeapOK(m, g) /\ BatchesOK(m, g, o.loads)
  BY AssignStep
<1>2. ASSUME o.kind = "find", NEW i \in DOMAIN h, NEW y \in Held(m, g, i)
      PROVE  \/ g[y].hooked = 1
             \/ \E k, n \in Depths(o) : k < n /\ i \in Level(o, k) /\ y \in Level(o, n)
             \/ i \in Level(o, Len(o.above)) /\ y \in T /\ Nested(o) = 1
  BY <1>2, AssignedHooks
<1>3. OnlyAssigns(h, g, o.items)
  BY <1>1 DEF IsAssigned, OnlyAssigns
<1>4. /\ CallOK(o) /\ LevelsOK(o, h) /\ KindOK(o) /\ HooksOK(m, o, h)
      /\ Context(o, Len(o.above) + Nested(o)) /\ o.phase \in {"open", "links", "fetch"}
      /\ o.got \subseteq DOMAIN h
      /\ \A y \in o.got :
           /\ h[y].cls = r.target
           /\ o.kind = "find" => h[y].hooked = IF Deferred(o) THEN 0 ELSE 1
           /\ \A n \in Depths(o) : y \notin Level(o, n)
           /\ \A z \in o.got : h[y].key = h[z].key => y = z
  BY DEF Ready, FetchedOK
<1>5. /\ DOMAIN g = DOMAIN h
      /\ \A i \in DOMAIN h : /\ g[i].cls = h[i].cls /\ g[i].key = h[i].key
                             /\ g[i].hooked = h[i].hooked
  BY <1>1 DEF IsAssigned
<1> HIDE DEF T
<1>6. LevelsOK(o, g)
  <2>1. \A n \in Depths(o) : Level(o, n) \subseteq DOMAIN g
    BY <1>4, <1>5 DEF LevelsOK
  <2>2. \A n \in Depths(o) : \A i, j \in Level(o, n) :
          g[i].cls = g[j].cls /\ (g[i].key = g[j].key => i = j)
    BY <1>4, <1>5, <2>1 DEF LevelsOK
  <2> QED BY <1>4, <2>1, <2>2 DEF LevelsOK
<1>7. o.kind = "find" => \A n \in Depths(o) : \A i \in Level(o, n) : g[i].hooked = 0
  BY <1>4, <1>5 DEF LevelsOK, HooksOK
<1>8. /\ T \subseteq DOMAIN g
      /\ \A i, j \in T :
           /\ g[i].cls = g[j].cls /\ (g[i].key = g[j].key => i = j)
           /\ \A n \in Depths(o) : i \notin Level(o, n)
      /\ o.kind = "find" /\ Deferred(o) => \A i \in T : g[i].hooked = 0
  BY <1>1, <1>4, <1>5
<1>9. Handed(m, o, g, T)
  BY <1>1, <1>2, <1>4, <1>5, <1>6, <1>7, <1>8 DEF Handed
<1>10. OpOK(m, Descend(o, T), g) /\ Live(Descend(o, T))
  BY <1>9, DescendCall
<1> QED BY <1>3, <1>10 DEF T

(* The next batch, the next chunk of owners, or the assignment.             *)
LEMMA ProceedStep ==
  ASSUME NEW o, NEW h, WellFormed(model), Ready(model, o, h)
  PROVE  LET q == Proceed(o, h)[1]
             g == Proceed(o, h)[2]
         IN  OpOK(model, q, g) /\ Live(q) /\ OnlyAssigns(h, g, o.items)
<1> DEFINE r    == Current(model, o, h)
           full == [o EXCEPT !.pairs = Paired(o, h), !.read = {}]
           q    == Proceed(o, h)[1]
           g    == Proceed(o, h)[2]
<1>1. /\ CallOK(o) /\ LevelsOK(o, h) /\ KindOK(o) /\ HooksOK(model, o, h)
      /\ FetchedOK(model, o, h) /\ Context(o, Len(o.above) + Nested(o))
      /\ o.phase \in {"open", "links", "fetch"} /\ DOMAIN o = CallFields /\ o.loads \in Nat
      /\ HeapOK(model, h) /\ BatchesOK(model, h, o.loads - 1)
  BY DEF Ready, CallOK
<1>2. BatchesOK(model, h, o.loads)
  BY <1>1, BatchesLater
<1>3. OnlyAssigns(h, h, o.items)
  BY DEF OnlyAssigns
<1>4. \A p \in Paired(o, h) : p[2] \in o.got
  BY <1>1 DEF Paired, FetchedOK
<1>5. /\ SamePlace(o, full) /\ full.got = o.got /\ full.pairs = Paired(o, h)
      /\ full.phase = o.phase
  <2> DEFINE P == Paired(o, h)
  <2>1. full = [o EXCEPT !.pairs = P, !.read = {}]
    OBVIOUS
  <2> HIDE DEF P, full
  <2>2. SamePlace(o, full) /\ full.got = o.got /\ full.pairs = P /\ full.phase = o.phase
    BY <1>1, <2>1 DEF SamePlace, CallFields
  <2> QED BY <2>2 DEF P
<1> HIDE DEF full
<1>6. ASSUME NEW p, SamePlace(o, p), p.phase \in {"links", "fetch"}, p.got = o.got,
             \A e \in p.pairs : e[2] \in o.got
      PROVE  OpOK(model, p, h) /\ Live(p)
  <2>1. CallOK(p) /\ LevelsOK(p, h) /\ KindOK(p) /\ HooksOK(model, p, h) /\ FetchedOK(model, p, h)
    BY <1>1, <1>6, SamePlaceFacts
  <2>2. ContextOK(p)
    <3>1. Context(p, Len(o.above) + Nested(o)) /\ Nested(p) = Nested(o) /\ p.above = o.above
      BY <1>1, <1>6, SamePlaceFacts DEF SamePlace
    <3> QED BY <3>1, <1>6 DEF ContextOK, Loading
  <2>3. Live(p) /\ Loading(p) /\ p.phase # "idle" /\ p.loads = o.loads
    BY <1>6 DEF Live, Loading, SamePlace
  <2> QED BY <1>1, <1>2, <2>1, <2>2, <2>3 DEF OpOK, LiveOK
<1>7. CASE o.values # {}
  <2>1. q = [o EXCEPT !.phase = "fetch"] /\ g = h
    BY <1>7 DEF Proceed
  <2>2. SamePlace(o, q) /\ q.phase = "fetch" /\ q.got = o.got /\ q.pairs = o.pairs
    <3> HIDE DEF q, g
    <3> QED BY <1>1, <2>1 DEF SamePlace, CallFields
  <2>3. \A e \in o.pairs : e[2] \in o.got
    BY <1>1 DEF FetchedOK
  <2> HIDE DEF q, g
  <2>4. OpOK(model, q, h) /\ Live(q)
    BY <1>6, <2>2, <2>3
  <2> QED BY <1>3, <2>1, <2>4 DEF q, g
<1>8. CASE o.values = {} /\ o.owners # {}
  <2>1. q = [full EXCEPT !.phase = "links"] /\ g = h
    BY <1>8 DEF Proceed, full
  <2>2. SamePlace(o, q) /\ q.phase = "links" /\ q.got = o.got /\ q.pairs = Paired(o, h)
    <3> HIDE DEF q, g
    <3> QED BY <1>5, <2>1 DEF SamePlace, CallFields
  <2> HIDE DEF q, g
  <2>3. OpOK(model, q, h) /\ Live(q)
    BY <1>4, <1>6, <2>2
  <2> QED BY <1>3, <2>1, <2>3 DEF q, g
<1>9. CASE o.values = {} /\ o.owners = {}
  <2>1. Ready(model, full, h) /\ r = Current(model, full, h) /\ full.items = o.items
    <3>1. full.phase \in {"open", "links", "fetch"} /\ \A e \in full.pairs : e[2] \in full.got
      BY <1>1, <1>4, <1>5
    <3>2. /\ CallOK(full) /\ LevelsOK(full, h) /\ KindOK(full) /\ HooksOK(model, full, h)
          /\ FetchedOK(model, full, h) /\ r = Current(model, full, h)
      BY <1>1, <1>5, <3>1, SamePlaceFacts
    <3>3. Context(full, Len(o.above) + Nested(o)) /\ Nested(full) = Nested(o)
          /\ full.above = o.above /\ full.loads = o.loads /\ full.items = o.items
      BY <1>1, <1>5, SamePlaceFacts DEF SamePlace
    <3> QED BY <1>1, <3>1, <3>2, <3>3 DEF Ready
  <2>2. g = Assigned(full, h, r) /\ q = Descend(full, Delivers(full, r))
    BY <1>9 DEF Proceed, full, Delivers
  <2> HIDE DEF q, g, r
  <2>3. OpOK(model, q, g) /\ Live(q) /\ OnlyAssigns(h, g, full.items)
    BY <2>1, <2>2, DescendStep
  <2> QED BY <2>1, <2>3 DEF q, g
<1> QED BY <1>7, <1>8, <1>9
---------------------------------------------------------------------------
(* The steps.                                                               *)

(* A call begins with instances of one class that hold nothing.             *)
LEMMA FreshCall ==
  ASSUME NEW m, NEW h, NEW C \in DOMAIN m.of, Instances(h),
         \A i \in DOMAIN h :
           /\ h[i].cls = C /\ h[i].hooked = 0 /\ h[i].via = {}
           /\ h[i].rel = [p \in {r.prop : r \in Items(Relations(m, C))} |-> Unset],
         \A i, j \in DOMAIN h : h[i].key = h[j].key => i = j,
         NEW kind \in {"find", "loadRelations"},
         NEW paths \in Seq(Seq(STRING) \ {<<>>}),
         kind = "loadRelations" => \A n \in DOMAIN paths : Len(paths[n]) = 1,
         NEW mode \in Modes
  PROVE  OpOK(m, Call(kind, Len(h), paths, mode), h)
<1> DEFINE o == Call(kind, Len(h), paths, mode)
<1>1. /\ DOMAIN o = CallFields /\ o.phase = "path" /\ o.kind = kind /\ o.roots = 1..Len(h)
      /\ o.todo = paths /\ o.trx = mode.trx /\ o.known = mode.known /\ o.ctx = 0
      /\ o.segs = <<>> /\ o.above = <<>> /\ o.loads = 0 /\ o.outer = mode.outer
  BY DEF Call, CallFields
<1> HIDE DEF o
<1>2. Len(h) \in Nat /\ DOMAIN h = 1..Len(h)
  BY DEF Instances
<1>3. \A i \in DOMAIN h : Held(m, h, i) = {}
                          /\ \A p \in DOMAIN h[i].rel : Targets(m, h, i, p) = {}
  BY HeldNothing
<1>4. HeapOK(m, h)
  BY <1>3 DEF HeapOK
<1>5. BatchesOK(m, h, 0)
  BY <1>3 DEF BatchesOK
<1>6. CallOK(o)
  BY <1>1, ModesAssumption DEF CallOK
<1>7. Depths(o) = {0} /\ Level(o, 0) = DOMAIN h
  BY <1>1, <1>2 DEF Depths, Level
<1>8. LevelsOK(o, h)
  BY <1>1, <1>7 DEF LevelsOK
<1>9. KindOK(o)
  BY <1>1 DEF KindOK
<1>10. ContextOK(o)
  BY <1>1 DEF ContextOK, Context, Loading
<1>11. HooksOK(m, o, h)
  BY <1>3, <1>7 DEF HooksOK
<1> QED BY <1>1, <1>4, <1>5, <1>6, <1>8, <1>9, <1>10, <1>11
        DEF OpOK, LiveOK, Live, Loading, o

LEMMA NothingThere ==
  ASSUME NEW m PROVE Instances(<<>>) /\ HeapOK(m, <<>>) /\ \A n : BatchesOK(m, <<>>, n)
<1>1. DOMAIN <<>> = {} /\ <<>> \in Seq(Items(<<>>))
  OBVIOUS
<1>2. Instances(<<>>)
  BY <1>1 DEF Instances
<1>3. HeapOK(m, <<>>)
  BY <1>1, <1>2 DEF HeapOK
<1>4. \A n : BatchesOK(m, <<>>, n)
  BY <1>1 DEF BatchesOK
<1> QED BY <1>2, <1>3, <1>4

LEMMA BuiltClass ==
  ASSUME WellFormed(model), NEW C \in Built(model)
  PROVE  C \in DOMAIN model.of /\ model.of[C].eager \in Seq(Seq(STRING) \ {<<>>})
<1>1. C \in Items(model.entities)
  BY DEF Built
<1>2. model.entities \in Seq(DOMAIN model.of)
  BY DEF WellFormed
<1>3. C \in DOMAIN model.of
  BY <1>1, <1>2 DEF Items
<1> QED BY <1>3 DEF WellFormed

LEMMA FindStep ==
  ASSUME RowsOK(model, rows), NEW C \in Built(model),
         NEW K \in SUBSET DOMAIN rows[C], NEW mode \in Modes, Find(C, K, mode)
  PROVE  OpOK(model, op', heap')
<1> DEFINE paths == model.of[C].eager
           o == Call("find", Cardinality(K), paths, mode)
<1>1. C \in DOMAIN model.of /\ paths \in Seq(Seq(STRING) \ {<<>>})
  BY BuiltClass DEF RowsOK
<1>2. IsFiniteSet(K)
  <2>1. IsFiniteSet(DOMAIN rows[C])
    BY <1>1 DEF RowsOK
  <2> QED BY <2>1, FS_Subset
<1>3. DOMAIN o = CallFields /\ o.phase = "path" /\ o.loads = 0
  BY DEF Call, CallFields
<1>4. CASE Executor(o, o.trx) = Fault
  <2>1. heap' = <<>> /\ op' = [o EXCEPT !.phase = "ended", !.outcome = "mixing"]
    BY <1>4 DEF Find
  <2> HIDE DEF o
  <2>2. op'.phase = "ended" /\ op'.outcome = "mixing" /\ op'.loads = 0
    BY <1>3, <2>1 DEF CallFields
  <2>3. HeapOK(model, heap') /\ BatchesOK(model, heap', 0)
    BY <2>1, NothingThere
  <2> QED BY <2>2, <2>3 DEF OpOK, Live
<1>5. CASE Executor(o, o.trx) # Fault
  <2>1. heap' = Hydrated(<<>>, C, K, o, FALSE) /\ op' = o
    BY <1>5 DEF Find
  <2>2. Instances(<<>>)
    BY NothingThere
  <2> DEFINE h == heap'
  <2> HIDE DEF o
  <2>3. IsHydrated(<<>>, h, C, K, o, FALSE)
    BY <1>2, <2>1, <2>2, HydratedShape
  <2> HIDE DEF h
  <2>4. /\ h \in Seq(Items(h)) /\ Cardinality(K) \in Nat /\ Len(h) = Cardinality(K)
        /\ DOMAIN h = 1..Len(h)
        /\ \A i \in 1..Len(h) :
             /\ DOMAIN h[i] = Fields /\ h[i].cls = C /\ h[i].hooked = 0 /\ h[i].via = {}
             /\ h[i].rel = [p \in {r.prop : r \in Items(Relations(model, C))} |-> Unset]
        /\ \A i, j \in 1..Len(h) : h[i].key = h[j].key => i = j
    <3>1. Len(<<>>) = 0
      OBVIOUS
    <3>2. h \in Seq(Items(h)) /\ Cardinality(K) \in Nat /\ Len(h) = Cardinality(K)
      BY <2>3, <3>1 DEF IsHydrated
    <3>3. (Len(<<>>) + 1)..Len(h) = 1..Len(h) /\ DOMAIN h = 1..Len(h)
      BY <3>1, <3>2
    <3> QED BY <2>3, <3>2, <3>3 DEF IsHydrated
  <2>5. Instances(h)
    BY <2>4 DEF Instances
  <2>6. \A n \in DOMAIN h : DOMAIN h = 1..Len(h)
    BY <2>4
  <2>7. OpOK(model, Call("find", Len(h), paths, mode), h)
    <3> HIDE DEF paths
    <3>1. \A i \in DOMAIN h :
            /\ h[i].cls = C /\ h[i].hooked = 0 /\ h[i].via = {}
            /\ h[i].rel = [p \in {r.prop : r \in Items(Relations(model, C))} |-> Unset]
      BY <2>4
    <3>2. \A i, j \in DOMAIN h : h[i].key = h[j].key => i = j
      BY <2>4
    <3> QED BY <1>1, <2>5, <3>1, <3>2, FreshCall
  <2> QED BY <2>1, <2>4, <2>7 DEF o, h
<1> QED BY <1>4, <1>5

LEMMA LoadRelationsStep ==
  ASSUME RowsOK(model, rows), NEW C \in Built(model),
         NEW K \in SUBSET DOMAIN rows[C], NEW p \in STRING, NEW whole \in BOOLEAN,
         NEW mode \in Modes, LoadRelations(C, K, <<p>>, whole, mode)
  PROVE  OpOK(model, op', heap')
<1> DEFINE k == SetToSeq(K)
           columns(n) == [c \in DOMAIN rows[C][k[n]] |-> IF whole THEN rows[C][k[n]][c] ELSE Unset]
           h == heap'
           paths == [n \in DOMAIN <<p>> |-> <<<<p>>[n]>>]
<1>1. C \in DOMAIN model.of
  BY BuiltClass DEF RowsOK
<1>2. IsFiniteSet(K)
  <2>1. IsFiniteSet(DOMAIN rows[C])
    BY <1>1 DEF RowsOK
  <2> QED BY <2>1, FS_Subset
<1>3. /\ Cardinality(K) \in Nat /\ k \in [1..Cardinality(K) -> K]
      /\ \A i, j \in 1..Cardinality(K) : k[i] = k[j] => i = j
  BY <1>2, Listed
<1>4. h = [n \in DOMAIN k |-> Instance(C, k[n], columns(n), 0)]
      /\ op' = Call("loadRelations", Len(k), paths, mode)
  BY DEF LoadRelations
<1>5. paths \in Seq(Seq(STRING) \ {<<>>}) /\ \A n \in DOMAIN paths : Len(paths[n]) = 1
  <2>1. DOMAIN <<p>> = 1..1 /\ <<p>>[1] = p
    OBVIOUS
  <2>2. <<p>> \in Seq(STRING) \ {<<>>} /\ Len(<<p>>) = 1
    <3>1. <<p>> \in Seq(STRING)
      BY OneElement
    <3>2. <<p>> # <<>> /\ Len(<<p>>) = 1
      OBVIOUS
    <3> QED BY <3>1, <3>2
  <2>3. ASSUME NEW n \in 1..1 PROVE <<<<p>>[n]>> = <<p>>
    <3>1. n = 1
      OBVIOUS
    <3>2. <<p>>[n] = p
      BY <3>1
    <3> QED BY <3>2
  <2> HIDE DEF paths
  <2>4. paths = [n \in 1..1 |-> <<p>>]
    BY <2>1, <2>3 DEF paths
  <2>5. DOMAIN paths = 1..1 /\ \A n \in 1..1 : paths[n] = <<p>>
    BY <2>4
  <2>6. paths \in [1..1 -> Seq(STRING) \ {<<>>}]
    BY <2>2, <2>4
  <2>7. paths \in Seq(Seq(STRING) \ {<<>>})
    BY <2>6, FunctionIsSequence
  <2> QED BY <2>2, <2>5, <2>7
<1> HIDE DEF k, h, paths
<1>6. DOMAIN k = 1..Cardinality(K) /\ Len(k) = Cardinality(K)
  BY <1>3
<1>7. \A n \in 1..Cardinality(K) :
        /\ DOMAIN h[n] = Fields /\ h[n].cls = C /\ h[n].key = k[n]
        /\ h[n].hooked = 0 /\ h[n].via = {}
        /\ h[n].rel = [q \in {r.prop : r \in Items(Relations(model, C))} |-> Unset]
  BY <1>4, <1>6 DEF Instance, Fields
<1>8. h = [n \in 1..Cardinality(K) |-> h[n]]
  BY <1>4, <1>6
<1>9. h \in Seq(Items(h)) /\ Len(h) = Cardinality(K) /\ DOMAIN h = 1..Cardinality(K)
  BY <1>3, <1>8, IsSequence
<1>10. Instances(h)
  BY <1>7, <1>9 DEF Instances
<1>11. OpOK(model, Call("loadRelations", Len(h), paths, mode), h)
  <2>1. \A i \in DOMAIN h :
          /\ h[i].cls = C /\ h[i].hooked = 0 /\ h[i].via = {}
          /\ h[i].rel = [q \in {r.prop : r \in Items(Relations(model, C))} |-> Unset]
    BY <1>7, <1>9
  <2>2. ASSUME NEW i \in DOMAIN h, NEW j \in DOMAIN h, h[i].key = h[j].key PROVE i = j
    <3>1. i \in 1..Cardinality(K) /\ j \in 1..Cardinality(K)
      BY <1>9
    <3>2. k[i] = k[j]
      BY <1>7, <2>2, <3>1
    <3> QED BY <1>3, <3>1, <3>2
  <2> QED BY <1>1, <1>5, <1>10, <2>1, <2>2, FreshCall
<1> QED BY <1>4, <1>6, <1>9, <1>11 DEF h

LEMMA LiveState ==
  ASSUME IInv, op.phase \notin {"idle", "ended"}
  PROVE  /\ op # Idle /\ OpOK(model, op, heap) /\ LiveOK(model, op, heap)
         /\ HeapOK(model, heap) /\ Instances(heap) /\ BatchesOK(model, heap, op.loads)
         /\ CallOK(op) /\ LevelsOK(op, heap) /\ KindOK(op) /\ ContextOK(op)
         /\ HooksOK(model, op, heap) /\ DOMAIN op = CallFields
<1>1. op # Idle
  BY DEF Idle
<1>2. OpOK(model, op, heap)
  BY <1>1 DEF IInv
<1>3. LiveOK(model, op, heap)
  BY <1>2 DEF OpOK, Live
<1> QED BY <1>1, <1>2, <1>3 DEF OpOK, LiveOK, HeapOK, CallOK

(* Hooks change nothing that is held.                                       *)
Unhooked(h, I) == \A i \in I : i \in DOMAIN h => h[i].hooked = 0

SameHeap(m, h, g) ==
  /\ \A i \in DOMAIN h : Held(m, g, i) = Held(m, h, i)
  /\ HeapOK(m, g)
  /\ \A n : BatchesOK(m, h, n) => BatchesOK(m, g, n)

LEMMA HookedHeap ==
  ASSUME NEW m, NEW h, HeapOK(m, h), NEW I, Unhooked(h, I), NEW o
  PROVE  /\ IsHooked(h, Hooked(h, I, o), I, Executor(o, FALSE))
         /\ SameHeap(m, h, Hooked(h, I, o))
<1> DEFINE g == Hooked(h, I, o)
<1>1. IsHooked(h, g, I, Executor(o, FALSE))
  BY HookedShape DEF HeapOK
<1> HIDE DEF g
<1>2. /\ DOMAIN g = DOMAIN h /\ g \in Seq(Items(g))
      /\ \A i \in DOMAIN h :
           /\ DOMAIN g[i] = Fields /\ g[i].cls = h[i].cls /\ g[i].key = h[i].key
           /\ g[i].batch = h[i].batch /\ g[i].rel = h[i].rel
           /\ i \in I => g[i].hooked = h[i].hooked + 1
           /\ i \notin I => g[i] = h[i]
  BY <1>1 DEF IsHooked
<1>3. ASSUME NEW i \in DOMAIN h
      PROVE  Held(m, g, i) = Held(m, h, i) /\ \A p : Targets(m, g, i, p) = Targets(m, h, i, p)
  <2>1. g[i].cls = h[i].cls /\ g[i].rel = h[i].rel
    BY <1>2
  <2> QED BY <2>1, SameHeld
<1>4. HeapOK(m, g)
  <2>1. Instances(g)
    BY <1>2 DEF Instances
  <2>2. ASSUME NEW i \in DOMAIN h
        PROVE  g[i].hooked \in {0, 1} /\ (g[i].hooked = 0 => g[i].via = {})
    <3>1. h[i].hooked \in {0, 1} /\ (h[i].hooked = 0 => h[i].via = {})
      BY DEF HeapOK
    <3>2. CASE i \in I
      BY <3>1, <3>2, <1>2 DEF Unhooked
    <3>3. CASE i \notin I
      BY <3>1, <3>3, <1>2
    <3> QED BY <3>2, <3>3
  <2> QED BY <1>2, <1>3, <2>1, <2>2 DEF HeapOK
<1>5. ASSUME NEW n, BatchesOK(m, h, n) PROVE BatchesOK(m, g, n)
  <2>1. \A i \in DOMAIN h : \A y \in Held(m, h, i) : y \in DOMAIN h
    BY DEF HeapOK
  <2>2. \A i \in DOMAIN g : \A y \in Held(m, g, i) : g[y].batch \in Nat /\ g[y].batch <= n
    BY <1>2, <1>3, <1>5, <2>1 DEF BatchesOK
  <2>3. \A i, j \in DOMAIN g : \A y \in Held(m, g, i), z \in Held(m, g, j) :
          g[y].batch = g[z].batch /\ g[y].key = g[z].key => y = z
    BY <1>2, <1>3, <1>5, <2>1 DEF BatchesOK
  <2>4. \A i, j \in DOMAIN g :
          i # j /\ g[i].cls = g[j].cls => \A p \in DOMAIN g[i].rel :
            Relation(m, g[i].cls, p).type = "one-to-many" =>
              Targets(m, g, i, p) \cap Targets(m, g, j, p) = {}
    BY <1>2, <1>3, <1>5 DEF BatchesOK
  <2> QED BY <2>2, <2>3, <2>4 DEF BatchesOK
<1> QED BY <1>1, <1>3, <1>4, <1>5 DEF SameHeap, g

(* A call that ends leaves the heap as it was, unless it ends well.         *)
LEMMA EndStep ==
  ASSUME IInv, op.phase \notin {"idle", "ended"}, NEW outcome, outcome # "ok",
         Ended(outcome), heap' = heap
  PROVE  OpOK(model, op', heap') /\ op'.outcome = outcome /\ op'.phase = "ended"
         /\ op'.outer = op.outer /\ op'.kind = op.kind
<1>1. DOMAIN op = CallFields /\ HeapOK(model, heap) /\ BatchesOK(model, heap, op.loads)
      /\ op.loads \in Nat
  BY LiveState DEF OpOK
<1>2. op' = [op EXCEPT !.phase = "ended", !.outcome = outcome]
  BY DEF Ended
<1>3. op'.phase = "ended" /\ op'.outcome = outcome /\ op'.loads = op.loads
      /\ op'.outer = op.outer /\ op'.kind = op.kind
  BY <1>1, <1>2 DEF CallFields
<1> QED BY <1>1, <1>3 DEF OpOK, Live

LEMMA NextPathStep ==
  ASSUME IInv, NextPath
  PROVE  OpOK(model, op', heap')
<1>1. op.phase = "path"
  BY DEF NextPath
<1>2. /\ OpOK(model, op, heap) /\ HeapOK(model, heap) /\ CallOK(op) /\ LevelsOK(op, heap)
      /\ KindOK(op) /\ ContextOK(op) /\ HooksOK(model, op, heap) /\ DOMAIN op = CallFields
      /\ BatchesOK(model, heap, op.loads)
  BY <1>1, LiveState
<1>3. op.above = <<>> /\ Depths(op) = {0} /\ Level(op, 0) = op.roots
      /\ op.loads \in Nat /\ op.kind \in {"find", "loadRelations"}
  BY <1>1, <1>2 DEF LevelsOK, Depths, Level, CallOK
<1>4. CASE op.todo = <<>> \/ op.roots = {}
  <2>1. /\ heap' = IF Strict THEN heap ELSE Hooked(heap, op.roots, op)
        /\ op' = [op EXCEPT !.phase = "ended", !.outcome = "ok"]
    BY <1>4 DEF NextPath, Ended
  <2>2. op'.phase = "ended" /\ op'.outcome = "ok" /\ op'.loads = op.loads
        /\ op'.kind = op.kind /\ op'.roots = op.roots
    BY <1>2, <2>1 DEF CallFields
  <2>3. CASE op.kind = "loadRelations"
    BY <1>2, <1>3, <2>1, <2>2, <2>3 DEF OpOK, Live, Strict
  <2>4. CASE op.kind = "find"
    <3>1. heap' = Hooked(heap, op.roots, op)
      BY <2>1, <2>4 DEF Strict
    <3>2. op.roots \subseteq DOMAIN heap /\ \A i \in op.roots : heap[i].hooked = 0
      BY <1>2, <1>3, <2>4 DEF LevelsOK, HooksOK
    <3>3. /\ IsHooked(heap, heap', op.roots, Executor(op, FALSE))
          /\ \A i \in DOMAIN heap : Held(model, heap', i) = Held(model, heap, i)
          /\ HeapOK(model, heap') /\ BatchesOK(model, heap', op.loads)
      <4>1. Unhooked(heap, op.roots)
        BY <3>2 DEF Unhooked
      <4>2. /\ IsHooked(heap, heap', op.roots, Executor(op, FALSE))
            /\ SameHeap(model, heap, heap')
        BY <1>2, <3>1, <4>1, HookedHeap
      <4> QED BY <1>2, <4>2 DEF SameHeap
    <3>4. \A i \in DOMAIN heap : \A y \in Held(model, heap, i) :
            y \in DOMAIN heap /\ heap[y].hooked = 1
      BY <1>2, <1>3, <2>4 DEF HooksOK, HeapOK
    <3>5. Done(model, op', heap')
      <4>1. op'.roots \subseteq DOMAIN heap' /\ \A i \in op'.roots : heap'[i].hooked = 1
        <5>1. DOMAIN heap' = DOMAIN heap
              /\ \A i \in DOMAIN heap : i \in op.roots => heap'[i].hooked = heap[i].hooked + 1
          BY <3>3 DEF IsHooked
        <5>2. \A i \in op.roots : heap'[i].hooked = heap[i].hooked + 1 /\ heap[i].hooked = 0
          BY <3>2, <5>1
        <5>3. \A i \in op.roots : heap'[i].hooked = 1
          BY <5>2
        <5> QED BY <2>2, <3>2, <5>1, <5>3
      <4>2. ASSUME NEW i \in DOMAIN heap', NEW y \in Held(model, heap', i)
            PROVE  heap'[y].hooked = 1
        <5>1. i \in DOMAIN heap /\ y \in Held(model, heap, i)
          BY <3>3, <4>2 DEF IsHooked
        <5>2. y \in DOMAIN heap /\ heap[y].hooked = 1 /\ y \notin op.roots
          BY <3>2, <3>4, <5>1
        <5> QED BY <3>3, <5>2 DEF IsHooked
      <4> QED BY <4>1, <4>2 DEF Done
    <3> QED BY <1>3, <2>2, <3>3, <3>5 DEF OpOK, Live
  <2> QED BY <1>3, <2>3, <2>4
<1>5. CASE ~ (op.todo = <<>> \/ op.roots = {})
  <2>1. /\ op' = [op EXCEPT !.phase = "open", !.segs = Head(op.todo), !.todo = Tail(@),
                            !.items = op.roots]
        /\ heap' = heap
    BY <1>5 DEF NextPath
  <2>2. /\ DOMAIN op' = CallFields /\ op'.phase = "open" /\ op'.segs = Head(op.todo)
        /\ op'.todo = Tail(op.todo) /\ op'.items = op.roots /\ op'.roots = op.roots
        /\ op'.kind = op.kind /\ op'.trx = op.trx /\ op'.known = op.known /\ op'.ctx = op.ctx
        /\ op'.above = op.above /\ op'.loads = op.loads
    BY <1>2, <2>1 DEF CallFields
  <2>3. /\ op.todo \in Seq(Seq(STRING) \ {<<>>}) /\ op.todo # <<>>
        /\ Head(op.todo) = op.todo[1] /\ 1 \in DOMAIN op.todo
        /\ op.todo[1] \in Seq(STRING) \ {<<>>}
        /\ Tail(op.todo) \in Seq(Seq(STRING) \ {<<>>})
        /\ \A n \in DOMAIN Tail(op.todo) :
             n + 1 \in DOMAIN op.todo /\ Tail(op.todo)[n] = op.todo[n + 1]
    BY <1>2, <1>5 DEF CallOK
  <2>4. CallOK(op')
    BY <1>2, <2>2, <2>3 DEF CallOK
  <2>5. Depths(op') = {0} /\ Level(op', 0) = op.roots /\ Len(op'.above) = 0
    BY <1>3, <2>2 DEF Depths, Level
  <2>6. LevelsOK(op', heap')
    BY <1>2, <1>3, <1>5, <2>1, <2>2, <2>3, <2>5 DEF LevelsOK
  <2>7. KindOK(op')
    BY <1>2, <1>3, <2>2, <2>3 DEF KindOK
  <2>8. ContextOK(op')
    BY <1>1, <1>2, <2>2 DEF ContextOK, Context, Loading
  <2>9. HooksOK(model, op', heap')
    BY <1>2, <1>3, <2>1, <2>2, <2>5 DEF HooksOK
  <2> QED BY <1>2, <1>3, <2>1, <2>2, <2>4, <2>6, <2>7, <2>8, <2>9 DEF OpOK, LiveOK, Live, Loading
<1> QED BY <1>4, <1>5

LEMMA NoOwnersStep ==
  ASSUME IInv, NoOwners
  PROVE  OpOK(model, op', heap')
<1>1. op.phase = "open" /\ op.items = {} /\ op' = [op EXCEPT !.phase = "unwind"] /\ heap' = heap
  BY DEF NoOwners
<1>2. /\ OpOK(model, op, heap) /\ HeapOK(model, heap) /\ CallOK(op) /\ LevelsOK(op, heap)
      /\ KindOK(op) /\ ContextOK(op) /\ HooksOK(model, op, heap) /\ DOMAIN op = CallFields
      /\ BatchesOK(model, heap, op.loads)
  BY <1>1, LiveState
<1>3. SamePlace(op, op') /\ op'.phase = "unwind"
  BY <1>1, <1>2 DEF SamePlace, CallFields
<1>4. Depths(op') = Depths(op) /\ (\A n : Level(op', n) = Level(op, n))
      /\ HooksOK(model, op', heap)
  BY <1>2, <1>3, SamePlaceFacts
<1>5. op.kind # "loadRelations"
  <2>1. op.above = <<>> => op.items = op.roots /\ op.roots # {}
    BY <1>1, <1>2 DEF LevelsOK, Level
  <2> QED BY <1>1, <1>2, <2>1 DEF KindOK
<1>6. CallOK(op') /\ KindOK(op') /\ ContextOK(op')
  BY <1>1, <1>2, <1>3, <1>5 DEF CallOK, KindOK, ContextOK, Context, Loading, SamePlace
<1>7. LevelsOK(op', heap)
  <2>1. op.roots # {}
    BY <1>1, <1>2 DEF LevelsOK
  <2> QED BY <1>2, <1>3, <1>4, <2>1 DEF LevelsOK, SamePlace
<1> QED BY <1>1, <1>2, <1>3, <1>4, <1>6, <1>7 DEF OpOK, LiveOK, Live, Loading, SamePlace

LEMMA UnwindStep ==
  ASSUME IInv, Unwind
  PROVE  /\ OpOK(model, op', heap')
         /\ op.above = <<>> => heap' = heap
         /\ op.above # <<>> =>
              /\ op.kind = "find" /\ Last(op.above) = Level(op, Len(op.above))
              /\ Len(op.above) \in Depths(op) /\ Len(op.above) > 0
              /\ IsHooked(heap, heap', Last(op.above), Executor(op, FALSE))
<1>1. op.phase = "unwind"
  BY DEF Unwind
<1>2. /\ OpOK(model, op, heap) /\ HeapOK(model, heap) /\ CallOK(op) /\ LevelsOK(op, heap)
      /\ KindOK(op) /\ ContextOK(op) /\ HooksOK(model, op, heap) /\ DOMAIN op = CallFields
      /\ BatchesOK(model, heap, op.loads) /\ op.loads \in Nat
  BY <1>1, LiveState DEF CallOK
<1>3. op.kind = "find" /\ op.above \in Seq(SUBSET Nat) /\ op.roots # {}
  BY <1>1, <1>2 DEF KindOK, CallOK, LevelsOK
<1>4. CASE op.above = <<>>
  <2>1. op' = [op EXCEPT !.phase = "path"] /\ heap' = heap
    BY <1>4 DEF Unwind
  <2>2. SamePlace(op, op') /\ op'.phase = "path"
    BY <1>2, <2>1 DEF SamePlace, CallFields
  <2>3. Depths(op') = Depths(op) /\ (\A n : Level(op', n) = Level(op, n))
        /\ HooksOK(model, op', heap)
    BY <1>2, <2>2, SamePlaceFacts
  <2>4. CallOK(op') /\ KindOK(op') /\ ContextOK(op')
    BY <1>1, <1>2, <1>3, <2>2 DEF CallOK, KindOK, ContextOK, Context, Loading, SamePlace
  <2>5. LevelsOK(op', heap)
    BY <1>2, <1>4, <2>2, <2>3 DEF LevelsOK, SamePlace
  <2> QED BY <1>2, <1>4, <2>1, <2>2, <2>3, <2>4, <2>5 DEF OpOK, LiveOK, Live, Loading, SamePlace
<1>5. CASE op.above # <<>>
  <2> DEFINE N == Len(op.above)
             I == Last(op.above)
  <2>1. /\ heap' = Hooked(heap, I, op)
        /\ op' = [op EXCEPT !.above = Front(@), !.ctx = IF op.trx THEN @ - 1 ELSE @]
    BY <1>5 DEF Unwind
  <2>2. /\ N \in Nat /\ N > 0 /\ I = op.above[N] /\ Front(op.above) \in Seq(SUBSET Nat)
        /\ Len(Front(op.above)) = N - 1
        /\ \A n \in 1..(N - 1) : Front(op.above)[n] = op.above[n]
    <3>1. N \in Nat /\ N > 0 /\ I = op.above[N]
      BY <1>3, <1>5 DEF Last
    <3>2. Front(op.above) = SubSeq(op.above, 1, N - 1)
      BY DEF Front
    <3> QED BY <1>3, <3>1, <3>2
  <2> HIDE DEF I
  <2>3. /\ DOMAIN op' = CallFields /\ op'.phase = "unwind" /\ op'.above = Front(op.above)
        /\ op'.ctx = IF op.trx THEN op.ctx - 1 ELSE op.ctx
        /\ op'.roots = op.roots /\ op'.kind = op.kind /\ op'.trx = op.trx
        /\ op'.known = op.known /\ op'.loads = op.loads /\ op'.todo = op.todo
        /\ op'.segs = op.segs
    BY <1>1, <1>2, <2>1 DEF CallFields
  <2>4. /\ Depths(op) = Depths(op') \cup {N} /\ N \notin Depths(op')
        /\ \A n \in Depths(op') : Level(op', n) = Level(op, n) /\ n < N
        /\ Level(op, N) = I
    BY <2>2, <2>3 DEF Depths, Level
  <2>5. /\ \A i \in I : i \in DOMAIN heap /\ heap[i].hooked = 0
        /\ \A n \in Depths(op') : Level(op', n) \cap I = {}
    BY <1>2, <1>3, <2>4 DEF LevelsOK, HooksOK
  <2>6. /\ IsHooked(heap, heap', I, Executor(op, FALSE))
        /\ \A i \in DOMAIN heap : Held(model, heap', i) = Held(model, heap, i)
        /\ HeapOK(model, heap') /\ BatchesOK(model, heap', op.loads)
    <3>1. Unhooked(heap, I)
      BY <2>5 DEF Unhooked
    <3>2. IsHooked(heap, heap', I, Executor(op, FALSE)) /\ SameHeap(model, heap, heap')
      BY <1>2, <2>1, <3>1, HookedHeap
    <3> QED BY <1>2, <3>2 DEF SameHeap
  <2>7. CallOK(op')
    BY <1>2, <2>2, <2>3 DEF CallOK
  <2>8. LevelsOK(op', heap')
    <3>1. /\ DOMAIN heap' = DOMAIN heap
          /\ \A i \in DOMAIN heap : heap'[i].cls = heap[i].cls /\ heap'[i].key = heap[i].key
      BY <2>6 DEF IsHooked
    <3>2. \A n \in Depths(op') : Level(op', n) \subseteq DOMAIN heap'
      BY <1>2, <2>4, <3>1 DEF LevelsOK
    <3>3. \A n \in Depths(op') : \A i, j \in Level(op', n) :
            heap'[i].cls = heap'[j].cls /\ (heap'[i].key = heap'[j].key => i = j)
      BY <1>2, <2>4, <3>1, <3>2 DEF LevelsOK
    <3>4. \A k, n \in Depths(op') : k # n => Level(op', k) \cap Level(op', n) = {}
      BY <1>2, <2>4 DEF LevelsOK
    <3> QED BY <1>3, <2>3, <3>2, <3>3, <3>4 DEF LevelsOK
  <2>9. KindOK(op')
    BY <1>3, <2>3 DEF KindOK
  <2>10. ContextOK(op')
    <3>1. op.ctx = (IF op.trx THEN N ELSE 0) /\ (op.ctx > 0 => op.known)
      BY <1>1, <1>2, <1>3, <2>2 DEF ContextOK, Context, Loading
    <3>2. op'.ctx = IF op'.trx THEN N - 1 ELSE 0
      BY <2>3, <3>1
    <3>3. op'.ctx > 0 => op'.known
      BY <2>2, <2>3, <3>1
    <3> QED BY <1>3, <2>2, <2>3, <3>2, <3>3 DEF ContextOK, Context, Loading
  <2>11. HooksOK(model, op', heap')
    <3>1. DOMAIN heap' = DOMAIN heap
          /\ \A i \in DOMAIN heap : /\ i \notin I => heap'[i].hooked = heap[i].hooked
                                    /\ i \in I => heap'[i].hooked = heap[i].hooked + 1
      BY <2>6 DEF IsHooked
    <3>2. \A n \in Depths(op') : \A i \in Level(op', n) : heap'[i].hooked = 0
      <4>1. \A n \in Depths(op') : \A i \in Level(op', n) :
              i \in DOMAIN heap /\ i \notin I /\ heap[i].hooked = 0
        BY <1>2, <1>3, <2>4, <2>5 DEF HooksOK, LevelsOK
      <4> QED BY <3>1, <4>1
    <3>3. ASSUME NEW i \in DOMAIN heap', NEW y \in Held(model, heap', i)
          PROVE  \/ heap'[y].hooked = 1
                 \/ \E k, n \in Depths(op') : k < n /\ i \in Level(op', k) /\ y \in Level(op', n)
      <4>1. i \in DOMAIN heap /\ y \in Held(model, heap, i) /\ y \in DOMAIN heap
        BY <1>2, <2>6, <3>1, <3>3 DEF HeapOK
      <4>2. CASE heap[y].hooked = 1
        <5>1. y \notin I
          BY <2>5, <4>2
        <5> QED BY <3>1, <4>1, <4>2, <5>1
      <4>3. CASE y \in I
        <5>1. heap[y].hooked = 0
          BY <2>5, <4>3
        <5> QED BY <3>1, <4>1, <4>3, <5>1
      <4>4. ASSUME NEW k \in Depths(op), NEW n \in Depths(op), k < n,
                   i \in Level(op, k), y \in Level(op, n), y \notin I
            PROVE  \E a, b \in Depths(op') : a < b /\ i \in Level(op', a) /\ y \in Level(op', b)
        <5>1. n \in Depths(op')
          BY <2>4, <4>4
        <5>2. k \in Depths(op')
          BY <2>2, <2>4, <4>4, <5>1 DEF Depths
        <5> QED BY <2>4, <4>4, <5>1, <5>2
      <4> QED BY <1>2, <1>3, <4>1, <4>2, <4>3, <4>4 DEF HooksOK
    <3> QED BY <3>2, <3>3 DEF HooksOK
  <2>12. N \in Depths(op)
    BY <2>4
  <2> QED BY <1>2, <1>3, <1>5, <2>2, <2>3, <2>4, <2>6, <2>7, <2>8, <2>9, <2>10, <2>11, <2>12
          DEF OpOK, LiveOK, Live, Loading, I
<1> QED BY <1>4, <1>5

(* The call as OpenRelation goes on with it.                                *)
Opened(p) == InContext([p EXCEPT !.loads = @ + 1])

LEMMA OpenState ==
  ASSUME IInv, op.phase = "open"
  PROVE  /\ DOMAIN Opened(op) = CallFields /\ Opened(op).phase = "open"
         /\ Opened(op).items = op.items /\ Opened(op).segs = op.segs
         /\ Opened(op).outer = op.outer /\ Opened(op).trx = op.trx
         /\ Opened(op).above = op.above /\ Opened(op).kind = op.kind
         /\ Opened(op).roots = op.roots /\ Opened(op).todo = op.todo
         /\ Opened(op).loads - 1 = op.loads
         /\ CallOK(Opened(op)) /\ LevelsOK(Opened(op), heap) /\ KindOK(Opened(op))
         /\ HooksOK(model, Opened(op), heap)
         /\ Context(Opened(op), Len(op.above) + Nested(Opened(op)))
         /\ BatchesOK(model, heap, Opened(op).loads)
<1> DEFINE o == Opened(op)
           p == [op EXCEPT !.loads = @ + 1]
<1>1. /\ HeapOK(model, heap) /\ BatchesOK(model, heap, op.loads)
      /\ CallOK(op) /\ LevelsOK(op, heap) /\ KindOK(op) /\ ContextOK(op)
      /\ HooksOK(model, op, heap) /\ DOMAIN op = CallFields /\ op.loads \in Nat
  BY LiveState DEF CallOK
<1>2. /\ DOMAIN p = CallFields /\ p.phase = op.phase /\ p.kind = op.kind /\ p.roots = op.roots
      /\ p.todo = op.todo /\ p.trx = op.trx /\ p.known = op.known /\ p.ctx = op.ctx
      /\ p.outer = op.outer /\ p.segs = op.segs /\ p.items = op.items /\ p.above = op.above
      /\ p.loads = op.loads + 1
  BY <1>1 DEF CallFields
<1> HIDE DEF p
<1>3. o = IF op.kind = "find" /\ op.trx /\ Len(op.segs) > 1
            THEN [p EXCEPT !.ctx = @ + 1, !.known = TRUE] ELSE p
  BY <1>2 DEF Opened, InContext, p
<1> HIDE DEF o
<1>4. /\ DOMAIN o = CallFields /\ o.phase = op.phase /\ o.kind = op.kind /\ o.roots = op.roots
      /\ o.todo = op.todo /\ o.trx = op.trx
      /\ o.outer = op.outer /\ o.segs = op.segs /\ o.items = op.items /\ o.above = op.above
      /\ o.loads = op.loads + 1
  BY <1>2, <1>3 DEF CallFields
<1>5. IF op.kind = "find" /\ op.trx /\ Len(op.segs) > 1
        THEN o.ctx = op.ctx + 1 /\ o.known = TRUE ELSE o.ctx = op.ctx /\ o.known = op.known
  BY <1>2, <1>3 DEF CallFields
<1>6. Depths(o) = Depths(op) /\ (\A n : Level(o, n) = Level(op, n)) /\ Nested(o) = Nested(op)
  BY <1>4 DEF Depths, Level, Nested
<1>7. CallOK(o)
  <2>1. o.known = TRUE \/ o.known = op.known
    BY <1>5
  <2>2. op.known \in BOOLEAN /\ op.loads + 1 \in Nat
    BY <1>1 DEF CallOK
  <2>3. o.known \in BOOLEAN
    BY <2>1, <2>2
  <2> QED BY <1>1, <1>4, <2>2, <2>3 DEF CallOK
<1>8. LevelsOK(o, heap) /\ KindOK(o)
  BY <1>1, <1>4, <1>6 DEF LevelsOK, KindOK
<1>9. HooksOK(model, o, heap)
  BY <1>1, <1>4, <1>6 DEF HooksOK
<1>10. Context(o, Len(op.above) + Nested(o))
  <2>1. Context(op, Len(op.above)) /\ Len(op.above) \in Nat
    BY <1>1 DEF ContextOK, Loading, CallOK
  <2>2. CASE Len(op.segs) > 1
    BY <1>4, <1>5, <2>1, <2>2 DEF Context, Nested
  <2>3. CASE ~ (Len(op.segs) > 1)
    <3>1. o.ctx = op.ctx /\ o.known = op.known /\ Nested(o) = 0
      BY <1>4, <1>5, <2>3 DEF Nested
    <3> QED BY <1>4, <2>1, <3>1 DEF Context
  <2> QED BY <2>2, <2>3
<1>11. BatchesOK(model, heap, o.loads)
  BY <1>1, <1>4, BatchesLater
<1> QED BY <1>1, <1>4, <1>7, <1>8, <1>9, <1>10, <1>11 DEF o

(* A class whose instances own the next relation.                           *)
LEMMA OwnersClass ==
  ASSUME NEW m, NEW o, NEW h, HeapOK(m, h), LevelsOK(o, h), CallOK(o), o.items # {},
         o.phase \in {"open", "links", "fetch"}
  PROVE  /\ o.items \subseteq DOMAIN h /\ Class(o, h) \in DOMAIN m.of
         /\ o.items = Level(o, Len(o.above)) /\ Len(o.above) \in Depths(o)
<1>1. o.items = Level(o, Len(o.above)) /\ Len(o.above) \in Depths(o)
  BY DEF LevelsOK, CallOK, Depths
<1>2. o.items \subseteq DOMAIN h
  BY <1>1 DEF LevelsOK
<1>3. PICK j \in o.items : Class(o, h) = h[j].cls
  BY DEF Class
<1> QED BY <1>1, <1>2, <1>3 DEF HeapOK

LEMMA ContinueStep ==
  ASSUME NEW o, NEW h, WellFormed(model), Ready(model, o, h), Continue(o, h)
  PROVE  OpOK(model, op', heap') /\ Live(op') /\ OnlyAssigns(h, heap', o.items)
<1>1. op' = Proceed(o, h)[1] /\ heap' = Proceed(o, h)[2]
  BY DEF Continue
<1> QED BY <1>1, ProceedStep

(* The call with what OpenRelation wants to read.                           *)
Starting(o, owners, values) ==
  [o EXCEPT !.owners = owners, !.values = values, !.read = {}, !.got = {}, !.pairs = {}]

LEMMA StartingReady ==
  ASSUME IInv, op.phase = "open", op.items # {}, Current(model, op, heap) # Unset,
         NEW owners, NEW values, NEW q, q = Starting(Opened(op), owners, values)
  PROVE  Ready(model, q, heap) /\ q.items = op.items /\ SamePlace(Opened(op), q)
<1> DEFINE r == Current(model, op, heap)
           o == Opened(op)
<1>1. WellFormed(model)
  BY DEF IInv, RowsOK
<1>2. HeapOK(model, heap) /\ LevelsOK(op, heap) /\ CallOK(op) /\ BatchesOK(model, heap, op.loads)
  BY LiveState
<1>3. /\ DOMAIN o = CallFields /\ o.phase = "open" /\ o.items = op.items /\ o.segs = op.segs
      /\ o.above = op.above /\ o.loads - 1 = op.loads
      /\ CallOK(o) /\ LevelsOK(o, heap) /\ KindOK(o) /\ HooksOK(model, o, heap)
      /\ Context(o, Len(op.above) + Nested(o)) /\ BatchesOK(model, heap, o.loads)
  BY OpenState
<1>4. Class(o, heap) = Class(op, heap) /\ Current(model, o, heap) = r
  BY <1>3 DEF Class, Current
<1>5. r \in Items(Relations(model, Class(op, heap)))
  BY <1>1, <1>2, OwnersClass, FoundRelation DEF Current
<1> HIDE DEF o, r
<1>6. /\ SamePlace(o, q) /\ q.phase = "open" /\ q.got = {}
      /\ q.pairs = {} /\ q.items = op.items
  <2>1. q = [o EXCEPT !.owners = owners, !.values = values,
                      !.read = {}, !.got = {}, !.pairs = {}]
    BY DEF Starting, o
  <2> QED BY <1>3, <2>1 DEF SamePlace, CallFields
<1>7. /\ LevelsOK(q, heap) /\ KindOK(q) /\ CallOK(q) /\ HooksOK(model, q, heap)
      /\ Class(q, heap) = Class(o, heap) /\ Current(model, q, heap) = r
  BY <1>3, <1>4, <1>6, SamePlaceFacts
<1>8. Context(q, Len(op.above) + Nested(o)) /\ Nested(q) = Nested(o)
      /\ q.above = op.above /\ q.loads - 1 = op.loads
  BY <1>3, <1>6, SamePlaceFacts DEF SamePlace
<1>9. FetchedOK(model, q, heap)
  BY <1>4, <1>5, <1>6, <1>7 DEF FetchedOK
<1> QED BY <1>2, <1>6, <1>7, <1>8, <1>9 DEF Ready, o

LEMMA OpenRelationStep ==
  ASSUME IInv, OpenRelation
  PROVE  /\ OpOK(model, op', heap') /\ OnlyAssigns(heap, heap', op.items)
         /\ op'.phase = "ended" /\ op'.outcome = "mixing" =>
              op'.outer = op.outer /\ Executor(Opened(op), Opened(op).trx) = Fault
<1> DEFINE r       == Current(model, op, heap)
           o       == Opened(op)
           keys    == KeyValues(o, heap, r)
           owners  == IF r.type = "many-to-many" THEN keys ELSE {}
           values  == IF r.type = "many-to-many" THEN {} ELSE keys
           started == [o EXCEPT !.owners = owners, !.values = values,
                                !.read = {}, !.got = {}, !.pairs = {}]
<1>1. op.phase = "open" /\ op.items # {} /\ WellFormed(model)
  BY DEF OpenRelation, IInv, RowsOK
<1>2. HeapOK(model, heap) /\ LevelsOK(op, heap) /\ CallOK(op) /\ HooksOK(model, op, heap)
  BY <1>1, LiveState
<1>3. /\ DOMAIN o = CallFields /\ o.phase = "open" /\ o.items = op.items /\ o.segs = op.segs
      /\ o.outer = op.outer /\ o.trx = op.trx /\ o.above = op.above /\ o.kind = op.kind
      /\ o.loads - 1 = op.loads
      /\ CallOK(o) /\ LevelsOK(o, heap) /\ KindOK(o) /\ HooksOK(model, o, heap)
      /\ Context(o, Len(op.above) + Nested(o)) /\ BatchesOK(model, heap, o.loads)
  BY <1>1, OpenState
<1>4. OnlyAssigns(heap, heap, op.items)
  BY DEF OnlyAssigns
<1>5. ASSUME NEW outcome, outcome # "ok", Ended(outcome), heap' = heap
      PROVE  /\ OpOK(model, op', heap') /\ OnlyAssigns(heap, heap', op.items)
             /\ op'.outcome = outcome /\ op'.outer = op.outer
  BY <1>1, <1>4, <1>5, EndStep
<1>6. /\ Class(op, heap) \in DOMAIN model.of
      /\ r # Unset => r \in Items(Relations(model, Class(op, heap)))
  BY <1>1, <1>2, OwnersClass, FoundRelation DEF Current
<1>7. Class(o, heap) = Class(op, heap) /\ Current(model, o, heap) = r
  BY <1>3 DEF Class, Current
<1>8. ASSUME op' = Descend(o, {}), heap' = heap
      PROVE  OpOK(model, op', heap') /\ Live(op') /\ OnlyAssigns(heap, heap', op.items)
  <2>1. Handed(model, o, heap, {})
    BY <1>2, <1>3 DEF Handed, HooksOK
  <2>2. OpOK(model, Descend(o, {}), heap) /\ Live(Descend(o, {}))
    BY <2>1, DescendCall
  <2> QED BY <1>4, <1>8, <2>2
<1>9. ASSUME r # Unset, Continue(started, heap)
      PROVE  OpOK(model, op', heap') /\ Live(op') /\ OnlyAssigns(heap, heap', op.items)
  <2>1. started = Starting(o, owners, values)
    BY DEF Starting
  <2> HIDE DEF o, owners, values, started
  <2>2. Ready(model, started, heap) /\ started.items = op.items
    BY <1>1, <1>9, <2>1, StartingReady DEF o
  <2> QED BY <1>1, <1>9, <2>2, ContinueStep
<1>10. \/ Ended("unknown relation") /\ heap' = heap
       \/ Ended("configuration") /\ heap' = heap
       \/ Ended("undefined") /\ heap' = heap
       \/ op' = Descend(o, {}) /\ heap' = heap
       \/ Executor(o, o.trx) = Fault /\ Ended("mixing") /\ heap' = heap
       \/ r # Unset /\ Continue(started, heap)
  BY DEF OpenRelation, Opened
<1> HIDE DEF o, started
<1>11. CASE Ended("unknown relation") /\ heap' = heap
  <2>1. /\ OpOK(model, op', heap') /\ OnlyAssigns(heap, heap', op.items)
        /\ op'.outcome = "unknown relation"
    BY <1>5, <1>11
  <2> QED BY <2>1
<1>12. CASE Ended("configuration") /\ heap' = heap
  BY <1>5, <1>12
<1>13. CASE Ended("undefined") /\ heap' = heap
  BY <1>5, <1>13
<1>14. CASE op' = Descend(o, {}) /\ heap' = heap
  BY <1>8, <1>14 DEF Live
<1>15. CASE Executor(o, o.trx) = Fault /\ Ended("mixing") /\ heap' = heap
  BY <1>5, <1>15 DEF o
<1>16. CASE r # Unset /\ Continue(started, heap)
  BY <1>9, <1>16 DEF Live
<1> QED BY <1>10, <1>11, <1>12, <1>13, <1>14, <1>15, <1>16

(* The call with the links of a chunk of its owners.                        *)
LEMMA LinkedReady ==
  ASSUME IInv, op.phase = "links", NEW owners, NEW read, NEW values,
         NEW o, o = [op EXCEPT !.owners = owners, !.read = read, !.values = values]
  PROVE  Ready(model, o, heap) /\ SamePlace(op, o)
<1>1. /\ HeapOK(model, heap) /\ CallOK(op) /\ LevelsOK(op, heap) /\ KindOK(op)
      /\ ContextOK(op) /\ HooksOK(model, op, heap) /\ DOMAIN op = CallFields
      /\ LiveOK(model, op, heap)
  BY LiveState
<1>2. FetchedOK(model, op, heap) /\ BatchesOK(model, heap, op.loads - 1)
  BY <1>1 DEF LiveOK, Loading
<1>3. SamePlace(op, o) /\ o.phase = "links" /\ o.got = op.got /\ o.pairs = op.pairs
  BY <1>1 DEF SamePlace, CallFields
<1>4. \A p \in o.pairs : p[2] \in o.got
  BY <1>2, <1>3 DEF FetchedOK
<1>5. /\ CallOK(o) /\ LevelsOK(o, heap) /\ KindOK(o) /\ HooksOK(model, o, heap)
      /\ FetchedOK(model, o, heap)
  BY <1>1, <1>2, <1>3, <1>4, SamePlaceFacts
<1>6. Context(o, Len(op.above) + Nested(op)) /\ Nested(o) = Nested(op) /\ o.above = op.above
      /\ o.loads = op.loads /\ o.items = op.items
  <2>1. Context(op, Len(op.above) + Nested(op))
    BY <1>1 DEF ContextOK, Loading, Nested
  <2>2. Context(o, Len(op.above) + Nested(op)) /\ Nested(o) = Nested(op)
    BY <1>3, <2>1, SamePlaceFacts
  <2>3. o.above = op.above /\ o.loads = op.loads /\ o.items = op.items
    BY <1>3 DEF SamePlace
  <2> QED BY <2>2, <2>3
<1> QED BY <1>1, <1>2, <1>3, <1>5, <1>6 DEF Ready

LEMMA ReadLinksStep ==
  ASSUME IInv, ReadLinks
  PROVE  OpOK(model, op', heap') /\ Live(op') /\ OnlyAssigns(heap, heap', op.items)
<1>1. op.phase = "links" /\ WellFormed(model)
  BY DEF ReadLinks, IInv, RowsOK
<1>2. PICK chunk, read, missing :
        Continue([op EXCEPT !.owners = @ \ chunk, !.read = read, !.values = missing], heap)
  BY DEF ReadLinks
<1> DEFINE rest == op.owners \ chunk
           o == [op EXCEPT !.owners = rest, !.read = read, !.values = missing]
<1>3. Continue(o, heap)
  BY <1>2
<1> HIDE DEF rest
<1>4. Ready(model, o, heap) /\ SamePlace(op, o)
  BY <1>1, LinkedReady
<1> HIDE DEF o
<1>5. o.items = op.items
  BY <1>4 DEF SamePlace
<1> QED BY <1>1, <1>3, <1>4, <1>5, ContinueStep

(* What hydrate() appends is held by nobody and holds nothing.              *)
IsExtended(h, C, o, immediate) ==
  LET new == (Len(heap) + 1)..Len(h)
  IN  /\ HeapOK(model, h) /\ DOMAIN h = DOMAIN heap \cup new
      /\ DOMAIN heap \cap new = {}
      /\ \A i \in DOMAIN heap : h[i] = heap[i] /\ Held(model, h, i) = Held(model, heap, i)
      /\ \A i \in new :
           /\ Held(model, h, i) = {}
           /\ h[i].cls = C /\ h[i].batch = o.loads
           /\ h[i].hooked = (IF immediate THEN 1 ELSE 0)
           /\ h[i].via = (IF immediate THEN {Executor(o, FALSE)} ELSE {})
      /\ \A i, j \in new : h[i].key = h[j].key => i = j
      /\ \A n : BatchesOK(model, heap, n) => BatchesOK(model, h, n)

LEMMA ExtendedHeap ==
  ASSUME RowsOK(model, rows), HeapOK(model, heap), NEW C \in DOMAIN model.of,
         NEW keys \in SUBSET DOMAIN rows[C], NEW o, NEW immediate \in BOOLEAN
  PROVE  IsExtended(Hydrated(heap, C, keys, o, immediate), C, o, immediate)
<1> DEFINE h   == Hydrated(heap, C, keys, o, immediate)
           new == (Len(heap) + 1)..Len(h)
<1>1. IsHydrated(heap, h, C, keys, o, immediate) /\ Instances(heap)
  <2>1. IsFiniteSet(keys)
    BY FS_Subset DEF RowsOK
  <2>2. Instances(heap)
    BY DEF HeapOK
  <2> QED BY <2>1, <2>2, HydratedShape
<1> HIDE DEF h
<1>2. /\ Len(heap) \in Nat /\ DOMAIN heap = 1..Len(heap) /\ DOMAIN h = 1..Len(h)
      /\ h \in Seq(Items(h)) /\ Len(h) \in Nat /\ Len(h) >= Len(heap)
  BY <1>1 DEF IsHydrated, Instances
<1>3. DOMAIN h = DOMAIN heap \cup new /\ DOMAIN heap \cap new = {}
  BY <1>2
<1>4. \A i \in DOMAIN heap : h[i] = heap[i]
  BY <1>1 DEF IsHydrated
<1>5. ASSUME NEW i \in new
      PROVE  /\ DOMAIN h[i] = Fields /\ h[i].cls = C /\ h[i].batch = o.loads
             /\ h[i].rel = [p \in {r.prop : r \in Items(Relations(model, C))} |-> Unset]
             /\ h[i].hooked = (IF immediate THEN 1 ELSE 0)
             /\ h[i].via = (IF immediate THEN {Executor(o, FALSE)} ELSE {})
  BY <1>1 DEF IsHydrated
<1>6. \A i, j \in new : h[i].key = h[j].key => i = j
  BY <1>1 DEF IsHydrated
<1> HIDE DEF new
<1>7. ASSUME NEW i \in DOMAIN heap
      PROVE  /\ Held(model, h, i) = Held(model, heap, i)
             /\ \A p : Targets(model, h, i, p) = Targets(model, heap, i, p)
  <2>1. h[i].cls = heap[i].cls /\ h[i].rel = heap[i].rel
    BY <1>4
  <2> QED BY <2>1, SameHeld
<1>8. ASSUME NEW i \in new
      PROVE  /\ Held(model, h, i) = {}
             /\ \A p \in DOMAIN h[i].rel : Targets(model, h, i, p) = {}
  <2>1. \A p \in DOMAIN h[i].rel : h[i].rel[p] = Unset
    BY <1>5
  <2> QED BY <2>1, HeldNothing
<1>9. HeapOK(model, h)
  <2>1. Instances(h)
    BY <1>1, <1>2, <1>3, <1>4, <1>5 DEF Instances
  <2>2. ASSUME NEW i \in DOMAIN heap
        PROVE  /\ h[i].cls \in DOMAIN model.of
               /\ DOMAIN h[i].rel = {r.prop : r \in Items(Relations(model, h[i].cls))}
               /\ h[i].hooked \in {0, 1}
               /\ h[i].hooked = 0 => h[i].via = {}
               /\ Held(model, h, i) \subseteq DOMAIN h
    BY <1>3, <1>4, <1>7 DEF HeapOK
  <2>3. ASSUME NEW i \in new
        PROVE  /\ h[i].cls \in DOMAIN model.of
               /\ DOMAIN h[i].rel = {r.prop : r \in Items(Relations(model, h[i].cls))}
               /\ h[i].hooked \in {0, 1}
               /\ h[i].hooked = 0 => h[i].via = {}
               /\ Held(model, h, i) \subseteq DOMAIN h
    <3>1. h[i].cls \in DOMAIN model.of /\ Held(model, h, i) \subseteq DOMAIN h
      BY <1>5, <1>8
    <3>2. DOMAIN h[i].rel = {r.prop : r \in Items(Relations(model, h[i].cls))}
      BY <1>5
    <3>3. h[i].hooked \in {0, 1} /\ (h[i].hooked = 0 => h[i].via = {})
      <4>1. CASE immediate
        <5>1. h[i].hooked = 1
          BY <1>5, <4>1
        <5> QED BY <5>1
      <4>2. CASE ~ immediate
        BY <1>5, <4>2
      <4> QED BY <4>1, <4>2
    <3> QED BY <3>1, <3>2, <3>3
  <2> QED BY <1>3, <2>1, <2>2, <2>3 DEF HeapOK
<1>10. ASSUME NEW n, BatchesOK(model, heap, n) PROVE BatchesOK(model, h, n)
  <2>1. \A i \in DOMAIN heap : \A y \in Held(model, heap, i) : y \in DOMAIN heap
    BY DEF HeapOK
  <2>2. \A i \in DOMAIN h : \A y \in Held(model, h, i) :
          i \in DOMAIN heap /\ y \in Held(model, heap, i) /\ h[y] = heap[y]
    BY <1>3, <1>4, <1>7, <1>8, <2>1
  <2>3. \A i \in DOMAIN h : \A y \in Held(model, h, i) : h[y].batch \in Nat /\ h[y].batch <= n
    BY <1>10, <2>2 DEF BatchesOK
  <2>4. \A i, j \in DOMAIN h : \A y \in Held(model, h, i), z \in Held(model, h, j) :
          h[y].batch = h[z].batch /\ h[y].key = h[z].key => y = z
    BY <1>10, <2>2 DEF BatchesOK
  <2>5. ASSUME NEW i \in DOMAIN h, NEW j \in DOMAIN h, i # j, h[i].cls = h[j].cls,
               NEW p \in DOMAIN h[i].rel,
               Relation(model, h[i].cls, p).type = "one-to-many"
        PROVE  Targets(model, h, i, p) \cap Targets(model, h, j, p) = {}
    <3>1. DOMAIN h[i].rel = DOMAIN h[j].rel
      BY <1>9, <2>5 DEF HeapOK
    <3>2. CASE i \in new \/ j \in new
      BY <1>8, <2>5, <3>1, <3>2
    <3>3. CASE i \in DOMAIN heap /\ j \in DOMAIN heap
      BY <1>4, <1>7, <1>10, <2>5, <3>3 DEF BatchesOK
    <3> QED BY <1>3, <3>2, <3>3
  <2> QED BY <2>3, <2>4, <2>5 DEF BatchesOK
<1> QED BY <1>3, <1>4, <1>5, <1>6, <1>7, <1>8, <1>9, <1>10 DEF IsExtended, h, new

(* The call with the instances of a chunk of rows.                          *)
ChunkRows(r, chunk) ==
  {k \in DOMAIN rows[r.target] : Cell(r.target, k, FetchColumn(r)) \in chunk}

Given(o, h, chunk) ==
  [o EXCEPT !.values = @ \ chunk,
            !.got = @ \cup NotSeen(h, (Len(heap) + 1)..Len(h), o.got)]

LEMMA GivenReady ==
  ASSUME IInv, op.phase = "fetch", NEW chunk,
         NEW r, r = Current(model, op, heap),
         NEW h, h = Hydrated(heap, r.target, ChunkRows(r, chunk), op, ~ Deferred(op)),
         NEW o, o = Given(op, h, chunk)
  PROVE  /\ Ready(model, o, h) /\ SamePlace(op, o)
         /\ IsExtended(h, r.target, op, ~ Deferred(op))
<1> DEFINE keys == ChunkRows(r, chunk)
           now  == ~ Deferred(op)
           new  == (Len(heap) + 1)..Len(h)
           rest == op.values \ chunk
           all  == op.got \cup NotSeen(h, new, op.got)
<1>1. WellFormed(model) /\ RowsOK(model, rows)
  BY DEF IInv, RowsOK
<1>2. /\ HeapOK(model, heap) /\ CallOK(op) /\ LevelsOK(op, heap) /\ KindOK(op)
      /\ ContextOK(op) /\ HooksOK(model, op, heap) /\ DOMAIN op = CallFields
      /\ LiveOK(model, op, heap) /\ op.loads \in Nat
  BY LiveState DEF CallOK
<1>3. FetchedOK(model, op, heap) /\ BatchesOK(model, heap, op.loads - 1)
  BY <1>2 DEF LiveOK, Loading
<1>4. /\ op.items \subseteq DOMAIN heap /\ Class(op, heap) \in DOMAIN model.of
      /\ op.items # {}
  BY <1>2, <1>3, OwnersClass DEF FetchedOK
<1>5. r.target \in DOMAIN model.of
  BY <1>1, <1>3, <1>4 DEF FetchedOK, WellFormed
<1>6. IsExtended(h, r.target, op, now)
  <2>1. now \in BOOLEAN /\ keys \in SUBSET DOMAIN rows[r.target]
    BY DEF Deferred, ChunkRows
  <2>2. h = Hydrated(heap, r.target, keys, op, now)
    OBVIOUS
  <2> HIDE DEF now, keys
  <2> QED BY <1>1, <1>2, <1>5, <2>1, <2>2, ExtendedHeap
<1>7. o = [op EXCEPT !.values = rest, !.got = all]
  BY DEF Given
<1>9. /\ HeapOK(model, h) /\ DOMAIN h = DOMAIN heap \cup new
      /\ DOMAIN heap \cap new = {}
      /\ \A i \in DOMAIN heap : h[i] = heap[i] /\ Held(model, h, i) = Held(model, heap, i)
      /\ \A i \in new :
           /\ Held(model, h, i) = {}
           /\ h[i].cls = r.target /\ h[i].batch = op.loads
           /\ h[i].hooked = (IF now THEN 1 ELSE 0)
           /\ h[i].via = (IF now THEN {Executor(op, FALSE)} ELSE {})
      /\ \A i, j \in new : h[i].key = h[j].key => i = j
      /\ \A n : BatchesOK(model, heap, n) => BatchesOK(model, h, n)
  <2> HIDE DEF now
  <2> QED BY <1>6 DEF IsExtended
<1> HIDE DEF new, all, keys
<1>10. SamePlace(op, o) /\ o.phase = "fetch" /\ o.got = all /\ o.pairs = op.pairs
  BY <1>2, <1>7 DEF SamePlace, CallFields
<1>11. LevelsOK(op, h) /\ HooksOK(model, op, h)
  <2>1. \A n \in Depths(op) : \A i \in Level(op, n) : i \in DOMAIN h /\ h[i] = heap[i]
    BY <1>2, <1>9 DEF LevelsOK
  <2>2. LevelsOK(op, h)
    BY <1>2, <2>1 DEF LevelsOK
  <2>3. ASSUME op.kind = "find", NEW i \in DOMAIN h, NEW y \in Held(model, h, i)
        PROVE  \/ h[y].hooked = 1
               \/ \E k, n \in Depths(op) : k < n /\ i \in Level(op, k) /\ y \in Level(op, n)
    <3>1. i \in DOMAIN heap /\ y \in Held(model, heap, i) /\ y \in DOMAIN heap /\ h[y] = heap[y]
      BY <1>2, <1>9, <2>3 DEF HeapOK
    <3> QED BY <1>2, <2>3, <3>1 DEF HooksOK
  <2>4. op.kind = "find" => \A n \in Depths(op) : \A i \in Level(op, n) : h[i].hooked = 0
    BY <1>2, <2>1 DEF HooksOK
  <2> QED BY <2>2, <2>3, <2>4 DEF HooksOK
<1>12. Class(op, h) = Class(op, heap) /\ Current(model, op, h) = r
  <2>1. (CHOOSE i \in op.items : TRUE) \in op.items
    BY <1>4
  <2>2. Class(op, h) = Class(op, heap)
    BY <1>4, <1>9, <2>1 DEF Class
  <2> QED BY <2>2 DEF Current
<1>13. all \subseteq DOMAIN h /\ op.got \subseteq all /\ op.got \subseteq DOMAIN heap
       /\ \A i \in all :
            \/ i \in op.got
            \/ i \in new /\ \A y \in op.got : h[y].key # h[i].key
  <2>1. NotSeen(h, new, op.got) \subseteq new
        /\ \A i \in NotSeen(h, new, op.got) : \A y \in op.got : h[y].key # h[i].key
    BY DEF NotSeen
  <2>2. op.got \subseteq DOMAIN heap
    BY <1>3 DEF FetchedOK
  <2>3. \A i \in all : i \in op.got \/ i \in NotSeen(h, new, op.got)
    BY DEF all
  <2>4. op.got \subseteq all
    BY DEF all
  <2> QED BY <1>9, <2>1, <2>2, <2>3, <2>4
<1>14. ASSUME NEW i \in all
       PROVE  /\ h[i].cls = r.target /\ h[i].batch = op.loads
              /\ op.kind = "find" => h[i].hooked = IF Deferred(op) THEN 0 ELSE 1
              /\ \A n \in Depths(op) : i \notin Level(op, n)
  <2>1. CASE i \in op.got
    BY <1>3, <1>9, <1>13, <2>1 DEF FetchedOK
  <2>2. CASE i \in new
    <3>1. \A n \in Depths(op) : i \notin Level(op, n)
      BY <1>2, <1>9, <2>2 DEF LevelsOK
    <3>2. h[i].cls = r.target /\ h[i].batch = op.loads
      BY <1>9, <2>2
    <3>3. h[i].hooked = IF Deferred(op) THEN 0 ELSE 1
      BY <1>9, <2>2
    <3> QED BY <3>1, <3>2, <3>3
  <2> QED BY <1>13, <2>1, <2>2
<1>15. ASSUME NEW i \in all, NEW j \in all, h[i].key = h[j].key
       PROVE  i = j
  <2>1. CASE i \in op.got /\ j \in op.got
    BY <1>3, <1>9, <1>13, <1>15, <2>1 DEF FetchedOK
  <2>2. CASE i \notin op.got /\ j \notin op.got
    BY <1>9, <1>13, <1>15, <2>2
  <2> QED BY <1>13, <1>15, <2>1, <2>2
<1>16. FetchedOK(model, op, heap) /\ (\A p \in op.pairs : p[2] \in all)
  BY <1>3, <1>13 DEF FetchedOK
<1>17. FetchedOK(model, o, h)
  <2>1. /\ o.items = op.items /\ o.loads = op.loads /\ o.kind = op.kind
        /\ Class(o, h) = Class(op, h) /\ Current(model, o, h) = r
        /\ Deferred(o) = Deferred(op) /\ Depths(o) = Depths(op)
        /\ \A n : Level(o, n) = Level(op, n)
    BY <1>10, <1>12, SamePlaceFacts DEF SamePlace
  <2>2. r \in Items(Relations(model, Class(op, heap)))
    BY <1>3 DEF FetchedOK
  <2> QED BY <1>4, <1>10, <1>12, <1>13, <1>14, <1>15, <1>16, <2>1, <2>2 DEF FetchedOK
<1>18. /\ CallOK(o) /\ LevelsOK(o, h) /\ KindOK(o) /\ HooksOK(model, o, h)
       /\ Nested(o) = Nested(op) /\ o.above = op.above /\ o.loads = op.loads
       /\ o.items = op.items
  BY <1>2, <1>10, <1>11, SamePlaceFacts DEF SamePlace
<1>19. Context(o, Len(op.above) + Nested(op))
  <2>1. Context(op, Len(op.above) + Nested(op))
    BY <1>2 DEF ContextOK, Loading
  <2> QED BY <1>10, <2>1, SamePlaceFacts
<1>20. Ready(model, o, h)
  BY <1>3, <1>9, <1>10, <1>17, <1>18, <1>19 DEF Ready
<1> QED BY <1>6, <1>10, <1>20

LEMMA FetchChunkStep ==
  ASSUME IInv, FetchChunk
  PROVE  /\ OpOK(model, op', heap') /\ Live(op')
         /\ OnlyAssigns(heap, heap', op.items)
         /\ \A i \in DOMAIN heap' \ DOMAIN heap : heap'[i].via \subseteq {Executor(op, FALSE)}
<1> DEFINE r == Current(model, op, heap)
<1>1. op.phase = "fetch" /\ WellFormed(model)
  BY DEF FetchChunk, IInv, RowsOK
<1>2. PICK chunk :
        LET h == Hydrated(heap, r.target, ChunkRows(r, chunk), op, ~ Deferred(op))
        IN  Continue(Given(op, h, chunk), h)
  BY DEF FetchChunk, ChunkRows, Given
<1> DEFINE h   == Hydrated(heap, r.target, ChunkRows(r, chunk), op, ~ Deferred(op))
           new == (Len(heap) + 1)..Len(h)
           o   == Given(op, h, chunk)
<1>3. Continue(o, h)
  BY <1>2
<1>4. /\ Ready(model, o, h) /\ SamePlace(op, o)
      /\ IsExtended(h, r.target, op, ~ Deferred(op))
  <2> HIDE DEF r
  <2> QED BY <1>1, GivenReady DEF r
<1> HIDE DEF h, o
<1>5. /\ DOMAIN h = DOMAIN heap \cup new
      /\ \A i \in DOMAIN heap : h[i] = heap[i]
      /\ \A i \in new : h[i].via \in {{Executor(op, FALSE)}, {}}
  BY <1>4 DEF IsExtended
<1>6. o.items = op.items
  BY <1>4 DEF SamePlace
<1> HIDE DEF new
<1>7. OpOK(model, op', heap') /\ Live(op') /\ OnlyAssigns(h, heap', o.items)
  BY <1>1, <1>3, <1>4, ContinueStep
<1>8. DOMAIN heap' = DOMAIN h
  BY <1>3 DEF Continue, Proceed, Assigned
<1>9. OnlyAssigns(heap, heap', op.items)
  BY <1>5, <1>6, <1>7 DEF OnlyAssigns
<1>10. ASSUME NEW i \in DOMAIN heap' \ DOMAIN heap
       PROVE  heap'[i].via \subseteq {Executor(op, FALSE)}
  <2>1. i \in new /\ heap'[i].via = h[i].via
    BY <1>5, <1>7, <1>8 DEF OnlyAssigns
  <2> QED BY <1>5, <2>1
<1> QED BY <1>7, <1>9, <1>10

LEMMA Busy ==
  ASSUME NEW m, NEW o, NEW h, OpOK(m, o, h)
  PROVE  o # Idle
BY DEF OpOK, Idle

LEMMA QueryFailsStep ==
  ASSUME IInv, QueryFails
  PROVE  OpOK(model, op', heap') /\ heap' = heap /\ op'.outcome = "failed"
<1>1. op.phase \notin {"idle", "ended"} /\ Ended("failed") /\ heap' = heap
  BY DEF QueryFails
<1> QED BY <1>1, EndStep

LEMMA RequestStep ==
  ASSUME IInv, Request
  PROVE  op = Idle /\ heap = <<>> /\ OpOK(model, op', heap') /\ model' = model /\ rows' = rows
<1>1. RowsOK(model, rows) /\ WellFormed(model)
  BY DEF IInv, RowsOK
<1>2. PICK C \in Built(model), mode \in Modes :
        \E K \in SUBSET DOMAIN rows[C] \ {{}} :
          \/ Find(C, K, mode)
          \/ \E p \in {r.prop : r \in Items(Relations(model, C))}, whole \in BOOLEAN :
               LoadRelations(C, K, <<p>>, whole, mode)
  BY DEF Request
<1>3. PICK K \in SUBSET DOMAIN rows[C] :
          \/ Find(C, K, mode)
          \/ \E p \in {r.prop : r \in Items(Relations(model, C))}, whole \in BOOLEAN :
               LoadRelations(C, K, <<p>>, whole, mode)
  BY <1>2
<1>4. CASE Find(C, K, mode)
  <2>1. OpOK(model, op', heap')
    BY <1>1, <1>4, FindStep
  <2>2. op = Idle /\ model' = model /\ rows' = rows
    BY <1>4 DEF Find
  <2> QED BY <2>1, <2>2 DEF IInv
<1>5. ASSUME NEW p \in {r.prop : r \in Items(Relations(model, C))}, NEW whole \in BOOLEAN,
             LoadRelations(C, K, <<p>>, whole, mode)
      PROVE  op = Idle /\ heap = <<>> /\ OpOK(model, op', heap') /\ model' = model /\ rows' = rows
  <2>1. C \in DOMAIN model.of
    BY <1>1, BuiltClass
  <2>2. p \in STRING
    BY <1>1, <2>1 DEF WellFormed
  <2>3. OpOK(model, op', heap')
    BY <1>1, <1>5, <2>2, LoadRelationsStep
  <2>4. op = Idle /\ model' = model /\ rows' = rows
    BY <1>5 DEF LoadRelations
  <2> QED BY <2>3, <2>4 DEF IInv
<1> QED BY <1>3, <1>4, <1>5

LEMMA RowsStep ==
  ASSUME RowsOK(model, rows), Change \/ RemoveRow \/ Unlink \/ Link
  PROVE  /\ RowsOK(model, rows') /\ op.phase \in {"links", "fetch"}
         /\ model' = model /\ op' = op /\ heap' = heap
<1>1. op.phase \in {"links", "fetch"} /\ model' = model /\ op' = op /\ heap' = heap
  BY DEF Change, RemoveRow, Unlink, Link, MayWrite
<1>2. CASE rows' = rows
  BY <1>1, <1>2
<1>3. CASE Change
  <2>1. PICK C \in DOMAIN rows : \E k \in DOMAIN rows[C] : \E c \in DOMAIN rows[C][k] :
          \E v \in {Null} \cup UNION {DOMAIN rows[D] : D \in DOMAIN rows \ {C}} :
            v # rows[C][k][c] /\ rows' = [rows EXCEPT ![C][k][c] = v]
    BY <1>3, Zenon DEF Change
  <2>2. PICK k \in DOMAIN rows[C] : \E c, v : rows' = [rows EXCEPT ![C][k][c] = v]
    BY <2>1
  <2>3. PICK c, v : rows' = [rows EXCEPT ![C][k][c] = v]
    BY <2>2
  <2>4. DOMAIN rows' = DOMAIN rows /\ \A D \in DOMAIN rows : DOMAIN rows'[D] = DOMAIN rows[D]
    BY <2>3
  <2> QED BY <1>1, <2>4 DEF RowsOK
<1>4. CASE RemoveRow
  <2>1. PICK C \in DOMAIN rows : \E k \in DOMAIN rows[C] :
          rows' = [rows EXCEPT ![C] = [j \in DOMAIN @ \ {k} |-> @[j]]]
    BY <1>4 DEF RemoveRow
  <2>2. PICK k \in DOMAIN rows[C] :
          rows' = [rows EXCEPT ![C] = [j \in DOMAIN rows[C] \ {k} |-> rows[C][j]]]
    BY <2>1
  <2>3. DOMAIN rows' = DOMAIN rows
        /\ \A D \in DOMAIN rows : DOMAIN rows'[D] \subseteq DOMAIN rows[D]
    BY <2>2
  <2>4. \A D \in DOMAIN rows : IsFiniteSet(DOMAIN rows'[D])
    BY <2>3, FS_Subset DEF RowsOK
  <2> QED BY <1>1, <2>3, <2>4 DEF RowsOK
<1>5. CASE Unlink \/ Link
  BY <1>2, <1>5 DEF Unlink, Link
<1> QED BY <1>1, <1>3, <1>4, <1>5

LEMMA InitIInv == Init => IInv
<1> SUFFICES ASSUME Init PROVE IInv
  OBVIOUS
<1>1. PICK s \in Starts : model = s.model /\ rows = s.rows
  BY DEF Init
<1>2. RowsOK(model, rows)
  BY <1>1, StartsAssumption DEF RowsOK
<1> QED BY <1>2 DEF Init, IInv

LEMMA StepIInv == IInv /\ [Next]_vars => IInv'
<1> SUFFICES ASSUME IInv, [Next]_vars PROVE IInv'
  OBVIOUS
<1>1. RowsOK(model, rows)
  BY DEF IInv
<1>2. ASSUME OpOK(model, op', heap'), model' = model, rows' = rows
      PROVE  IInv'
  <2>1. op' # Idle
    BY <1>2, Busy
  <2>2. OpOK(model', op', heap') /\ RowsOK(model', rows')
    BY <1>1, <1>2
  <2> QED BY <2>1, <2>2 DEF IInv, Idle
<1>3. CASE Request
  BY <1>2, <1>3, RequestStep
<1>4. CASE NextPath
  BY <1>2, <1>4, NextPathStep DEF NextPath
<1>5. CASE NoOwners
  BY <1>2, <1>5, NoOwnersStep DEF NoOwners
<1>6. CASE OpenRelation
  <2>1. OpOK(model, op', heap')
    BY <1>6, OpenRelationStep
  <2>2. model' = model /\ rows' = rows
    BY <1>6 DEF OpenRelation
  <2> QED BY <1>2, <2>1, <2>2
<1>7. CASE ReadLinks
  <2>1. OpOK(model, op', heap')
    BY <1>7, ReadLinksStep
  <2>2. model' = model /\ rows' = rows
    BY <1>7 DEF ReadLinks
  <2> QED BY <1>2, <2>1, <2>2
<1>8. CASE FetchChunk
  <2>1. OpOK(model, op', heap')
    BY <1>8, FetchChunkStep
  <2>2. model' = model /\ rows' = rows
    BY <1>8 DEF FetchChunk
  <2> QED BY <1>2, <2>1, <2>2
<1>9. CASE Unwind
  BY <1>2, <1>9, UnwindStep DEF Unwind
<1>10. CASE QueryFails
  BY <1>2, <1>10, QueryFailsStep DEF QueryFails
<1>11. CASE Change \/ RemoveRow \/ Unlink \/ Link
  <2>1. /\ RowsOK(model, rows') /\ op.phase \in {"links", "fetch"}
        /\ model' = model /\ op' = op /\ heap' = heap
    BY <1>1, <1>11, RowsStep
  <2>2. op # Idle
    BY <2>1 DEF Idle
  <2>3. OpOK(model, op, heap)
    BY <2>2 DEF IInv
  <2>4. op' # Idle /\ OpOK(model', op', heap') /\ RowsOK(model', rows')
    BY <2>1, <2>2, <2>3
  <2> QED BY <2>4 DEF IInv, Idle
<1>12. CASE UNCHANGED vars
  <2>1. model' = model /\ rows' = rows /\ op' = op /\ heap' = heap
    BY <1>12 DEF vars
  <2> QED BY <2>1 DEF IInv, Idle
<1> QED BY <1>3, <1>4, <1>5, <1>6, <1>7, <1>8, <1>9, <1>10, <1>11, <1>12 DEF Next, Step

(* The invariant that the following theorems rest on.                       *)
THEOREM Invariance == Spec => []IInv
BY InitIInv, StepIInv, PTL DEF Spec

(* One load of a relation gives one instance for a row: of the instances    *)
(* that all owners together hold from it no two have one key, and no two    *)
(* owners share one of a one-to-many relation, however the chunks were cut  *)
(* and whatever was written between them.                                   *)
THEOREM OneInstance == Spec => []OneInstancePerRow
<1>1. IInv => OneInstancePerRow
  <2> SUFFICES ASSUME IInv PROVE OneInstancePerRow
    OBVIOUS
  <2>1. CASE op = Idle
    BY <2>1 DEF IInv, OneInstancePerRow
  <2>2. CASE op # Idle
    <3>1. BatchesOK(model, heap, op.loads)
      BY <2>2 DEF IInv, OpOK
    <3> QED BY <3>1 DEF BatchesOK, OneInstancePerRow
  <2> QED BY <2>1, <2>2
<1> QED BY <1>1, Invariance, PTL
---------------------------------------------------------------------------
(* What every step keeps to: HookedAfterDescendants, for one step.          *)
HookOrder ==
  op.phase # "idle" /\ op.kind = "find" =>
    \A i \in DOMAIN heap :
      /\ heap'[i].hooked # heap[i].hooked => \A x \in Held(model, heap, i) : heap[x].hooked = 1
      /\ heap'[i].rel # heap[i].rel => heap[i].hooked = 0

LEMMA AssigningKeepsOrder ==
  ASSUME IInv, op.phase \in {"open", "links", "fetch"}, OnlyAssigns(heap, heap', op.items)
  PROVE  HookOrder
<1>1. /\ LevelsOK(op, heap) /\ HooksOK(model, op, heap) /\ CallOK(op)
  BY LiveState
<1>2. op.items = Level(op, Len(op.above)) /\ Len(op.above) \in Depths(op)
  BY <1>1 DEF LevelsOK, CallOK, Depths
<1>3. op.kind = "find" => \A i \in op.items : heap[i].hooked = 0
  BY <1>1, <1>2 DEF HooksOK
<1> QED BY <1>3 DEF OnlyAssigns, HookOrder

LEMMA NextPathKeepsOrder ==
  ASSUME IInv, NextPath
  PROVE  HookOrder
<1>1. op.phase = "path"
  BY DEF NextPath
<1>2. /\ HeapOK(model, heap) /\ LevelsOK(op, heap) /\ HooksOK(model, op, heap) /\ CallOK(op)
  BY <1>1, LiveState
<1>3. op.above = <<>> /\ Depths(op) = {0}
  BY <1>1, <1>2 DEF LevelsOK, Depths
<1>4. CASE heap' = heap
  BY <1>4 DEF HookOrder
<1>5. CASE heap' = Hooked(heap, op.roots, op) /\ op.kind = "find"
  <2>1. IsHooked(heap, heap', op.roots, Executor(op, FALSE))
    BY <1>2, <1>5, HookedShape DEF HeapOK
  <2>2. \A i \in DOMAIN heap : \A y \in Held(model, heap, i) : heap[y].hooked = 1
    BY <1>2, <1>3, <1>5 DEF HooksOK
  <2>3. \A i \in DOMAIN heap : heap'[i].rel = heap[i].rel
    BY <2>1 DEF IsHooked
  <2> QED BY <2>2, <2>3 DEF HookOrder
<1> QED BY <1>4, <1>5 DEF NextPath, Strict, HookOrder

LEMMA UnwindKeepsOrder ==
  ASSUME IInv, Unwind
  PROVE  HookOrder
<1>1. op.phase = "unwind"
  BY DEF Unwind
<1>2. /\ LevelsOK(op, heap) /\ HooksOK(model, op, heap) /\ CallOK(op)
  BY <1>1, LiveState
<1>3. CASE op.above = <<>>
  <2>1. heap' = heap
    BY <1>3, UnwindStep
  <2> QED BY <2>1 DEF HookOrder
<1>4. CASE op.above # <<>>
  <2> DEFINE N == Len(op.above)
             I == Level(op, N)
  <2>1. /\ op.kind = "find" /\ N \in Depths(op) /\ N \in Nat
        /\ IsHooked(heap, heap', I, Executor(op, FALSE))
    <3>1. N \in Nat
      BY <1>2 DEF CallOK
    <3>2. /\ op.kind = "find" /\ Last(op.above) = I /\ N \in Depths(op)
          /\ IsHooked(heap, heap', Last(op.above), Executor(op, FALSE))
      BY <1>4, UnwindStep
    <3> QED BY <3>1, <3>2
  <2>2. \A i \in DOMAIN heap : /\ heap'[i].rel = heap[i].rel
                               /\ heap'[i].hooked # heap[i].hooked => i \in I
    BY <2>1 DEF IsHooked
  <2>3. ASSUME NEW i \in I, i \in DOMAIN heap, NEW y \in Held(model, heap, i)
        PROVE  heap[y].hooked = 1
    <3>1. ASSUME NEW k \in Depths(op), NEW n \in Depths(op), k < n, i \in Level(op, k)
          PROVE  FALSE
      <4>1. k = N
        BY <1>2, <2>1, <2>3, <3>1 DEF LevelsOK
      <4>2. n <= N /\ n \in Int
        BY <2>1 DEF Depths
      <4> QED BY <2>1, <3>1, <4>1, <4>2
    <3> QED BY <1>2, <2>1, <2>3, <3>1 DEF HooksOK
  <2> QED BY <2>2, <2>3 DEF HookOrder
<1> QED BY <1>3, <1>4

LEMMA StepHookOrder == IInv /\ [Next]_vars => HookOrder
<1> SUFFICES ASSUME IInv, [Next]_vars PROVE HookOrder
  OBVIOUS
<1>1. CASE heap' = heap
  BY <1>1 DEF HookOrder
<1>2. CASE Request
  <2>1. op = Idle
    BY <1>2, RequestStep
  <2> QED BY <2>1 DEF HookOrder, Idle
<1>3. CASE OpenRelation
  BY <1>3, OpenRelationStep, AssigningKeepsOrder DEF OpenRelation
<1>4. CASE ReadLinks
  BY <1>4, ReadLinksStep, AssigningKeepsOrder DEF ReadLinks
<1>5. CASE FetchChunk
  BY <1>5, FetchChunkStep, AssigningKeepsOrder DEF FetchChunk
<1> QED BY <1>1, <1>2, <1>3, <1>4, <1>5, NextPathKeepsOrder, UnwindKeepsOrder
        DEF Next, Step, NoOwners, QueryFails, Change, RemoveRow, Unlink, Link, MayWrite, vars

(* In a find(), afterFind of an instance fires after those of everything    *)
(* it holds, and no relation is loaded onto an instance that was hooked:    *)
(* the hooks of the level above wait on the way back, those of the roots    *)
(* until every path is loaded.                                              *)
THEOREM HookedLast == Spec => HookedAfterDescendants
<1>1. IInv /\ [Next]_vars =>
        (op.phase # "idle" /\ op.kind = "find" =>
           \A i \in DOMAIN heap :
             /\ heap'[i].hooked # heap[i].hooked =>
                  \A x \in Held(model, heap, i) : heap[x].hooked = 1
             /\ heap'[i].rel # heap[i].rel => heap[i].hooked = 0)
  BY StepHookOrder DEF HookOrder
<1> QED BY <1>1, Invariance, PTL DEF Spec, HookedAfterDescendants
---------------------------------------------------------------------------
(* In a context that the call opened itself its hooks use the transaction.  *)
LEMMA OwnContext ==
  ASSUME NEW o, o.ctx > 0
  PROVE  Executor(o, FALSE) = "trx"
<1>1. Active(o) = [id |-> "own", trx |-> "trx"]
  BY DEF Active
<1> QED BY <1>1, ValuesAssumption DEF Executor

(* ... and may name it once more.                                           *)
LEMMA MixedByCaller ==
  ASSUME NEW o, NEW n \in Nat, Context(o, n), o.trx \in BOOLEAN,
         Executor(o, o.trx) = Fault
  PROVE  o.outer # Unset
<1>1. SUFFICES ASSUME o.outer = Unset PROVE FALSE
  OBVIOUS
<1>2. CASE o.ctx > 0
  <2>1. o.known /\ o.trx
    BY <1>2 DEF Context
  <2>2. OwnId(o) = "own" /\ Active(o).id = "own"
    BY <1>2, <2>1 DEF OwnId, Active
  <2>3. Executor(o, o.trx) = "trx"
    BY <2>1, <2>2 DEF Executor
  <2> QED BY <2>3, ValuesAssumption
<1>3. CASE ~ (o.ctx > 0)
  <2>1. Active(o) = Unset
    BY <1>1, <1>3 DEF Active
  <2>2. Executor(o, o.trx) \in {"trx", "db"}
    BY <2>1 DEF Executor
  <2> QED BY <2>2, ValuesAssumption
<1> QED BY <1>2, <1>3

OneTransaction ==
  /\ op.phase \in {"fetch", "unwind"} /\ op.trx /\ Len(op.above) + Len(op.segs) > 1 =>
       \A i \in DOMAIN heap' \ op.roots :
         i \notin DOMAIN heap \/ heap'[i].via # heap[i].via => heap'[i].via \subseteq {"trx"}
  /\ op'.phase = "ended" /\ op'.outcome = "mixing" => op'.outer # Unset

(* Below the first level of a path the call is in a context of its own.     *)
LEMMA DeepInContext ==
  ASSUME IInv, op.phase \in {"fetch", "unwind"}, op.trx,
         \/ op.phase = "fetch" /\ Len(op.above) + Len(op.segs) > 1
         \/ op.phase = "unwind" /\ op.above # <<>>
  PROVE  Executor(op, FALSE) = "trx"
<1>1. CallOK(op) /\ LevelsOK(op, heap) /\ KindOK(op) /\ ContextOK(op)
  BY LiveState
<1>2. /\ op.above \in Seq(SUBSET Nat) /\ Len(op.above) \in Nat
      /\ op.segs \in Seq(STRING) /\ Len(op.segs) \in Nat
      /\ op.above # <<>> => Len(op.above) > 0
      /\ op.kind \in {"find", "loadRelations"}
  BY <1>1 DEF CallOK
<1>3. op.kind = "find"
  <2> SUFFICES ASSUME op.kind = "loadRelations" PROVE FALSE
    BY <1>2
  <2>1. op.above = <<>> /\ op.phase = "fetch" /\ Len(op.segs) = 1
    BY <1>1 DEF KindOK
  <2> QED BY <2>1
<1>4. op.ctx > 0
  <2> DEFINE a == Len(op.above)
             b == Len(op.segs)
  <2>1. a \in Nat /\ b \in Nat /\ Nested(op) = IF b > 1 THEN 1 ELSE 0
    BY <1>2 DEF Nested
  <2>2. CASE op.phase = "fetch"
    <3>1. op.ctx = a + Nested(op) /\ a + b > 1
      BY <1>1, <1>3, <2>2 DEF ContextOK, Context, Loading
    <3> HIDE DEF a, b
    <3> QED BY <2>1, <3>1
  <2>3. CASE op.phase = "unwind"
    <3>1. op.ctx = a + 0 /\ a > 0
      BY <1>1, <1>2, <1>3, <2>3 DEF ContextOK, Context, Loading
    <3> QED BY <3>1
  <2> QED BY <2>2, <2>3
<1> QED BY <1>4, OwnContext

LEMMA StepOneTransaction == IInv /\ Next => OneTransaction
<1> SUFFICES ASSUME IInv, Next PROVE OneTransaction
  OBVIOUS
<1>1. CASE Request
  <2>1. op = Idle /\ RowsOK(model, rows)
    BY <1>1, RequestStep DEF IInv
  <2>2. op'.phase = "ended" /\ op'.outcome = "mixing" => op'.outer # Unset
    <3>1. PICK C \in Built(model), mode \in Modes :
            \E K \in SUBSET DOMAIN rows[C] \ {{}} :
              \/ Find(C, K, mode)
              \/ \E p \in {r.prop : r \in Items(Relations(model, C))}, whole \in BOOLEAN :
                   LoadRelations(C, K, <<p>>, whole, mode)
      BY <1>1 DEF Request
    <3>2. ASSUME NEW K, NEW p, NEW whole, LoadRelations(C, K, <<p>>, whole, mode)
          PROVE  op'.phase = "path"
      BY <3>2 DEF LoadRelations, Call
    <3>3. ASSUME NEW K, Find(C, K, mode)
          PROVE  op'.phase = "path" \/ op'.outer # Unset
      <4> DEFINE o == Call("find", Cardinality(K), model.of[C].eager, mode)
      <4>1. /\ DOMAIN o = CallFields /\ o.phase = "path" /\ o.ctx = 0 /\ o.kind = "find"
            /\ o.trx = mode.trx /\ o.outer = mode.outer
        BY DEF Call, CallFields
      <4> HIDE DEF o
      <4>2. CASE Executor(o, o.trx) = Fault
        <5>1. op' = [o EXCEPT !.phase = "ended", !.outcome = "mixing"]
          BY <3>3, <4>2 DEF Find, o
        <5>2. op'.outer = o.outer
          BY <4>1, <5>1 DEF CallFields
        <5>3. Context(o, 0) /\ o.trx \in BOOLEAN
          BY <4>1, ModesAssumption DEF Context
        <5> QED BY <4>2, <5>2, <5>3, MixedByCaller
      <4>3. CASE Executor(o, o.trx) # Fault
        BY <3>3, <4>1, <4>3 DEF Find, o
      <4> QED BY <4>2, <4>3
    <3> QED BY <3>1, <3>2, <3>3
  <2> QED BY <2>1, <2>2 DEF OneTransaction, Idle
<1>2. CASE OpenRelation
  <2>1. op.phase = "open"
    BY <1>2 DEF OpenRelation
  <2>2. ASSUME op'.phase = "ended", op'.outcome = "mixing" PROVE op'.outer # Unset
    <3>1. op'.outer = op.outer /\ Executor(Opened(op), Opened(op).trx) = Fault
      BY <1>2, <2>2, OpenRelationStep
    <3>2. /\ Context(Opened(op), Len(op.above) + Nested(Opened(op)))
          /\ Opened(op).trx \in BOOLEAN /\ Opened(op).outer = op.outer
          /\ Len(op.above) \in Nat
      <4>1. CallOK(Opened(op)) /\ CallOK(op)
        BY <2>1, OpenState, LiveState
      <4> QED BY <2>1, <4>1, OpenState DEF CallOK
    <3>3. Len(op.above) + Nested(Opened(op)) \in Nat
      <4>1. Nested(Opened(op)) \in {0, 1}
        BY DEF Nested
      <4> QED BY <3>2, <4>1
    <3> QED BY <3>1, <3>2, <3>3, MixedByCaller
  <2> QED BY <2>1, <2>2 DEF OneTransaction
<1>3. CASE ReadLinks
  <2>1. op.phase = "links" /\ op'.phase # "ended"
    BY <1>3, ReadLinksStep DEF ReadLinks, Live
  <2> QED BY <2>1 DEF OneTransaction
<1>4. CASE FetchChunk
  <2>1. /\ op.phase = "fetch" /\ op'.phase # "ended"
        /\ OnlyAssigns(heap, heap', op.items)
        /\ \A i \in DOMAIN heap' \ DOMAIN heap : heap'[i].via \subseteq {Executor(op, FALSE)}
    BY <1>4, FetchChunkStep DEF FetchChunk, Live
  <2>2. \A i \in DOMAIN heap : heap'[i].via = heap[i].via
    BY <2>1 DEF OnlyAssigns
  <2>3. op.trx /\ Len(op.above) + Len(op.segs) > 1 => Executor(op, FALSE) = "trx"
    BY <2>1, DeepInContext
  <2> QED BY <2>1, <2>2, <2>3 DEF OneTransaction
<1>5. CASE Unwind
  <2>1. op.phase = "unwind" /\ HeapOK(model, heap) /\ DOMAIN op = CallFields
        /\ HooksOK(model, op, heap) /\ LevelsOK(op, heap)
    BY <1>5, LiveState DEF Unwind
  <2>2. op'.phase # "ended"
    BY <1>5, <2>1 DEF Unwind, CallFields
  <2>3. CASE op.above = <<>>
    <3>1. heap' = heap
      BY <1>5, <2>3, UnwindStep
    <3> QED BY <2>2, <3>1 DEF OneTransaction
  <2>4. CASE op.above # <<>>
    <3>1. /\ op.kind = "find" /\ Last(op.above) = Level(op, Len(op.above))
          /\ Len(op.above) \in Depths(op)
          /\ IsHooked(heap, heap', Last(op.above), Executor(op, FALSE))
      BY <1>5, <2>4, UnwindStep
    <3>2. \A i \in Last(op.above) : heap[i].hooked = 0 /\ i \in DOMAIN heap /\ heap[i].via = {}
      BY <2>1, <3>1 DEF HooksOK, LevelsOK, HeapOK
    <3>3. DOMAIN heap' = DOMAIN heap
          /\ \A i \in DOMAIN heap :
               heap'[i].via # heap[i].via => heap'[i].via = heap[i].via \cup {Executor(op, FALSE)}
                                             /\ i \in Last(op.above)
      BY <3>1 DEF IsHooked
    <3>4. \A i \in DOMAIN heap : heap'[i].via # heap[i].via => heap'[i].via = {Executor(op, FALSE)}
      BY <3>2, <3>3
    <3>5. op.trx => Executor(op, FALSE) = "trx"
      BY <2>1, <2>4, DeepInContext
    <3> QED BY <2>2, <3>3, <3>4, <3>5 DEF OneTransaction
  <2> QED BY <2>3, <2>4
<1>6. CASE NextPath
  <2>1. op.phase = "path" /\ DOMAIN op = CallFields
    BY <1>6, LiveState DEF NextPath
  <2>2. op'.outcome = "ok" \/ op'.phase = "open"
    BY <1>6, <2>1 DEF NextPath, Ended, CallFields
  <2> QED BY <2>1, <2>2 DEF OneTransaction
<1>7. CASE QueryFails
  <2>1. heap' = heap /\ op'.outcome = "failed"
    BY <1>7, QueryFailsStep
  <2> QED BY <2>1 DEF OneTransaction
<1>8. CASE Change \/ RemoveRow \/ Unlink \/ Link
  <2>1. op.phase \in {"links", "fetch"} /\ op' = op /\ heap' = heap
    BY <1>8 DEF Change, RemoveRow, Unlink, Link, MayWrite
  <2> QED BY <2>1 DEF OneTransaction
<1>9. CASE NoOwners
  <2>1. op.phase = "open" /\ DOMAIN op = CallFields
    BY <1>9, LiveState DEF NoOwners
  <2>2. op'.phase = "unwind"
    BY <1>9, <2>1 DEF NoOwners, CallFields
  <2> QED BY <2>1, <2>2 DEF OneTransaction
<1> QED BY <1>1, <1>2, <1>3, <1>4, <1>5, <1>6, <1>7, <1>8, <1>9 DEF Next, Step

(* Along a path of several levels under { trx } the hooks of every level    *)
(* but the roots query in that transaction, and none of the call's queries  *)
(* is refused as mixing two transactions unless the caller is in another.   *)
THEOREM HooksInTransaction == Spec => InTransaction
<1>1. IInv /\ [Next]_vars =>
        [/\ op.phase \in {"fetch", "unwind"} /\ op.trx /\ Len(op.above) + Len(op.segs) > 1 =>
              \A i \in DOMAIN heap' \ op.roots :
                i \notin DOMAIN heap \/ heap'[i].via # heap[i].via => heap'[i].via \subseteq {"trx"}
         /\ op'.phase = "ended" /\ op'.outcome = "mixing" => op'.outer # Unset]_vars
  BY StepOneTransaction DEF OneTransaction
<1> QED BY <1>1, Invariance, PTL DEF Spec, InTransaction
---------------------------------------------------------------------------
(* Induction over the numbers, as the least counterexample: numbers below a *)
(* bound are well ordered as the intervals that end at them.                *)
LEMMA LeastNumber ==
  ASSUME NEW S \in SUBSET Nat, S # {}
  PROVE  \E n \in S : \A m \in S : n <= m
<1> PICK b \in S : TRUE
  OBVIOUS
<1> DEFINE R == StrictSubsetOrdering(0..b)
           F == {0..n : n \in S \cap 0..b}
<1>1. IsFiniteSet(0..b)
  BY FS_Interval
<1>2. IsWellFoundedOn(R, SUBSET (0..b))
  BY <1>1, FS_StrictSubsetOrderingWellFounded, FS_FiniteSubsetsOfFinite
<1>3. F \subseteq SUBSET (0..b) /\ F # {}
  OBVIOUS
<1>4. PICK T \in F : \A U \in F : ~ (<<U, T>> \in R)
  <2> HIDE DEF F, R
  <2> QED BY <1>2, <1>3, WFMin
<1>5. PICK n \in S \cap 0..b : T = 0..n
  BY <1>4
<1>6. ASSUME NEW m \in S, m < n PROVE FALSE
  <2>1. 0..m \in F
    BY <1>6
  <2>2. 0..m \subseteq 0..n /\ 0..m # 0..n
    <3>1. n \in 0..n /\ n \notin 0..m
      BY <1>6
    <3> QED BY <1>6, <3>1
  <2>3. <<0..m, T>> \in R
    BY <1>5, <2>1, <2>2, <1>3, <1>4 DEF StrictSubsetOrdering
  <2> QED BY <2>1, <2>3, <1>4
<1> QED BY <1>6

(* What is reached from I in n steps, by a function on the steps.           *)
Widened(h, I) == I \cup UNION {Held(model, h, i) : i \in I}

IsReach(f, h, I, k) ==
  /\ f = [n \in 0..k |-> f[n]]
  /\ f[0] = I
  /\ \A n \in 1..k : f[n] = Widened(h, f[n - 1])

LEMMA ReachExists ==
  ASSUME NEW h, NEW I, NEW k \in Nat
  PROVE  \E f : IsReach(f, h, I, k)
<1> DEFINE S == {j \in Nat : ~ \E f : IsReach(f, h, I, j)}
<1>1. SUFFICES ASSUME S # {} PROVE FALSE
  OBVIOUS
<1>2. PICK j \in S : \A i \in S : j <= i
  <2>1. S \in SUBSET Nat
    OBVIOUS
  <2> HIDE DEF S
  <2> QED BY <1>1, <2>1, LeastNumber
<1>3. CASE j = 0
  <2> DEFINE f == [n \in 0..0 |-> I]
  <2>1. IsReach(f, h, I, 0)
    BY DEF IsReach
  <2> HIDE DEF f
  <2> QED BY <1>2, <1>3, <2>1
<1>4. CASE j # 0
  <2>1. j \in Nat /\ j - 1 \in Nat /\ j - 1 \notin S
    BY <1>2, <1>4
  <2>2. PICK f : IsReach(f, h, I, j - 1)
    BY <2>1
  <2> DEFINE g == [n \in 0..j |-> IF n = j THEN Widened(h, f[j - 1]) ELSE f[n]]
  <2>3. g[0] = I /\ g = [n \in 0..j |-> g[n]]
    BY <1>4, <2>1, <2>2 DEF IsReach
  <2>4. \A n \in 0..(j - 1) : g[n] = f[n]
    BY <2>1
  <2>5. ASSUME NEW n \in 1..j PROVE g[n] = Widened(h, g[n - 1])
    <3>1. n - 1 \in 0..(j - 1)
      BY <2>1, <2>5
    <3>2. g[n - 1] = f[n - 1]
      BY <2>4, <3>1
    <3>3. CASE n = j
      BY <2>1, <3>2, <3>3
    <3>4. CASE n # j
      <4>1. n \in 1..(j - 1)
        BY <2>1, <2>5, <3>4
      <4>2. f[n] = Widened(h, f[n - 1])
        BY <2>2, <4>1 DEF IsReach
      <4> QED BY <2>4, <3>2, <4>1, <4>2
    <3> QED BY <3>3, <3>4
  <2> HIDE DEF g
  <2>6. IsReach(g, h, I, j)
    BY <2>3, <2>5 DEF IsReach
  <2> QED BY <1>2, <2>6
<1> QED BY <1>3, <1>4

(* What holds of I and is handed on to what is held holds beneath I.        *)
LEMMA BeneathKeeps ==
  ASSUME NEW h, NEW I, NEW P, Len(h) \in Nat, I \subseteq P,
         \A i \in P : Held(model, h, i) \subseteq P
  PROVE  Beneath(h, I) \subseteq P
<1> DEFINE Reach(f) ==
             [n \in 0..Len(h) |->
                IF n = 0 THEN I ELSE f[n - 1] \cup UNION {Held(model, h, i) : i \in f[n - 1]}]
           f == CHOOSE g : g = Reach(g)
<1>1. \E g : g = Reach(g)
  <2>1. PICK g : IsReach(g, h, I, Len(h))
    BY ReachExists
  <2>2. \A n \in 0..Len(h) : g[n] =
          IF n = 0 THEN I ELSE g[n - 1] \cup UNION {Held(model, h, i) : i \in g[n - 1]}
    BY <2>1 DEF IsReach, Widened
  <2>3. g = Reach(g)
    BY <2>1, <2>2 DEF IsReach
  <2> QED BY <2>3
<1>2. f = Reach(f)
  BY <1>1
<1>3. Beneath(h, I) = f[Len(h)]
  BY DEF Beneath
<1> HIDE DEF f
<1>4. f[0] = I /\ \A n \in 1..Len(h) :
        f[n] = f[n - 1] \cup UNION {Held(model, h, i) : i \in f[n - 1]}
  BY <1>2
<1> DEFINE S == {n \in 0..Len(h) : ~ (f[n] \subseteq P)}
<1>5. ASSUME S # {} PROVE FALSE
  <2>1. S \in SUBSET Nat
    OBVIOUS
  <2>2. PICK n \in S : \A i \in S : n <= i
    <3> HIDE DEF S
    <3> QED BY <1>5, <2>1, LeastNumber
  <2>3. n # 0
    BY <1>4, <2>2
  <2>4. n \in 1..Len(h) /\ n - 1 \in 0..Len(h) /\ n - 1 \notin S
    BY <2>2, <2>3
  <2>5. f[n - 1] \subseteq P /\ f[n] = f[n - 1] \cup UNION {Held(model, h, i) : i \in f[n - 1]}
    BY <1>4, <2>4
  <2>6. f[n] \subseteq P
    BY <2>5
  <2> QED BY <2>2, <2>6
<1>6. Len(h) \in 0..Len(h)
  OBVIOUS
<1> QED BY <1>3, <1>5, <1>6

(* afterFind fires at most once for an instance; when a find() has ended    *)
(* well it has fired for everything beneath its result, also for instances  *)
(* that several owners share and those of paths loaded one after the other. *)
THEOREM HookedOnlyOnce == Spec => []HookedOnce
<1>1. IInv => HookedOnce
  <2> SUFFICES ASSUME IInv PROVE HookedOnce
    OBVIOUS
  <2>1. CASE op = Idle
    BY <2>1 DEF IInv, HookedOnce, Idle
  <2>2. CASE op # Idle
    <3>1. OpOK(model, op, heap) /\ HeapOK(model, heap) /\ Len(heap) \in Nat
      BY <2>2 DEF IInv, OpOK, HeapOK, Instances
    <3>2. \A i \in DOMAIN heap : heap[i].hooked <= 1
      BY <3>1 DEF HeapOK
    <3>3. ASSUME op.phase = "ended", op.outcome = "ok", op.kind = "find"
          PROVE  \A i \in Beneath(heap, op.roots) : heap[i].hooked = 1
      <4> DEFINE P == {i \in DOMAIN heap : heap[i].hooked = 1}
      <4>1. Done(model, op, heap)
        BY <3>1, <3>3 DEF OpOK, Live
      <4>2. op.roots \subseteq P
        BY <4>1 DEF Done
      <4>3. \A i \in P : Held(model, heap, i) \subseteq P
        BY <3>1, <4>1 DEF Done, HeapOK
      <4> HIDE DEF P
      <4>4. Beneath(heap, op.roots) \subseteq P
        BY <3>1, <4>2, <4>3, BeneathKeeps
      <4> QED BY <4>4 DEF P
    <3> QED BY <3>2, <3>3 DEF HookedOnce
  <2> QED BY <2>1, <2>2
<1> QED BY <1>1, Invariance, PTL
---------------------------------------------------------------------------
(* The declared model. What the lists of classes say is a set: what the     *)
(* relations of those classes declare, wherever they stand.                 *)
DefinedBy(m, C) == {JoinTableDefinition(m, C, r) : r \in Items(Relations(m, C))}

Defined(m, S) == (UNION {DefinedBy(m, C) : C \in S}) \ {Unset}

LEMMA DefinedShape ==
  ASSUME NEW m, NEW S, NEW d
  PROVE  d \in Defined(m, S) <=>
           /\ d # Unset
           /\ \E C \in S : \E r \in Items(Relations(m, C)) : d = JoinTableDefinition(m, C, r)
<1>1. \A C : d \in DefinedBy(m, C) <=>
              \E r \in Items(Relations(m, C)) : d = JoinTableDefinition(m, C, r)
  BY DEF DefinedBy
<1>2. d \in Defined(m, S) <=> d # Unset /\ \E C \in S : d \in DefinedBy(m, C)
  BY DEF Defined
<1> QED BY <1>1, <1>2

LEMMA DefinedGrows ==
  ASSUME NEW m, NEW S, NEW T, S \subseteq T
  PROVE  Defined(m, S) \subseteq Defined(m, T)
<1>1. ASSUME NEW d \in Defined(m, S) PROVE d \in Defined(m, T)
  <2>1. d # Unset /\ \E C \in S : \E r \in Items(Relations(m, C)) : d = JoinTableDefinition(m, C, r)
    BY DefinedShape
  <2>2. \E C \in T : \E r \in Items(Relations(m, C)) : d = JoinTableDefinition(m, C, r)
    BY <2>1
  <2> QED BY <2>1, <2>2, DefinedShape
<1> QED BY <1>1

(* A place of a declaration, and the declaration at it.                     *)
LEMMA PlaceShape ==
  ASSUME NEW m, NEW L, NEW p \in Declarations(m, L)
  PROVE  /\ p = <<p[1], p[2]>>
         /\ p[1] \in DOMAIN L /\ p[2] \in DOMAIN Relations(m, L[p[1]])
         /\ L[p[1]] \in Items(L)
         /\ Relations(m, L[p[1]])[p[2]] \in Items(Relations(m, L[p[1]]))
         /\ DefinitionAt(m, L, p) =
              JoinTableDefinition(m, L[p[1]], Relations(m, L[p[1]])[p[2]])
         /\ DefinitionAt(m, L, p) \in Defined(m, Items(L))
<1>1. PICK i \in DOMAIN L : p \in {i} \X DOMAIN Relations(m, L[i])
  BY DEF Declarations
<1>2. p = <<p[1], p[2]>> /\ p[1] = i /\ p[2] \in DOMAIN Relations(m, L[i])
  BY <1>1
<1>3. /\ L[p[1]] \in Items(L)
      /\ Relations(m, L[p[1]])[p[2]] \in Items(Relations(m, L[p[1]]))
  BY <1>1, <1>2 DEF Items
<1>4. DefinitionAt(m, L, p) =
        JoinTableDefinition(m, L[p[1]], Relations(m, L[p[1]])[p[2]])
      /\ DefinitionAt(m, L, p) # Unset
  BY DEF DefinitionAt, Declarations
<1>5. DefinitionAt(m, L, p) \in Defined(m, Items(L))
  BY <1>3, <1>4, DefinedShape
<1> QED BY <1>1, <1>2, <1>3, <1>4, <1>5

LEMMA PlaceOf ==
  ASSUME NEW m, NEW L, NEW i \in DOMAIN L, NEW j \in DOMAIN Relations(m, L[i]),
         JoinTableDefinition(m, L[i], Relations(m, L[i])[j]) # Unset
  PROVE  /\ <<i, j>> \in Declarations(m, L)
         /\ DefinitionAt(m, L, <<i, j>>) = JoinTableDefinition(m, L[i], Relations(m, L[i])[j])
<1> DEFINE p == <<i, j>>
<1>1. p[1] = i /\ p[2] = j /\ p \in {i} \X DOMAIN Relations(m, L[i])
  OBVIOUS
<1> HIDE DEF p
<1>2. DefinitionAt(m, L, p) = JoinTableDefinition(m, L[i], Relations(m, L[i])[j])
  BY <1>1 DEF DefinitionAt
<1>3. p \in Declarations(m, L)
  BY <1>1, <1>2 DEF Declarations
<1> QED BY <1>2, <1>3 DEF p

LEMMA PlacesDefine ==
  ASSUME NEW m, NEW L, NEW d \in Defined(m, Items(L))
  PROVE  \E p \in Declarations(m, L) : DefinitionAt(m, L, p) = d
<1>1. PICK C \in Items(L) : \E r \in Items(Relations(m, C)) : d = JoinTableDefinition(m, C, r)
  BY DefinedShape
<1>2. PICK r \in Items(Relations(m, C)) : d = JoinTableDefinition(m, C, r)
  BY <1>1
<1>3. PICK i \in DOMAIN L : C = L[i]
  BY DEF Items
<1>4. PICK j \in DOMAIN Relations(m, L[i]) : r = Relations(m, L[i])[j]
  BY <1>3 DEF Items
<1>5. JoinTableDefinition(m, L[i], Relations(m, L[i])[j]) = d /\ d # Unset
  BY <1>2, <1>3, <1>4, DefinedShape
<1>6. <<i, j>> \in Declarations(m, L) /\ DefinitionAt(m, L, <<i, j>>) = d
  BY <1>5, PlaceOf
<1> QED BY <1>6

(* What the readers look for in a list depends on that set only.            *)
LEMMA ListsAsSets ==
  ASSUME NEW m, NEW L
  PROVE  /\ Unresolvable(m, L) <=> Fault \in Defined(m, Items(L))
         /\ Conflicting(m, L) <=>
              \E d, e \in Defined(m, Items(L)) \ {Fault} : Clash(d, e)
<1>1. Unresolvable(m, L) => Fault \in Defined(m, Items(L))
  BY PlaceShape DEF Unresolvable
<1>2. Fault \in Defined(m, Items(L)) => Unresolvable(m, L)
  BY PlacesDefine DEF Unresolvable
<1>3. ASSUME Conflicting(m, L)
      PROVE  \E d, e \in Defined(m, Items(L)) \ {Fault} : Clash(d, e)
  <2>1. PICK p \in Declarations(m, L), q \in Declarations(m, L) :
          /\ DefinitionAt(m, L, p) # Fault
          /\ DefinitionAt(m, L, q) # Fault
          /\ Clash(DefinitionAt(m, L, p), DefinitionAt(m, L, q))
    BY <1>3 DEF Conflicting
  <2>2. DefinitionAt(m, L, p) \in Defined(m, Items(L)) /\ DefinitionAt(m, L, q) \in Defined(m, Items(L))
    BY PlaceShape
  <2> QED BY <2>1, <2>2
<1>4. ASSUME NEW d \in Defined(m, Items(L)) \ {Fault}, NEW e \in Defined(m, Items(L)) \ {Fault},
             Clash(d, e)
      PROVE  Conflicting(m, L)
  <2>1. PICK p \in Declarations(m, L) : DefinitionAt(m, L, p) = d
    BY PlacesDefine
  <2>2. PICK q \in Declarations(m, L) : DefinitionAt(m, L, q) = e
    BY PlacesDefine
  <2> QED BY <1>4, <2>1, <2>2 DEF Conflicting
<1> QED BY <1>1, <1>2, <1>3, <1>4

(* Two declarations of one table are one in all respects, or in none.       *)
LEMMA Equivalence ==
  ASSUME NEW c, NEW d, NEW e
  PROVE  /\ Equivalent(d, d)
         /\ Equivalent(d, e) => Equivalent(e, d)
         /\ Equivalent(d, c) /\ Equivalent(c, e) => Equivalent(d, e)
BY DEF Equivalent

LEMMA NoClashWithBoth ==
  ASSUME NEW c, NEW d, NEW e, Clash(d, e), c.tableName = d.tableName
  PROVE  Clash(c, d) \/ Clash(c, e)
<1>1. d.tableName = e.tableName /\ ~ Equivalent(d, e)
  BY DEF Clash
<1>2. Equivalent(c, d) => Equivalent(d, c)
  BY Equivalence
<1>3. Equivalent(d, c) /\ Equivalent(c, e) => Equivalent(d, e)
  BY Equivalence
<1> QED BY <1>1, <1>2, <1>3 DEF Clash
---------------------------------------------------------------------------
(* The earliest of some places.                                             *)
LEMMA EarliestThere ==
  ASSUME NEW P, P # {}, \A p \in P : p = <<p[1], p[2]>> /\ p[1] \in Nat /\ p[2] \in Nat
  PROVE  Earliest(P) \in P /\ \A q \in P : ~ Before(q, Earliest(P))
<1> DEFINE S == {p[1] : p \in P}
<1>1. S \in SUBSET Nat /\ S # {}
  OBVIOUS
<1>2. PICK i \in S : \A k \in S : i <= k
  <2> HIDE DEF S
  <2> QED BY <1>1, LeastNumber
<1> DEFINE T == {p[2] : p \in {p \in P : p[1] = i}}
<1>3. T \in SUBSET Nat /\ T # {}
  OBVIOUS
<1>4. PICK j \in T : \A k \in T : j <= k
  <2> HIDE DEF T
  <2> QED BY <1>3, LeastNumber
<1>5. PICK p \in P : p[1] = i /\ p[2] = j
  OBVIOUS
<1>6. ASSUME NEW q \in P, Before(q, p) PROVE FALSE
  <2>1. q[1] \in S /\ i <= q[1] /\ q[1] \in Nat /\ i \in Nat /\ q[2] \in Nat /\ j \in Nat
    BY <1>2, <1>5
  <2>2. q[1] = i /\ q[2] < j
    BY <1>5, <1>6, <2>1 DEF Before
  <2>3. q[2] \in T
    BY <2>2
  <2> QED BY <1>4, <2>1, <2>2, <2>3
<1>7. \E x \in P : \A q \in P : ~ Before(q, x)
  BY <1>6
<1> QED BY <1>7 DEF Earliest

(* Of each table that a list declares one declaration is kept.              *)
LEMMA TableKept ==
  ASSUME NEW m, NEW L, DOMAIN L \subseteq Nat,
         \A C \in Items(L) : DOMAIN Relations(m, C) \subseteq Nat,
         NEW d \in Defined(m, Items(L))
  PROVE  \E p \in Kept(m, L) : DefinitionAt(m, L, p).tableName = d.tableName
<1> DEFINE P == {p \in Declarations(m, L) : DefinitionAt(m, L, p).tableName = d.tableName}
<1>1. PICK p \in Declarations(m, L) : DefinitionAt(m, L, p) = d
  BY PlacesDefine
<1>2. P # {}
  BY <1>1
<1>3. \A q \in P : q = <<q[1], q[2]>> /\ q[1] \in Nat /\ q[2] \in Nat
  BY PlaceShape
<1>4. Earliest(P) \in P /\ \A q \in P : ~ Before(q, Earliest(P))
  <2> HIDE DEF P
  <2> QED BY <1>2, <1>3, EarliestThere
<1>5. Earliest(P) \in Kept(m, L)
  BY <1>4 DEF Kept
<1> QED BY <1>4, <1>5
(* The list without repetitions is a list of the same classes.              *)
FirstPlaces(m) == {i \in DOMAIN m.entities : ~ \E j \in 1..(i - 1) : m.entities[j] = m.entities[i]}

Rank(S, i) == Cardinality({j \in S : j <= i})

LEMMA Ranks ==
  ASSUME NEW n \in Nat, NEW S \in SUBSET (1..n)
  PROVE  /\ Cardinality(S) \in Nat
         /\ \A i \in S : Rank(S, i) \in 1..Cardinality(S)
         /\ \A i, j \in S : Rank(S, i) = Rank(S, j) => i = j
         /\ \A k \in 1..Cardinality(S) : \E i \in S : Rank(S, i) = k
<1>1. IsFiniteSet(S) /\ Cardinality(S) \in Nat
  <2>1. IsFiniteSet(1..n)
    BY FS_Interval
  <2> QED BY <2>1, FS_Subset, FS_CardinalityType
<1>2. ASSUME NEW i \in S PROVE Rank(S, i) \in 1..Cardinality(S)
  <2> DEFINE T == {j \in S : j <= i}
  <2>1. i \in T /\ T \in SUBSET S
    OBVIOUS
  <2> HIDE DEF T
  <2>2. IsFiniteSet(T) /\ Cardinality(T) <= Cardinality(S)
    BY <1>1, <2>1, FS_Subset
  <2>3. Cardinality(T) \in Nat /\ Cardinality(T) # 0
    BY <2>1, <2>2, FS_CardinalityType, FS_EmptySet
  <2> QED BY <1>1, <2>2, <2>3 DEF Rank, T
<1>3. ASSUME NEW i \in S, NEW j \in S, i < j PROVE Rank(S, i) # Rank(S, j)
  <2> DEFINE T == {k \in S : k <= i}
             U == {k \in S : k <= j}
  <2>1. T \in SUBSET U
    <3>1. \A k \in S : k \in Nat
      OBVIOUS
    <3>2. \A k \in T : k \in U
      BY <1>3, <3>1
    <3> HIDE DEF T, U
    <3> QED BY <3>2
  <2>2. U \in SUBSET S /\ j \in U /\ j \notin T
    BY <1>3
  <2> HIDE DEF T, U
  <2>3. IsFiniteSet(U)
    BY <1>1, <2>2, FS_Subset
  <2>4. Cardinality(U) # Cardinality(T)
    BY <2>1, <2>2, <2>3, FS_Subset
  <2> QED BY <2>4 DEF Rank, T, U
<1>4. ASSUME NEW i \in S, NEW j \in S, Rank(S, i) = Rank(S, j) PROVE i = j
  BY <1>3, <1>4
<1> DEFINE f == [i \in S |-> Rank(S, i)]
<1>5. f \in Injection(S, 1..Cardinality(S))
  BY <1>2, <1>4 DEF Injection, IsInjective
<1>6. IsFiniteSet(1..Cardinality(S)) /\ Cardinality(1..Cardinality(S)) = Cardinality(S)
  BY <1>1, FS_Interval
<1>7. f \in Surjection(S, 1..Cardinality(S))
  <2> HIDE DEF f
  <2> QED BY <1>5, <1>6, FS_Injection
<1>8. \A k \in 1..Cardinality(S) : \E i \in S : Rank(S, i) = k
  BY <1>7 DEF Surjection
<1> QED BY <1>1, <1>2, <1>4, <1>8

LEMMA SeenItems ==
  ASSUME NEW m, m.entities \in Seq(DOMAIN m.of)
  PROVE  /\ DOMAIN SeenEntities(m) \subseteq Nat
         /\ Items(SeenEntities(m)) = Items(m.entities)
<1> DEFINE K == FirstPlaces(m)
           At(n) == CHOOSE i \in K : Rank(K, i) = n
<1>1. K \in SUBSET (1..Len(m.entities)) /\ Len(m.entities) \in Nat
      /\ DOMAIN m.entities = 1..Len(m.entities)
  BY DEF FirstPlaces
<1>2. SeenEntities(m) = [n \in 1..Cardinality(K) |-> m.entities[At(n)]]
  BY DEF SeenEntities, FirstPlaces, Rank
<1>3. /\ Cardinality(K) \in Nat
      /\ \A i \in K : Rank(K, i) \in 1..Cardinality(K)
      /\ \A i, j \in K : Rank(K, i) = Rank(K, j) => i = j
      /\ \A k \in 1..Cardinality(K) : \E i \in K : Rank(K, i) = k
  <2> HIDE DEF K
  <2> QED BY <1>1, Ranks
<1> HIDE DEF K
<1>4. \A n \in 1..Cardinality(K) : At(n) \in K /\ Rank(K, At(n)) = n
  BY <1>3
<1>5. \A i \in K : At(Rank(K, i)) = i
  BY <1>3, <1>4
<1> HIDE DEF At
<1>6. DOMAIN SeenEntities(m) = 1..Cardinality(K)
      /\ \A n \in 1..Cardinality(K) : SeenEntities(m)[n] = m.entities[At(n)]
  BY <1>2
<1>7. ASSUME NEW D \in Items(SeenEntities(m)) PROVE D \in Items(m.entities)
  <2>1. PICK n \in 1..Cardinality(K) : D = m.entities[At(n)]
    BY <1>6, <1>7 DEF Items
  <2>2. At(n) \in DOMAIN m.entities
    BY <1>1, <1>4
  <2> QED BY <2>1, <2>2 DEF Items
<1>8. ASSUME NEW D \in Items(m.entities) PROVE D \in Items(SeenEntities(m))
  <2> DEFINE S == {i \in DOMAIN m.entities : m.entities[i] = D}
  <2>1. S \in SUBSET Nat /\ S # {}
    BY <1>1, <1>8 DEF Items
  <2>2. PICK i \in S : \A j \in S : i <= j
    <3> HIDE DEF S
    <3> QED BY <2>1, LeastNumber
  <2>3. i \in DOMAIN m.entities /\ m.entities[i] = D /\ i \in 1..Len(m.entities)
    BY <1>1
  <2>4. ASSUME NEW j \in 1..(i - 1), m.entities[j] = m.entities[i] PROVE FALSE
    <3>1. j \in DOMAIN m.entities /\ j < i
      BY <1>1, <2>3
    <3> QED BY <2>2, <2>3, <2>4, <3>1
  <2>5. i \in K
    BY <2>3, <2>4 DEF K, FirstPlaces
  <2>6. Rank(K, i) \in DOMAIN SeenEntities(m) /\ SeenEntities(m)[Rank(K, i)] = D
    BY <1>3, <1>5, <1>6, <2>3, <2>5
  <2> QED BY <2>6 DEF Items
<1>9. DOMAIN SeenEntities(m) \subseteq Nat
  BY <1>3, <1>6
<1> QED BY <1>7, <1>8, <1>9
---------------------------------------------------------------------------
(* What a declared model is, and the tables that its entities declare.      *)
Declarable(m) == WellFormed(m) /\ NoTable(m)

Whole(m) == Defined(m, Registered(m))

Differing(m) == \E d, e \in Whole(m) \ {Fault} : Clash(d, e)

(* d is what the relation r of C declares.                                  *)
IsTable(m, C, r, d) ==
  /\ Declares(m, C, r) /\ Resolves(m, C, r)
  /\ d.tableName = m.of[C].joins[r.prop].tableName
  /\ d.owner = C /\ d.property = r.prop /\ d.inverse = r.target
  /\ d.joinColumnType = KeyType(m, C) /\ d.inverseColumnType = KeyType(m, r.target)

LEMMA TableShape ==
  ASSUME NEW m, NEW C, NEW r, JoinTableDefinition(m, C, r) \notin {Unset, Fault}
  PROVE  IsTable(m, C, r, JoinTableDefinition(m, C, r))
BY DEF IsTable, JoinTableDefinition, KeyType

LEMMA RelationsOf ==
  ASSUME NEW m, WellFormed(m), NEW C \in DOMAIN m.of
  PROVE  /\ DOMAIN Relations(m, C) = 1..Len(Relations(m, C)) /\ Len(Relations(m, C)) \in Nat
         /\ DOMAIN Relations(m, C) \subseteq Nat
         /\ \A r, s \in Items(Relations(m, C)) : r.prop = s.prop => r = s
         /\ \A r \in Items(Relations(m, C)) :
              /\ r.target \in DOMAIN m.of
              /\ r.prop # Fault
              /\ r.inverseSide # Fault
<1>1. Relations(m, C) \in Seq(Items(Relations(m, C)))
  BY DEF WellFormed
<1>2. \A i, j \in DOMAIN Relations(m, C) :
        Relations(m, C)[i].prop = Relations(m, C)[j].prop => i = j
  BY DEF WellFormed
<1>3. \A r, s \in Items(Relations(m, C)) : r.prop = s.prop => r = s
  BY <1>2 DEF Items
<1>4. \A r \in Items(Relations(m, C)) :
        r.target \in DOMAIN m.of /\ r.prop # Fault /\ r.inverseSide # Fault
  BY DEF WellFormed
<1>5. DOMAIN Relations(m, C) = 1..Len(Relations(m, C)) /\ Len(Relations(m, C)) \in Nat
  BY <1>1
<1> QED BY <1>3, <1>4, <1>5

(* A declaration is there, and gives a table if it resolves.                *)
LEMMA DeclaredTable ==
  ASSUME NEW m, Declarable(m), NEW C \in DOMAIN m.of, NEW r \in Items(Relations(m, C)),
         Declares(m, C, r)
  PROVE  LET d == JoinTableDefinition(m, C, r)
         IN  /\ C \in Registered(m) /\ d # Unset /\ d \in Whole(m)
             /\ d # Fault <=> Resolves(m, C, r)
             /\ d # Fault => {AsDeclared(d), Flipped(d)} \cap {Unset, Fault} = {}
<1> DEFINE d == JoinTableDefinition(m, C, r)
<1>1. C \in Registered(m)
  BY DEF Registered, Declares
<1>2. Resolves(m, C, r) => {Unset, Fault} \cap {d, AsDeclared(d), Flipped(d)} = {}
  BY <1>1 DEF Declarable, NoTable
<1>3. ~ Resolves(m, C, r) => d = Fault
  BY DEF JoinTableDefinition
<1> HIDE DEF d
<1>4. d # Unset /\ (d # Fault <=> Resolves(m, C, r))
  BY <1>2, <1>3, ValuesAssumption
<1>5. d # Fault => {AsDeclared(d), Flipped(d)} \cap {Unset, Fault} = {}
  BY <1>2, <1>4
<1>6. d \in Whole(m)
  BY <1>1, <1>4, DefinedShape DEF Whole, d
<1> QED BY <1>1, <1>4, <1>5, <1>6 DEF d

(* Every table comes from a declaration.                                    *)
LEMMA WholeShape ==
  ASSUME NEW m, Declarable(m), NEW d \in Whole(m), d # Fault
  PROVE  /\ d # Unset
         /\ {AsDeclared(d), Flipped(d)} \cap {Unset, Fault} = {}
         /\ \E C \in Registered(m) : \E r \in ManyToMany(m, C) :
              d = JoinTableDefinition(m, C, r) /\ IsTable(m, C, r, d)
<1>1. PICK C \in Registered(m) : \E r \in Items(Relations(m, C)) : d = JoinTableDefinition(m, C, r)
  BY DefinedShape DEF Whole
<1>2. PICK r \in Items(Relations(m, C)) : d = JoinTableDefinition(m, C, r)
  BY <1>1
<1>3. d # Unset
  BY DefinedShape DEF Whole
<1>4. IsTable(m, C, r, d)
  BY <1>2, <1>3, TableShape
<1>5. Declares(m, C, r) /\ C \in DOMAIN m.of
  BY <1>4 DEF IsTable, Registered
<1>6. {AsDeclared(d), Flipped(d)} \cap {Unset, Fault} = {}
  BY <1>2, <1>5, DeclaredTable
<1>7. r \in ManyToMany(m, C)
  BY <1>5 DEF Declares, ManyToMany
<1> QED BY <1>2, <1>3, <1>4, <1>6, <1>7

LEMMA WholeBounds ==
  ASSUME NEW m, NEW S, S \subseteq DOMAIN m.of
  PROVE  Defined(m, S) \subseteq Whole(m)
<1>1. ASSUME NEW d \in Defined(m, S) PROVE d \in Whole(m)
  <2>1. PICK C \in S : \E r \in Items(Relations(m, C)) : d = JoinTableDefinition(m, C, r)
    BY DefinedShape
  <2>2. PICK r \in Items(Relations(m, C)) : d = JoinTableDefinition(m, C, r)
    BY <2>1
  <2>3. d # Unset
    BY DefinedShape
  <2>4. Declares(m, C, r)
    BY <2>2, <2>3 DEF JoinTableDefinition
  <2>5. C \in Registered(m)
    BY <2>4 DEF Declares, Registered
  <2> QED BY <2>2, <2>3, <2>5, DefinedShape DEF Whole
<1> QED BY <1>1

LEMMA ForeignSet ==
  ASSUME NEW m, NEW d
  PROVE  ForeignConflict(m, d) <=> \E e \in Whole(m) \ {Fault} : Clash(d, e)
<1>1. ASSUME ForeignConflict(m, d) PROVE \E e \in Whole(m) \ {Fault} : Clash(d, e)
  <2>1. PICK C \in Registered(m) : \E r \in Items(Relations(m, C)) :
          JoinTableDefinition(m, C, r) \notin {Unset, Fault} /\ Clash(d, JoinTableDefinition(m, C, r))
    BY <1>1 DEF ForeignConflict
  <2>2. PICK r \in Items(Relations(m, C)) :
          JoinTableDefinition(m, C, r) \notin {Unset, Fault} /\ Clash(d, JoinTableDefinition(m, C, r))
    BY <2>1
  <2>3. JoinTableDefinition(m, C, r) \in Whole(m)
    BY <2>2, DefinedShape DEF Whole
  <2> QED BY <2>2, <2>3
<1>2. ASSUME NEW e \in Whole(m) \ {Fault}, Clash(d, e) PROVE ForeignConflict(m, d)
  <2>1. e # Unset /\ \E C \in Registered(m) : \E r \in Items(Relations(m, C)) :
                       e = JoinTableDefinition(m, C, r)
    BY DefinedShape DEF Whole
  <2> QED BY <1>2, <2>1 DEF ForeignConflict
<1> QED BY <1>1, <1>2

(* The readers of all entities see every table.                             *)
LEMMA SeenSets ==
  ASSUME NEW m, Declarable(m), Complete(m)
  PROVE  /\ DOMAIN SeenEntities(m) \subseteq Nat
         /\ Items(SeenEntities(m)) = Registered(m)
         /\ Unresolvable(m, SeenEntities(m)) <=> Fault \in Whole(m)
         /\ Conflicting(m, SeenEntities(m)) <=> Differing(m)
         /\ \A t : Clashing(m, t) <=>
              \E d, e \in Whole(m) \ {Fault} : d.tableName = t /\ Clash(d, e)
<1> DEFINE L == SeenEntities(m)
<1>1. m.entities \in Seq(DOMAIN m.of)
  BY DEF Declarable, WellFormed
<1>2. DOMAIN L \subseteq Nat /\ Items(L) = Items(m.entities)
  BY <1>1, SeenItems
<1>3. Items(L) = Registered(m)
  BY <1>2 DEF Complete
<1>4. Defined(m, Items(L)) = Whole(m)
  BY <1>3 DEF Whole
<1> HIDE DEF L
<1>5. Unresolvable(m, L) <=> Fault \in Whole(m)
  BY <1>4, ListsAsSets
<1>6. Conflicting(m, L) <=> Differing(m)
  BY <1>4, ListsAsSets DEF Differing
<1>7. ASSUME NEW t, Clashing(m, t)
      PROVE  \E d, e \in Whole(m) \ {Fault} : d.tableName = t /\ Clash(d, e)
  <2>1. PICK p \in Declarations(m, L), q \in Declarations(m, L) :
          /\ Fault \notin {DefinitionAt(m, L, p), DefinitionAt(m, L, q)}
          /\ DefinitionAt(m, L, p).tableName = t
          /\ Clash(DefinitionAt(m, L, p), DefinitionAt(m, L, q))
    BY <1>7, Zenon DEF Clashing, L
  <2>2. DefinitionAt(m, L, p) \in Whole(m) /\ DefinitionAt(m, L, q) \in Whole(m)
    BY <1>4, PlaceShape
  <2> QED BY <2>1, <2>2
<1>8. ASSUME NEW t, NEW d \in Whole(m) \ {Fault}, NEW e \in Whole(m) \ {Fault},
             d.tableName = t, Clash(d, e)
      PROVE  Clashing(m, t)
  <2>1. PICK p \in Declarations(m, L) : DefinitionAt(m, L, p) = d
    BY <1>4, PlacesDefine
  <2>2. PICK q \in Declarations(m, L) : DefinitionAt(m, L, q) = e
    BY <1>4, PlacesDefine
  <2> QED BY <1>8, <2>1, <2>2 DEF Clashing, L
<1> QED BY <1>2, <1>3, <1>5, <1>6, <1>7, <1>8 DEF L
---------------------------------------------------------------------------
(* The two classes of a relation, as a read looks at them.                  *)
Pair(C, r) == <<C, r.target>>

LEMMA PairSets ==
  ASSUME NEW m, Declarable(m), NEW C \in DOMAIN m.of, NEW r \in Items(Relations(m, C))
  PROVE  /\ DOMAIN Pair(C, r) = 1..2 /\ Pair(C, r)[1] = C /\ Pair(C, r)[2] = r.target
         /\ Items(Pair(C, r)) = {C, r.target}
         /\ Items(Pair(C, r)) \subseteq DOMAIN m.of
         /\ Defined(m, Items(Pair(C, r))) \subseteq Whole(m)
         /\ Unresolvable(m, Pair(C, r)) => Fault \in Whole(m)
         /\ Conflicting(m, Pair(C, r)) => Differing(m)
<1>1. DOMAIN Pair(C, r) = 1..2 /\ Pair(C, r)[1] = C /\ Pair(C, r)[2] = r.target
  BY DEF Pair
<1>2. Items(Pair(C, r)) = {C, r.target}
  BY <1>1 DEF Items
<1>3. r.target \in DOMAIN m.of
  BY RelationsOf DEF Declarable
<1>4. Items(Pair(C, r)) \subseteq DOMAIN m.of
  BY <1>2, <1>3
<1>5. Defined(m, Items(Pair(C, r))) \subseteq Whole(m)
  BY <1>4, WholeBounds
<1>6. Unresolvable(m, Pair(C, r)) => Fault \in Whole(m)
  BY <1>5, ListsAsSets
<1>7. Conflicting(m, Pair(C, r)) => Differing(m)
  BY <1>5, ListsAsSets DEF Differing
<1> QED BY <1>1, <1>2, <1>4, <1>5, <1>6, <1>7

(* Where a read finds the relation's own declaration, or one that leads     *)
(* back.                                                                    *)
LEMMA OwnPlace ==
  ASSUME NEW m, Declarable(m), NEW C \in DOMAIN m.of, NEW r \in Items(Relations(m, C)),
         ~ Unresolvable(m, Pair(C, r)), NEW p \in OwnPlaces(m, C, r)
  PROVE  /\ DefinitionAt(m, Pair(C, r), p) = JoinTableDefinition(m, C, r)
         /\ JoinTableDefinition(m, C, r) \in Whole(m) \ {Fault}
<1> DEFINE L == Pair(C, r)
           d == DefinitionAt(m, L, p)
           s == Relations(m, L[p[1]])[p[2]]
<1>1. p \in Declarations(m, L) /\ d.owner = C /\ d.property = r.prop
  BY DEF OwnPlaces, Kept, Pair
<1>2. d # Fault
  BY <1>1 DEF Unresolvable
<1> HIDE DEF L
<1>3. /\ L[p[1]] \in Items(L)
      /\ s \in Items(Relations(m, L[p[1]]))
      /\ d = JoinTableDefinition(m, L[p[1]], s)
      /\ d \in Defined(m, Items(L))
  BY <1>1, PlaceShape
<1>4. d \in Whole(m)
  BY <1>3, PairSets DEF L
<1>5. d # Unset
  BY <1>3, DefinedShape
<1> HIDE DEF d, s
<1>6. IsTable(m, L[p[1]], s, d)
  BY <1>2, <1>3, <1>5, TableShape
<1>7. L[p[1]] = C /\ s.prop = r.prop
  BY <1>1, <1>6 DEF IsTable
<1>8. s = r
  BY <1>3, <1>7, RelationsOf DEF Declarable
<1> QED BY <1>2, <1>3, <1>4, <1>7, <1>8 DEF d, L

LEMMA InversePlace ==
  ASSUME NEW m, Declarable(m), NEW C \in DOMAIN m.of, NEW r \in Items(Relations(m, C)),
         ~ Unresolvable(m, Pair(C, r)), NEW p \in InversePlaces(m, C, r)
  PROVE  /\ DefinitionAt(m, Pair(C, r), p) \in Whole(m) \ {Fault}
         /\ \E s \in ManyToMany(m, r.target) :
              /\ s.target = C
              /\ DefinitionAt(m, Pair(C, r), p) = JoinTableDefinition(m, r.target, s)
<1> DEFINE L == Pair(C, r)
           d == DefinitionAt(m, L, p)
           s == Relations(m, L[p[1]])[p[2]]
<1>1. p \in Declarations(m, L) /\ d.owner = r.target /\ d.inverse = C
  BY DEF InversePlaces, Kept, Pair
<1>2. d # Fault
  BY <1>1 DEF Unresolvable
<1> HIDE DEF L
<1>3. /\ L[p[1]] \in Items(L)
      /\ s \in Items(Relations(m, L[p[1]]))
      /\ d = JoinTableDefinition(m, L[p[1]], s)
      /\ d \in Defined(m, Items(L))
  BY <1>1, PlaceShape
<1>4. d \in Whole(m)
  BY <1>3, PairSets DEF L
<1>5. d # Unset
  BY <1>3, DefinedShape
<1> HIDE DEF d, s
<1>6. IsTable(m, L[p[1]], s, d)
  BY <1>2, <1>3, <1>5, TableShape
<1>7. L[p[1]] = r.target /\ s.target = C /\ s.type = "many-to-many"
  BY <1>1, <1>6 DEF IsTable, Declares
<1>8. s \in ManyToMany(m, r.target)
  BY <1>3, <1>7 DEF ManyToMany
<1> QED BY <1>2, <1>3, <1>4, <1>7, <1>8 DEF d, L

LEMMA PlacesInPair ==
  ASSUME NEW m, Declarable(m), NEW C \in DOMAIN m.of, NEW r \in Items(Relations(m, C)),
         NEW P, P \subseteq Declarations(m, Pair(C, r)), P # {}
  PROVE  Earliest(P) \in P
<1>1. ASSUME NEW p \in P PROVE p = <<p[1], p[2]>> /\ p[1] \in Nat /\ p[2] \in Nat
  <2>1. /\ p = <<p[1], p[2]>> /\ p[1] \in DOMAIN Pair(C, r)
        /\ p[2] \in DOMAIN Relations(m, Pair(C, r)[p[1]])
        /\ Pair(C, r)[p[1]] \in Items(Pair(C, r))
    BY PlaceShape
  <2>2. Pair(C, r)[p[1]] \in DOMAIN m.of /\ p[1] \in 1..2
    BY <2>1, PairSets
  <2>3. DOMAIN Relations(m, Pair(C, r)[p[1]]) \subseteq Nat
    BY <2>2, RelationsOf DEF Declarable
  <2> QED BY <2>1, <2>2, <2>3
<1> QED BY <1>1, EarliestThere

(* What a read of a many-to-many relation gives.                            *)
OwnRead(m, C, r, t) ==
  /\ OwnPlaces(m, C, r) # {}
  /\ JoinTableDefinition(m, C, r) \in Whole(m) \ {Fault}
  /\ t = IF ForeignConflict(m, JoinTableDefinition(m, C, r)) THEN Fault
         ELSE AsDeclared(JoinTableDefinition(m, C, r))

InverseRead(m, C, r, t) ==
  /\ OwnPlaces(m, C, r) = {} /\ InversePlaces(m, C, r) # {}
  /\ \E s \in ManyToMany(m, r.target) :
       /\ s.target = C
       /\ JoinTableDefinition(m, r.target, s) \in Whole(m) \ {Fault}
       /\ t = IF ForeignConflict(m, JoinTableDefinition(m, r.target, s)) THEN Fault
              ELSE Flipped(JoinTableDefinition(m, r.target, s))

Reads(m, C, r, t) ==
  \/ OwnRead(m, C, r, t)
  \/ InverseRead(m, C, r, t)
  \/ t = Unset /\ OwnPlaces(m, C, r) = {} /\ InversePlaces(m, C, r) = {}

LEMMA ReadShape ==
  ASSUME NEW m, Declarable(m), NEW C \in DOMAIN m.of, NEW r \in Items(Relations(m, C)),
         IsEntity(m, C), IsEntity(m, r.target),
         ~ Unresolvable(m, Pair(C, r)), ~ Conflicting(m, Pair(C, r))
  PROVE  Reads(m, C, r, ResolveManyToManyJoinTable(m, C, r))
<1> DEFINE L == Pair(C, r)
           t == ResolveManyToManyJoinTable(m, C, r)
           P == OwnPlaces(m, C, r)
           Q == InversePlaces(m, C, r)
           d == DefinitionAt(m, L, Earliest(P))
           e == DefinitionAt(m, L, Earliest(Q))
<1>1. t = IF P # {} THEN IF ForeignConflict(m, d) THEN Fault ELSE AsDeclared(d)
          ELSE IF Q # {} THEN IF ForeignConflict(m, e) THEN Fault ELSE Flipped(e)
          ELSE Unset
  BY DEF ResolveManyToManyJoinTable, Pair
<1>2. P \subseteq Declarations(m, L) /\ Q \subseteq Declarations(m, L)
  BY DEF OwnPlaces, InversePlaces, Kept, Pair
<1> HIDE DEF t
<1>3. CASE P # {}
  <2>1. Earliest(P) \in P
    BY <1>2, <1>3, PlacesInPair
  <2>2. d = JoinTableDefinition(m, C, r) /\ JoinTableDefinition(m, C, r) \in Whole(m) \ {Fault}
    BY <2>1, OwnPlace
  <2> HIDE DEF d
  <2>3. t = IF ForeignConflict(m, d) THEN Fault ELSE AsDeclared(d)
    BY <1>1, <1>3
  <2>4. OwnRead(m, C, r, t)
    BY <1>3, <2>2, <2>3 DEF OwnRead
  <2> QED BY <2>4 DEF Reads, t
<1>4. CASE P = {} /\ Q # {}
  <2>1. Earliest(Q) \in Q
    BY <1>2, <1>4, PlacesInPair
  <2>2. PICK s \in ManyToMany(m, r.target) :
          s.target = C /\ e = JoinTableDefinition(m, r.target, s)
    BY <2>1, InversePlace
  <2>3. e \in Whole(m) \ {Fault}
    BY <2>1, InversePlace
  <2> HIDE DEF e
  <2>4. t = IF ForeignConflict(m, e) THEN Fault ELSE Flipped(e)
    BY <1>1, <1>4
  <2>5. InverseRead(m, C, r, t)
    BY <1>4, <2>2, <2>3, <2>4 DEF InverseRead
  <2> QED BY <2>5 DEF Reads, t
<1>5. CASE P = {} /\ Q = {}
  BY <1>1, <1>5 DEF Reads, t
<1> QED BY <1>3, <1>4, <1>5
(* A read fails only for what sync refuses too.                             *)
LEMMA ReadFails ==
  ASSUME NEW m, Declarable(m), NEW C \in DOMAIN m.of, NEW r \in Items(Relations(m, C)),
         ResolveManyToManyJoinTable(m, C, r) = Fault
  PROVE  Fault \in Whole(m) \/ Differing(m)
<1> DEFINE t == ResolveManyToManyJoinTable(m, C, r)
<1>1. IsEntity(m, C) /\ IsEntity(m, r.target)
  BY ValuesAssumption DEF ResolveManyToManyJoinTable
<1>2. CASE Unresolvable(m, Pair(C, r)) \/ Conflicting(m, Pair(C, r))
  BY <1>2, PairSets
<1>3. CASE ~ Unresolvable(m, Pair(C, r)) /\ ~ Conflicting(m, Pair(C, r))
  <2>1. Reads(m, C, r, t)
    BY <1>1, <1>3, ReadShape
  <2> HIDE DEF t
  <2>2. t = Fault
    BY DEF t
  <2>3. ASSUME NEW d \in Whole(m) \ {Fault}, ForeignConflict(m, d) PROVE Differing(m)
    BY <2>3, ForeignSet DEF Differing
  <2>4. CASE OwnRead(m, C, r, t)
    <3> DEFINE d == JoinTableDefinition(m, C, r)
    <3>1. d \in Whole(m) \ {Fault} /\ (t = IF ForeignConflict(m, d) THEN Fault ELSE AsDeclared(d))
      BY <2>4 DEF OwnRead
    <3> HIDE DEF d
    <3>2. AsDeclared(d) # Fault
      BY <3>1, WholeShape
    <3> QED BY <2>2, <2>3, <3>1, <3>2
  <2>5. CASE InverseRead(m, C, r, t)
    <3>1. PICK s \in ManyToMany(m, r.target) :
            /\ JoinTableDefinition(m, r.target, s) \in Whole(m) \ {Fault}
            /\ t = IF ForeignConflict(m, JoinTableDefinition(m, r.target, s)) THEN Fault
                   ELSE Flipped(JoinTableDefinition(m, r.target, s))
      BY <2>5 DEF InverseRead
    <3> DEFINE d == JoinTableDefinition(m, r.target, s)
    <3>2. d \in Whole(m) \ {Fault} /\ (t = IF ForeignConflict(m, d) THEN Fault ELSE Flipped(d))
      BY <3>1
    <3> HIDE DEF d
    <3>3. Flipped(d) # Fault
      BY <3>2, WholeShape
    <3> QED BY <2>2, <2>3, <3>2, <3>3
  <2>6. t # Unset
    BY <2>2, ValuesAssumption
  <2> QED BY <2>1, <2>4, <2>5, <2>6 DEF Reads
<1> QED BY <1>2, <1>3

(* What is read is a table that no entity declares differently.             *)
LEMMA ReadAgrees ==
  ASSUME NEW m, Declarable(m), NEW C \in DOMAIN m.of, NEW r \in Items(Relations(m, C)),
         ResolveManyToManyJoinTable(m, C, r) \notin {Unset, Fault}
  PROVE  \E d \in Whole(m) \ {Fault} :
           /\ ~ ForeignConflict(m, d)
           /\ d.tableName = ResolveManyToManyJoinTable(m, C, r).tableName
<1> DEFINE t == ResolveManyToManyJoinTable(m, C, r)
<1>1. /\ IsEntity(m, C) /\ IsEntity(m, r.target)
      /\ ~ Unresolvable(m, Pair(C, r)) /\ ~ Conflicting(m, Pair(C, r))
  BY DEF ResolveManyToManyJoinTable, Pair
<1>2. Reads(m, C, r, t)
  BY <1>1, ReadShape
<1> HIDE DEF t
<1>3. t \notin {Unset, Fault}
  BY DEF t
<1>4. CASE OwnRead(m, C, r, t)
  <2> DEFINE d == JoinTableDefinition(m, C, r)
  <2>1. d \in Whole(m) \ {Fault} /\ (t = IF ForeignConflict(m, d) THEN Fault ELSE AsDeclared(d))
    BY <1>4 DEF OwnRead
  <2> HIDE DEF d
  <2>2. ~ ForeignConflict(m, d) /\ d.tableName = t.tableName
    BY <1>3, <2>1 DEF AsDeclared
  <2> QED BY <2>1, <2>2 DEF t
<1>5. CASE InverseRead(m, C, r, t)
  <2>1. PICK s \in ManyToMany(m, r.target) :
          /\ JoinTableDefinition(m, r.target, s) \in Whole(m) \ {Fault}
          /\ t = IF ForeignConflict(m, JoinTableDefinition(m, r.target, s)) THEN Fault
                 ELSE Flipped(JoinTableDefinition(m, r.target, s))
    BY <1>5 DEF InverseRead
  <2> DEFINE d == JoinTableDefinition(m, r.target, s)
  <2>2. d \in Whole(m) \ {Fault} /\ (t = IF ForeignConflict(m, d) THEN Fault ELSE Flipped(d))
    BY <2>1
  <2> HIDE DEF d
  <2>3. ~ ForeignConflict(m, d) /\ d.tableName = t.tableName
    BY <1>3, <2>2 DEF Flipped
  <2> QED BY <2>2, <2>3 DEF t
<1> QED BY <1>2, <1>3, <1>4, <1>5 DEF Reads

(* A declaration that shares its table with no other of its class is found  *)
(* by the reads of its own relation.                                        *)
Alone(m, C, r) ==
  \A s \in ManyToMany(m, C) :
    /\ JoinTableDefinition(m, C, s) \notin {Unset, Fault}
    /\ JoinTableDefinition(m, C, s).tableName = JoinTableDefinition(m, C, r).tableName
    => s = r

LEMMA OwnPlacesThere ==
  ASSUME NEW m, Declarable(m), NEW C \in DOMAIN m.of, NEW r \in Items(Relations(m, C)),
         JoinTableDefinition(m, C, r) \notin {Unset, Fault}, Alone(m, C, r),
         ~ Unresolvable(m, Pair(C, r))
  PROVE  OwnPlaces(m, C, r) # {}
<1> DEFINE L == Pair(C, r)
           d == JoinTableDefinition(m, C, r)
<1>1. DOMAIN L = 1..2 /\ L[1] = C /\ L[2] = r.target
  BY PairSets
<1>2. PICK j \in DOMAIN Relations(m, C) : Relations(m, C)[j] = r
  BY DEF Items
<1>3. j \in Nat
  BY RelationsOf DEF Declarable
<1> DEFINE p == <<1, j>>
<1> HIDE DEF L
<1>4. 1 \in DOMAIN L /\ j \in DOMAIN Relations(m, L[1])
      /\ JoinTableDefinition(m, L[1], Relations(m, L[1])[j]) = d
  BY <1>1, <1>2
<1>5. p \in Declarations(m, L) /\ DefinitionAt(m, L, p) = d
  BY <1>4, PlaceOf
<1>6. p[1] = 1 /\ p[2] = j
  OBVIOUS
<1> HIDE DEF p
<1>7. ASSUME NEW q \in Declarations(m, L), Before(q, p),
             DefinitionAt(m, L, q).tableName = DefinitionAt(m, L, p).tableName
      PROVE  FALSE
  <2> DEFINE e == DefinitionAt(m, L, q)
             s == Relations(m, L[q[1]])[q[2]]
  <2>1. /\ q = <<q[1], q[2]>>
        /\ q[1] \in DOMAIN L /\ q[2] \in DOMAIN Relations(m, L[q[1]])
        /\ s \in Items(Relations(m, L[q[1]]))
        /\ e = JoinTableDefinition(m, L[q[1]], s)
        /\ e \in Defined(m, Items(L))
    BY PlaceShape
  <2>2. e # Unset /\ e # Fault
    BY <2>1, DefinedShape DEF Unresolvable, L
  <2>3. q[1] \in 1..2
    BY <1>1, <2>1
  <2>4. q[1] = 1 /\ q[2] < j
    BY <1>6, <1>7, <2>3 DEF Before
  <2>5. L[q[1]] = C
    BY <1>1, <2>4
  <2>6. e.tableName = d.tableName
    BY <1>5, <1>7
  <2> HIDE DEF e
  <2>7. IsTable(m, C, s, e) /\ e = JoinTableDefinition(m, C, s)
    BY <2>1, <2>2, <2>5, TableShape
  <2>8. s \in ManyToMany(m, C)
    BY <2>1, <2>5, <2>7 DEF IsTable, Declares, ManyToMany
  <2>9. s = r
    BY <2>2, <2>6, <2>7, <2>8 DEF Alone
  <2>10. Relations(m, C)[q[2]].prop = Relations(m, C)[j].prop /\ q[2] \in DOMAIN Relations(m, C)
    BY <1>2, <2>1, <2>5, <2>9
  <2>11. q[2] = j
    BY <1>2, <2>10 DEF Declarable, WellFormed
  <2> QED BY <1>3, <2>4, <2>11
<1>8. p \in Kept(m, L)
  BY <1>5, <1>7 DEF Kept
<1>9. IsTable(m, C, r, d)
  BY TableShape
<1>10. d.owner = C /\ d.property = r.prop
  BY <1>9 DEF IsTable
<1>11. p \in OwnPlaces(m, C, r)
  BY <1>5, <1>8, <1>10 DEF OwnPlaces, L, Pair
<1> QED BY <1>11

LEMMA OneTableAlone ==
  ASSUME NEW m, Declarable(m), OneTableEach(m), NEW C \in DOMAIN m.of,
         NEW r \in Items(Relations(m, C)),
         JoinTableDefinition(m, C, r) \notin {Unset, Fault}
  PROVE  Alone(m, C, r)
<1>1. IsTable(m, C, r, JoinTableDefinition(m, C, r))
  BY TableShape
<1>2. ASSUME NEW s \in ManyToMany(m, C), JoinTableDefinition(m, C, s) \notin {Unset, Fault},
             JoinTableDefinition(m, C, s).tableName = JoinTableDefinition(m, C, r).tableName
      PROVE  s = r
  <2>1. IsTable(m, C, s, JoinTableDefinition(m, C, s))
    BY <1>2, TableShape
  <2>2. C \in Registered(m) /\ s.prop \in DOMAIN m.of[C].joins /\ r.prop \in DOMAIN m.of[C].joins
        /\ m.of[C].joins[s.prop].tableName = m.of[C].joins[r.prop].tableName
    BY <1>1, <1>2, <2>1 DEF IsTable, Declares, Registered
  <2>3. s.prop = r.prop
    BY <2>2 DEF OneTableEach
  <2> QED BY <2>3, RelationsOf DEF Declarable, ManyToMany
<1> QED BY <1>2 DEF Alone

(* A difference about one table is seen by sync and by every read of it.    *)
LEMMA DifferenceSeen ==
  ASSUME NEW m, Declarable(m), Complete(m), NEW C \in Registered(m), NEW r \in ManyToMany(m, C)
  PROVE  LET read == ResolveManyToManyJoinTable(m, C, r)
             d    == JoinTableDefinition(m, C, r)
         IN  /\ /\ OneTableEach(m) /\ d \notin {Unset, Fault}
                /\ Clashing(m, d.tableName)
                => read = Fault
             /\ read = Fault => SyncRefuses(m)
             /\ read \notin {Unset, Fault} => ~ Clashing(m, read.tableName)
<1> DEFINE t == ResolveManyToManyJoinTable(m, C, r)
           d == JoinTableDefinition(m, C, r)
<1>1. C \in DOMAIN m.of /\ r \in Items(Relations(m, C))
  BY DEF Registered, ManyToMany
<1>2. ASSUME NEW c \in Whole(m) \ {Fault}, Clashing(m, c.tableName) PROVE ForeignConflict(m, c)
  <2>1. PICK x \in Whole(m) \ {Fault}, y \in Whole(m) \ {Fault} :
          x.tableName = c.tableName /\ Clash(x, y)
    BY <1>2, SeenSets
  <2>2. Clash(c, x) \/ Clash(c, y)
    BY <2>1, NoClashWithBoth
  <2> QED BY <2>2, ForeignSet
<1>3. ASSUME OneTableEach(m), d \notin {Unset, Fault}, Clashing(m, d.tableName)
      PROVE  t = Fault
  <2>1. IsEntity(m, C) /\ IsEntity(m, r.target)
    <3>1. IsTable(m, C, r, d)
      BY <1>3, TableShape
    <3> QED BY <3>1 DEF IsTable, Declares, Resolves
  <2>2. CASE Unresolvable(m, Pair(C, r)) \/ Conflicting(m, Pair(C, r))
    BY <2>1, <2>2 DEF ResolveManyToManyJoinTable, Pair
  <2>3. CASE ~ Unresolvable(m, Pair(C, r)) /\ ~ Conflicting(m, Pair(C, r))
    <3>1. Reads(m, C, r, t)
      BY <1>1, <2>1, <2>3, ReadShape
    <3>2. OwnPlaces(m, C, r) # {}
      BY <1>1, <1>3, <2>3, OneTableAlone, OwnPlacesThere
    <3> HIDE DEF t
    <3>3. OwnRead(m, C, r, t)
      BY <3>1, <3>2 DEF Reads, InverseRead
    <3>4. d \in Whole(m) \ {Fault} /\ (t = IF ForeignConflict(m, d) THEN Fault ELSE AsDeclared(d))
      BY <3>3 DEF OwnRead
    <3> QED BY <1>2, <1>3, <3>4
  <2> QED BY <2>2, <2>3
<1>4. ASSUME t = Fault PROVE SyncRefuses(m)
  <2>1. Fault \in Whole(m) \/ Differing(m)
    BY <1>1, <1>4, ReadFails
  <2> QED BY <2>1, SeenSets DEF SyncRefuses, Malformed
<1>5. ASSUME t \notin {Unset, Fault} PROVE ~ Clashing(m, t.tableName)
  <2>1. PICK c \in Whole(m) \ {Fault} : ~ ForeignConflict(m, c) /\ c.tableName = t.tableName
    BY <1>1, <1>5, ReadAgrees
  <2> QED BY <1>2, <2>1
<1> QED BY <1>3, <1>4, <1>5
---------------------------------------------------------------------------
(* What validation has made sure of.                                        *)
LEMMA Condition ==
  ASSUME NEW condition, NEW code, If(condition, code) = {}
  PROVE  ~ condition
BY DEF If

HasJoin(m, C, r) == r.prop \in DOMAIN m.of[C].joins

InverseHasJoin(m, C, r) ==
  Back(m, C, r) # {} /\ HasJoin(m, r.target, InverseRelation(m, C, r))

LEMMA AcceptedClass ==
  ASSUME NEW m, Accepted(m), NEW C \in Items(m.entities)
  PROVE  /\ IsEntity(m, C)
         /\ KeyIssues(m, C) = {} /\ ColumnIssues(m, C) = {}
         /\ \A r \in Items(Relations(m, C)) : RelationIssues(m, C, r) = {}
<1>1. ValidateEntityMetadata(m, C) = {}
  BY DEF Accepted
<1>2. IsEntity(m, C)
  BY <1>1 DEF ValidateEntityMetadata
<1>3. KeyIssues(m, C) = {} /\ ColumnIssues(m, C) = {}
      /\ UNION {RelationIssues(m, C, r) : r \in Items(Relations(m, C))} = {}
  BY <1>1, <1>2 DEF ValidateEntityMetadata
<1>4. ASSUME NEW r \in Items(Relations(m, C)) PROVE RelationIssues(m, C, r) = {}
  BY <1>3
<1> QED BY <1>2, <1>3, <1>4

LEMMA AcceptedRelation ==
  ASSUME NEW m, Accepted(m), NEW C \in Items(m.entities), NEW r \in Items(Relations(m, C))
  PROVE  /\ IsEntity(m, C) /\ IsEntity(m, r.target)
         /\ r.type = "many-to-many" =>
              /\ ~ (HasJoin(m, C, r) /\ InverseHasJoin(m, C, r))
              /\ HasJoin(m, C, r) \/ InverseHasJoin(m, C, r)
              /\ HasJoin(m, C, r) => JoinTableDefinition(m, C, r) # Fault
              /\ ~ HasJoin(m, C, r) =>
                   JoinTableDefinition(m, r.target, InverseRelation(m, C, r)) # Fault
         /\ r.type # "many-to-many" => ResolveRelationJoinColumn(r.joinColumn) # Fault
<1>1. IsEntity(m, C) /\ RelationIssues(m, C, r) = {}
  BY AcceptedClass
<1>2. IsEntity(m, r.target)
  BY <1>1 DEF RelationIssues
<1>3. ASSUME r.type = "many-to-many"
      PROVE  /\ ~ (HasJoin(m, C, r) /\ InverseHasJoin(m, C, r))
             /\ HasJoin(m, C, r) \/ InverseHasJoin(m, C, r)
             /\ HasJoin(m, C, r) => JoinTableDefinition(m, C, r) # Fault
             /\ ~ HasJoin(m, C, r) =>
                  JoinTableDefinition(m, r.target, InverseRelation(m, C, r)) # Fault
  <2>1. ManyToManyIssues(m, C, r) = {}
    BY <1>1, <1>2, <1>3 DEF RelationIssues
  <2>2. ~ (HasJoin(m, C, r) /\ InverseHasJoin(m, C, r))
        /\ (HasJoin(m, C, r) \/ InverseHasJoin(m, C, r))
    BY <2>1 DEF ManyToManyIssues, HasJoin, InverseHasJoin
  <2>3. HasJoin(m, C, r) => JoinTableDefinition(m, C, r) # Fault
    BY <2>1, <2>2 DEF ManyToManyIssues, HasJoin, InverseHasJoin, If
  <2>4. ~ HasJoin(m, C, r) =>
          JoinTableDefinition(m, r.target, InverseRelation(m, C, r)) # Fault
    BY <2>1, <2>2 DEF ManyToManyIssues, HasJoin, InverseHasJoin, If
  <2> QED BY <2>2, <2>3, <2>4
<1>4. ASSUME r.type # "many-to-many" PROVE ResolveRelationJoinColumn(r.joinColumn) # Fault
  BY <1>1, <1>2, <1>4 DEF RelationIssues, JoinColumnIssues
<1> QED BY <1>1, <1>2, <1>3, <1>4

(* The inverse relation of a many-to-many relation leads back.              *)
LEMMA InverseLeadsBack ==
  ASSUME NEW m, WellFormed(m), NEW C, NEW r, r.target \in DOMAIN m.of, Back(m, C, r) # {}
  PROVE  /\ InverseRelation(m, C, r) \in ManyToMany(m, r.target)
         /\ InverseRelation(m, C, r).target = C
<1> DEFINE B == Back(m, C, r)
<1>1. B \in SUBSET Nat /\ B \subseteq DOMAIN Relations(m, r.target)
  BY RelationsOf DEF Back
<1>2. \E j \in B : \A k \in B : j <= k
  <2> HIDE DEF B
  <2>1. B # {}
    BY DEF B
  <2> QED BY <1>1, <2>1, LeastNumber
<1> DEFINE j == CHOOSE j \in B : \A k \in B : j <= k
<1>3. j \in B
  BY <1>2
<1>4. InverseRelation(m, C, r) = Relations(m, r.target)[j]
  BY DEF InverseRelation
<1> HIDE DEF j
<1>5. /\ Relations(m, r.target)[j].type = "many-to-many"
      /\ Relations(m, r.target)[j].target = C
      /\ j \in DOMAIN Relations(m, r.target)
  BY <1>3 DEF Back
<1> QED BY <1>4, <1>5 DEF ManyToMany, Items

(* A model that is accepted can be built, but for a table declared          *)
(* differently or twice.                                                    *)
LEMMA AcceptedIsBuildable ==
  ASSUME NEW m, Declarable(m), Accepted(m), NEW C \in Items(m.entities)
  PROVE  Buildable(m, C)
<1> DEFINE c == m.of[C]
<1>0. C \in DOMAIN m.of
  BY DEF Declarable, WellFormed, Items
<1>1. KeyIssues(m, C) = {} /\ ColumnIssues(m, C) = {}
  BY AcceptedClass
<1>2. c.pks # <<>> /\ Items(c.pks) \subseteq DOMAIN c.schema
  <2>1. /\ If(c.pks = <<>>, "MISSING_PRIMARY_KEY") = {}
        /\ If(~ Items(c.pks) \subseteq DOMAIN c.schema, "PRIMARY_KEY_UNDECLARED") = {}
    BY <1>1 DEF KeyIssues
  <2> QED BY <2>1, Condition
<1>3. c.ttl # Unset => ValidTtl(c.ttl, c.schema)
  <2>1. If(c.ttl # Unset /\ ~ ValidTtl(c.ttl, c.schema), "TTL_INVALID") = {}
    BY <1>1 DEF ColumnIssues
  <2> QED BY <2>1, Condition
<1>4. BlindIndexes(m, C) \cap DOMAIN c.schema = {}
  BY <1>0 DEF Declarable, WellFormed
<1>5. DOMAIN c.schema \subseteq DOMAIN Columns(m, C)
      /\ \A f \in DOMAIN c.schema : Columns(m, C)[f] = c.schema[f]
  BY <1>4 DEF Columns
<1>6. ValidTtl(c.ttl, c.schema) => ValidTtl(c.ttl, Columns(m, C))
  BY <1>5 DEF ValidTtl
<1> QED BY <1>2, <1>3, <1>5, <1>6 DEF Buildable

LEMMA AcceptedResolves ==
  ASSUME NEW m, Declarable(m), Complete(m), Accepted(m)
  PROVE  Fault \notin Whole(m)
<1> SUFFICES ASSUME Fault \in Whole(m) PROVE FALSE
  OBVIOUS
<1>1. PICK C \in Registered(m) : \E r \in Items(Relations(m, C)) : Fault = JoinTableDefinition(m, C, r)
  BY DefinedShape DEF Whole
<1>2. PICK r \in Items(Relations(m, C)) : Fault = JoinTableDefinition(m, C, r)
  BY <1>1
<1>3. Declares(m, C, r)
  BY <1>2, ValuesAssumption DEF JoinTableDefinition
<1>4. r.type = "many-to-many" /\ HasJoin(m, C, r) /\ C \in Items(m.entities)
  BY <1>3 DEF Declares, HasJoin, Complete
<1> QED BY <1>2, <1>4, AcceptedRelation

LEMMA AcceptedNotMalformed ==
  ASSUME NEW m, Declarable(m), Complete(m), Accepted(m)
  PROVE  /\ ~ Malformed(m)
         /\ Built(m) = Items(m.entities) /\ Built(m) = Registered(m)
<1>1. ~ Unresolvable(m, SeenEntities(m))
  BY AcceptedResolves, SeenSets
<1>2. \A C \in Built(m) : Buildable(m, C)
  BY AcceptedIsBuildable DEF Built
<1>3. Built(m) = Items(m.entities)
  BY AcceptedClass DEF Built
<1> QED BY <1>1, <1>2, <1>3 DEF Malformed, Complete

(* What cannot be printed of an accepted model.                             *)
LEMMA UnprintedInverse ==
  ASSUME NEW m, Declarable(m), NEW C \in DOMAIN m.of, NEW r \in Items(Relations(m, C)),
         FindInverseProperty(m, C, r) = Fault
  PROVE  r.type = "many-to-many" /\ r.inverseSide = Rejected
<1>1. CASE r.type = "many-to-many"
  BY <1>1, RelationsOf DEF FindInverseProperty, Declarable
<1>2. CASE r.type # "many-to-many"
  <2>1. PICK B : /\ B \subseteq DOMAIN Relations(m, r.target)
                 /\ FindInverseProperty(m, C, r) =
                      IF ResolveRelationJoinColumn(r.joinColumn) # Fault /\ Cardinality(B) = 1
                        THEN Relations(m, r.target)[CHOOSE j \in B : TRUE].prop
                        ELSE Unset
    BY <1>2 DEF FindInverseProperty
  <2>2. Cardinality(B) = 1 /\ Relations(m, r.target)[CHOOSE j \in B : TRUE].prop = Fault
    BY <2>1, ValuesAssumption
  <2>3. B # {}
    BY <2>2, FS_EmptySet
  <2>4. (CHOOSE j \in B : TRUE) \in DOMAIN Relations(m, r.target) /\ r.target \in DOMAIN m.of
    BY <2>1, <2>3, RelationsOf DEF Declarable
  <2>5. Relations(m, r.target)[CHOOSE j \in B : TRUE] \in Items(Relations(m, r.target))
    BY <2>4 DEF Items
  <2> QED BY <2>2, <2>4, <2>5, RelationsOf DEF Declarable
<1> QED BY <1>1, <1>2

LEMMA UnprintedAccepted ==
  ASSUME NEW m, Declarable(m), Complete(m), Accepted(m), ~ SyncRefuses(m), DumpRefuses(m)
  PROVE  \E C \in Registered(m) : \E r \in ManyToMany(m, C) : r.inverseSide = Rejected
<1>1. PICK C \in Built(m) : \E r \in Items(Relations(m, C)) : DumpRelationFails(m, C, r)
  BY AcceptedNotMalformed DEF DumpRefuses
<1>2. PICK r \in Items(Relations(m, C)) : DumpRelationFails(m, C, r)
  BY <1>1
<1>3. C \in Registered(m) /\ C \in Items(m.entities) /\ C \in DOMAIN m.of
  BY AcceptedNotMalformed DEF Registered
<1>4. /\ IsEntity(m, C) /\ IsEntity(m, r.target)
      /\ r.type # "many-to-many" => ResolveRelationJoinColumn(r.joinColumn) # Fault
  BY <1>3, AcceptedRelation
<1>5. ASSUME r.type = "many-to-many", r.prop \in DOMAIN m.of[C].joins
      PROVE  JoinTableDefinition(m, C, r) \notin {Unset, Fault}
  <2>1. Declares(m, C, r)
    BY <1>4, <1>5 DEF Declares
  <2>2. JoinTableDefinition(m, C, r) # Fault
    BY <1>3, <1>5, AcceptedRelation DEF HasJoin
  <2> QED BY <1>3, <2>1, <2>2, DeclaredTable
<1>6. FindInverseProperty(m, C, r) = Fault
  BY <1>2, <1>4, <1>5 DEF DumpRelationFails
<1>7. r.type = "many-to-many" /\ r.inverseSide = Rejected
  BY <1>3, <1>6, UnprintedInverse
<1> QED BY <1>3, <1>7 DEF ManyToMany
---------------------------------------------------------------------------
(* All entities agree about every table.                                    *)
Settled(m) ==
  /\ Fault \notin Whole(m)
  /\ \A d, e \in Whole(m) : d.tableName = e.tableName => Equivalent(d, e)

LEMMA AgreedTables ==
  ASSUME NEW m, Declarable(m), Complete(m), ~ SyncRefuses(m)
  PROVE  /\ Settled(m) /\ ~ Differing(m)
         /\ \A d \in Whole(m) : ~ ForeignConflict(m, d)
<1>1. Fault \notin Whole(m) /\ ~ Differing(m)
  BY SeenSets DEF SyncRefuses, Malformed
<1>2. \A d, e \in Whole(m) : ~ Clash(d, e)
  BY <1>1 DEF Differing
<1>3. \A d \in Whole(m) : ~ ForeignConflict(m, d)
  BY <1>2, ForeignSet
<1>4. Settled(m)
  BY <1>1, <1>2 DEF Settled, Clash
<1> QED BY <1>1, <1>3, <1>4

LEMMA PairSettled ==
  ASSUME NEW m, Declarable(m), Complete(m), ~ SyncRefuses(m),
         NEW C \in DOMAIN m.of, NEW r \in Items(Relations(m, C))
  PROVE  ~ Unresolvable(m, Pair(C, r)) /\ ~ Conflicting(m, Pair(C, r))
BY AgreedTables, PairSets DEF Settled

(* A relation without a join table of its own finds the one of its inverse. *)
LEMMA InversePlacesThere ==
  ASSUME NEW m, Declarable(m), Complete(m), Accepted(m),
         NEW C \in Registered(m), NEW r \in ManyToMany(m, C), ~ HasJoin(m, C, r),
         ~ Conflicting(m, Pair(C, r))
  PROVE  OwnPlaces(m, C, r) = {} /\ InversePlaces(m, C, r) # {}
<1> DEFINE L == Pair(C, r)
           s == InverseRelation(m, C, r)
           e == JoinTableDefinition(m, r.target, s)
<1>1. /\ C \in DOMAIN m.of /\ C \in Items(m.entities)
      /\ r \in Items(Relations(m, C)) /\ r.type = "many-to-many"
  BY DEF Registered, ManyToMany, Complete
<1>2. r.target \in DOMAIN m.of /\ WellFormed(m)
  BY <1>1, RelationsOf DEF Declarable
<1>3. IsEntity(m, C) /\ IsEntity(m, r.target) /\ InverseHasJoin(m, C, r) /\ e # Fault
  BY <1>1, AcceptedRelation
<1>4. s \in ManyToMany(m, r.target) /\ s.target = C /\ HasJoin(m, r.target, s)
      /\ Back(m, C, r) # {}
  BY <1>2, <1>3, InverseLeadsBack DEF InverseHasJoin
<1> HIDE DEF s
<1>5. Declares(m, r.target, s) /\ s \in Items(Relations(m, r.target))
  BY <1>3, <1>4 DEF Declares, HasJoin, ManyToMany
<1>6. e # Unset /\ e \in Whole(m)
  BY <1>2, <1>5, DeclaredTable
<1>7. IsTable(m, r.target, s, e)
  BY <1>3, <1>6, TableShape
<1>8. OwnPlaces(m, C, r) = {}
  <2>1. ASSUME NEW p \in OwnPlaces(m, C, r) PROVE FALSE
    <3>1. JoinTableDefinition(m, C, r) \in Whole(m) \ {Fault}
      BY <1>1, PairSets, AcceptedResolves, OwnPlace
    <3>2. JoinTableDefinition(m, C, r) # Unset
      BY <3>1, WholeShape
    <3> QED BY <3>2 DEF JoinTableDefinition, Declares, HasJoin
  <2> QED BY <2>1
<1>9. /\ DOMAIN L = 1..2 /\ Items(L) = {C, r.target} /\ Items(L) \subseteq DOMAIN m.of
      /\ Defined(m, Items(L)) \subseteq Whole(m)
  BY <1>1, PairSets
<1> HIDE DEF L, e
<1>10. e \in Defined(m, Items(L))
  BY <1>5, <1>6, <1>9, DefinedShape DEF e
<1>11. DOMAIN L \subseteq Nat /\ \A D \in Items(L) : DOMAIN Relations(m, D) \subseteq Nat
  BY <1>2, <1>9, RelationsOf
<1>12. PICK p \in Kept(m, L) : DefinitionAt(m, L, p).tableName = e.tableName
  BY <1>10, <1>11, TableKept
<1> DEFINE f == DefinitionAt(m, L, p)
           q == Relations(m, L[p[1]])[p[2]]
<1>13. /\ L[p[1]] \in Items(L)
       /\ q \in Items(Relations(m, L[p[1]]))
       /\ f = JoinTableDefinition(m, L[p[1]], q)
       /\ f \in Defined(m, Items(L))
  BY PlaceShape DEF Kept
<1>14. f \in Whole(m) /\ f # Fault /\ f # Unset /\ f.tableName = e.tableName
  BY <1>9, <1>12, <1>13, AcceptedResolves, DefinedShape
<1> HIDE DEF f, q
<1>15. IsTable(m, L[p[1]], q, f)
  BY <1>13, <1>14, TableShape
<1>16. Equivalent(f, e)
  <2>1. f \in Defined(m, Items(L)) \ {Fault} /\ e \in Defined(m, Items(L)) \ {Fault}
    BY <1>3, <1>10, <1>13, <1>14 DEF e, f
  <2>2. ~ Conflicting(m, L)
    BY DEF L
  <2>3. ~ Clash(f, e)
    BY <2>1, <2>2, ListsAsSets
  <2> QED BY <1>14, <2>3 DEF Clash
<1>17. CASE OwnerSide(f) = OwnerSide(e) /\ InverseSide(f) = InverseSide(e)
  <2>1. f.owner = r.target /\ f.inverse = C
    BY <1>4, <1>7, <1>17 DEF IsTable, OwnerSide, InverseSide
  <2>2. p \in InversePlaces(m, C, r)
    BY <2>1 DEF InversePlaces, f, L, Pair
  <2> QED BY <1>8, <2>2
<1>18. CASE OwnerSide(f) = InverseSide(e) /\ InverseSide(f) = OwnerSide(e)
  <2>1. f.owner = C /\ f.inverse = r.target
    BY <1>4, <1>7, <1>18 DEF IsTable, OwnerSide, InverseSide
  <2>2. L[p[1]] = C /\ q.target = r.target /\ q.type = "many-to-many" /\ HasJoin(m, C, q)
    BY <1>15, <2>1 DEF IsTable, Declares, HasJoin
  <2>3. Back(m, C, q) = Back(m, C, r) /\ InverseRelation(m, C, q) = s
    BY <2>2 DEF Back, InverseRelation, s
  <2>4. InverseHasJoin(m, C, q)
    BY <1>4, <2>2, <2>3 DEF InverseHasJoin
  <2>5. q \in Items(Relations(m, C))
    BY <1>13, <2>2
  <2> QED BY <1>1, <2>2, <2>4, <2>5, AcceptedRelation
<1> QED BY <1>16, <1>17, <1>18 DEF Equivalent

(* So every many-to-many relation reads its own declaration, or the one of  *)
(* a relation that leads back.                                              *)
ReadsOwn(m, C, r, t) ==
  /\ JoinTableDefinition(m, C, r) \in Whole(m)
  /\ t = AsDeclared(JoinTableDefinition(m, C, r))

ReadsInverse(m, C, r, t) ==
  \E s \in ManyToMany(m, r.target) :
    /\ s.target = C
    /\ JoinTableDefinition(m, r.target, s) \in Whole(m)
    /\ t = Flipped(JoinTableDefinition(m, r.target, s))

LEMMA SettledReads ==
  ASSUME NEW m, Declarable(m), Complete(m), Accepted(m), ~ SyncRefuses(m),
         NEW C \in Registered(m), NEW r \in ManyToMany(m, C)
  PROVE  /\ HasJoin(m, C, r) /\ Alone(m, C, r) =>
              ReadsOwn(m, C, r, ResolveManyToManyJoinTable(m, C, r))
         /\ ~ HasJoin(m, C, r) =>
              ReadsInverse(m, C, r, ResolveManyToManyJoinTable(m, C, r))
<1> DEFINE t == ResolveManyToManyJoinTable(m, C, r)
<1>1. /\ C \in DOMAIN m.of /\ C \in Items(m.entities)
      /\ r \in Items(Relations(m, C)) /\ r.type = "many-to-many"
  BY DEF Registered, ManyToMany, Complete
<1>2. /\ IsEntity(m, C) /\ IsEntity(m, r.target)
      /\ HasJoin(m, C, r) => JoinTableDefinition(m, C, r) # Fault
  BY <1>1, AcceptedRelation
<1>3. ~ Unresolvable(m, Pair(C, r)) /\ ~ Conflicting(m, Pair(C, r))
  BY <1>1, PairSettled
<1>4. Reads(m, C, r, t)
  BY <1>1, <1>2, <1>3, ReadShape
<1> HIDE DEF t
<1>5. ASSUME HasJoin(m, C, r), Alone(m, C, r) PROVE ReadsOwn(m, C, r, t)
  <2>1. Declares(m, C, r)
    BY <1>1, <1>2, <1>5 DEF Declares, HasJoin
  <2>2. JoinTableDefinition(m, C, r) \notin {Unset, Fault}
    BY <1>1, <1>2, <1>5, <2>1, DeclaredTable
  <2>3. OwnPlaces(m, C, r) # {}
    BY <1>1, <1>3, <1>5, <2>2, OwnPlacesThere
  <2>4. OwnRead(m, C, r, t)
    BY <1>4, <2>3 DEF Reads, InverseRead
  <2> QED BY <2>4, AgreedTables DEF OwnRead, ReadsOwn
<1>6. ASSUME ~ HasJoin(m, C, r) PROVE ReadsInverse(m, C, r, t)
  <2>1. OwnPlaces(m, C, r) = {} /\ InversePlaces(m, C, r) # {}
    BY <1>3, <1>6, InversePlacesThere
  <2>2. InverseRead(m, C, r, t)
    BY <1>4, <2>1 DEF Reads, OwnRead
  <2>3. PICK s \in ManyToMany(m, r.target) :
          /\ s.target = C
          /\ JoinTableDefinition(m, r.target, s) \in Whole(m) \ {Fault}
          /\ t = IF ForeignConflict(m, JoinTableDefinition(m, r.target, s)) THEN Fault
                 ELSE Flipped(JoinTableDefinition(m, r.target, s))
    BY <2>2 DEF InverseRead
  <2>4. t = Flipped(JoinTableDefinition(m, r.target, s))
    BY <2>3, AgreedTables
  <2> QED BY <2>3, <2>4 DEF ReadsInverse
<1> QED BY <1>5, <1>6 DEF t

(* The table that sync creates has the columns and types of every           *)
(* declaration of it.                                                       *)
LEMMA MirroredColumns ==
  ASSUME NEW d, NEW f, Equivalent(f, d), d.joinColumn # d.inverseColumn
  PROVE  LET columns == ExpectedJoinTable(f).columns
         IN  /\ d.joinColumn \in DOMAIN columns /\ d.inverseColumn \in DOMAIN columns
             /\ columns[d.joinColumn] = d.joinColumnType
             /\ columns[d.inverseColumn] = d.inverseColumnType
<1> DEFINE columns == [c \in {f.joinColumn, f.inverseColumn} |->
                         IF c = f.inverseColumn THEN f.inverseColumnType ELSE f.joinColumnType]
<1>1. ExpectedJoinTable(f).columns = columns
  BY DEF ExpectedJoinTable
<1>2. CASE OwnerSide(f) = OwnerSide(d) /\ InverseSide(f) = InverseSide(d)
  <2>1. /\ f.joinColumn = d.joinColumn /\ f.joinColumnType = d.joinColumnType
        /\ f.inverseColumn = d.inverseColumn /\ f.inverseColumnType = d.inverseColumnType
    BY <1>2 DEF OwnerSide, InverseSide
  <2> QED BY <1>1, <2>1
<1>3. CASE OwnerSide(f) = InverseSide(d) /\ InverseSide(f) = OwnerSide(d)
  <2>1. /\ f.joinColumn = d.inverseColumn /\ f.joinColumnType = d.inverseColumnType
        /\ f.inverseColumn = d.joinColumn /\ f.inverseColumnType = d.joinColumnType
    BY <1>3 DEF OwnerSide, InverseSide
  <2> QED BY <1>1, <2>1
<1> QED BY <1>2, <1>3 DEF Equivalent

LEMMA SeenKept ==
  ASSUME NEW m, Declarable(m), Complete(m)
  PROVE  /\ GetManyToManyJoinTables(m, SeenEntities(m)) \subseteq Whole(m)
         /\ \A d \in Whole(m) : \E f \in GetManyToManyJoinTables(m, SeenEntities(m)) :
              f.tableName = d.tableName
<1> DEFINE L == SeenEntities(m)
<1>1. DOMAIN L \subseteq Nat /\ Items(L) = Registered(m)
  BY SeenSets
<1>2. Defined(m, Items(L)) = Whole(m)
  BY <1>1 DEF Whole
<1>3. \A D \in Items(L) : DOMAIN Relations(m, D) \subseteq Nat
  BY <1>1, RelationsOf DEF Registered, Declarable
<1> HIDE DEF L
<1>4. ASSUME NEW p \in Kept(m, L) PROVE DefinitionAt(m, L, p) \in Whole(m)
  BY <1>2, PlaceShape DEF Kept
<1>5. ASSUME NEW d \in Whole(m)
      PROVE  \E f \in GetManyToManyJoinTables(m, L) : f.tableName = d.tableName
  <2>1. PICK p \in Kept(m, L) : DefinitionAt(m, L, p).tableName = d.tableName
    BY <1>1, <1>2, <1>3, TableKept
  <2>2. DefinitionAt(m, L, p) \in GetManyToManyJoinTables(m, L)
    BY DEF GetManyToManyJoinTables
  <2> QED BY <2>1, <2>2
<1> QED BY <1>4, <1>5 DEF GetManyToManyJoinTables, L

(* s has the columns of d.                                                  *)
HasColumnsOf(s, d) ==
  /\ d.joinColumn \in DOMAIN s.columns /\ d.inverseColumn \in DOMAIN s.columns
  /\ s.columns[d.joinColumn] = d.joinColumnType
  /\ s.columns[d.inverseColumn] = d.inverseColumnType

LEMMA CreatedColumns ==
  ASSUME NEW m, Declarable(m), Complete(m), ~ SyncRefuses(m), OneTableEach(m), TwoColumns(m),
         NEW d \in Whole(m)
  PROVE  /\ \E s \in BuildExpectedSchemas(m) : s.tableName = d.tableName
         /\ \A s \in BuildExpectedSchemas(m) :
              s.tableName = d.tableName => HasColumnsOf(s, d)
<1>1. d # Fault
  BY AgreedTables DEF Settled
<1>0. PICK C \in Registered(m) : \E r \in ManyToMany(m, C) :
        d = JoinTableDefinition(m, C, r) /\ IsTable(m, C, r, d)
  BY <1>1, WholeShape
<1>2. PICK r \in ManyToMany(m, C) : d = JoinTableDefinition(m, C, r) /\ IsTable(m, C, r, d)
  BY <1>0
<1>3. d # Unset /\ d.joinColumn # d.inverseColumn
  BY <1>1, <1>2, WholeShape DEF TwoColumns
<1>4. \E s \in BuildExpectedSchemas(m) : s.tableName = d.tableName
  <2>1. PICK f \in GetManyToManyJoinTables(m, SeenEntities(m)) : f.tableName = d.tableName
    BY SeenKept
  <2>2. ExpectedJoinTable(f) \in BuildExpectedSchemas(m)
    BY DEF BuildExpectedSchemas
  <2>3. ExpectedJoinTable(f).tableName = d.tableName
    BY <2>1 DEF ExpectedJoinTable
  <2> QED BY <2>2, <2>3
<1>5. ASSUME NEW s \in BuildExpectedSchemas(m), s.tableName = d.tableName
      PROVE  HasColumnsOf(s, d)
  <2>1. ASSUME NEW D \in Built(m), s = ExpectedTable(m, D) PROVE FALSE
    <3>1. D \in Registered(m)
      BY DEF Built, Complete, Registered
    <3>2. m.of[D].table = m.of[C].joins[r.prop].tableName /\ r.prop \in DOMAIN m.of[C].joins
      BY <1>2, <1>5, <2>1 DEF ExpectedTable, IsTable, Declares
    <3> QED BY <3>1, <3>2 DEF OneTableEach
  <2>2. PICK f \in GetManyToManyJoinTables(m, SeenEntities(m)) : s = ExpectedJoinTable(f)
    BY <2>1 DEF BuildExpectedSchemas
  <2>3. f.tableName = d.tableName /\ f \in Whole(m)
    BY <1>5, <2>2, SeenKept DEF ExpectedJoinTable
  <2>4. Equivalent(f, d)
    BY <2>3, AgreedTables DEF Settled
  <2> QED BY <1>3, <2>2, <2>4, MirroredColumns DEF HasColumnsOf
<1> QED BY <1>4, <1>5

LEMMA ReadsWhatIsCreated ==
  ASSUME NEW m, Declarable(m), Complete(m), Accepted(m), ~ SyncRefuses(m),
         OneTableEach(m), TwoColumns(m), NEW C \in Registered(m), NEW r \in ManyToMany(m, C)
  PROVE  LET t == ResolveManyToManyJoinTable(m, C, r)
         IN  t \notin {Unset, Fault} /\ Fits(m, C, r, t)
<1> DEFINE t == ResolveManyToManyJoinTable(m, C, r)
<1>1. /\ C \in DOMAIN m.of /\ C \in Items(m.entities)
      /\ r \in Items(Relations(m, C)) /\ r.type = "many-to-many"
  BY DEF Registered, ManyToMany, Complete
<1>2. \A d \in Whole(m) : d # Fault
  BY AgreedTables DEF Settled
<1>3. CASE HasJoin(m, C, r)
  <2> DEFINE d == JoinTableDefinition(m, C, r)
  <2>1. IsEntity(m, C) /\ d # Fault
    BY <1>1, <1>3, AcceptedRelation
  <2>2. Declares(m, C, r)
    BY <1>1, <1>3, <2>1 DEF Declares, HasJoin
  <2>3. d # Unset
    BY <1>1, <2>2, DeclaredTable
  <2>4. Alone(m, C, r)
    BY <1>1, <2>1, <2>3, OneTableAlone
  <2>5. ReadsOwn(m, C, r, t)
    BY <1>3, <2>4, SettledReads
  <2>6. IsTable(m, C, r, d)
    BY <2>1, <2>3, TableShape
  <2> HIDE DEF t
  <2>7. d \in Whole(m) /\ t = AsDeclared(d)
    BY <2>5 DEF ReadsOwn
  <2> HIDE DEF d
  <2>8. t \notin {Unset, Fault}
    BY <1>2, <2>7, WholeShape
  <2>9. /\ t.tableName = d.tableName /\ t.ownerColumn = d.joinColumn
        /\ t.ownerColumnType = KeyType(m, C) /\ t.inverseColumn = d.inverseColumn
        /\ d.joinColumnType = KeyType(m, C) /\ d.inverseColumnType = KeyType(m, r.target)
    BY <2>6, <2>7 DEF AsDeclared, IsTable
  <2>10. Fits(m, C, r, t)
    BY <2>7, <2>9, CreatedColumns DEF Fits, HasColumnsOf
  <2> QED BY <2>8, <2>10 DEF t
<1>4. CASE ~ HasJoin(m, C, r)
  <2>1. ReadsInverse(m, C, r, t)
    BY <1>4, SettledReads
  <2> HIDE DEF t
  <2>2. PICK s \in ManyToMany(m, r.target) :
          /\ s.target = C
          /\ JoinTableDefinition(m, r.target, s) \in Whole(m)
          /\ t = Flipped(JoinTableDefinition(m, r.target, s))
    BY <2>1 DEF ReadsInverse
  <2> DEFINE d == JoinTableDefinition(m, r.target, s)
  <2>3. d \in Whole(m) /\ t = Flipped(d)
    BY <2>2
  <2>4. d # Unset /\ d # Fault
    BY <1>2, <2>3, WholeShape
  <2>5. IsTable(m, r.target, s, d)
    BY <2>4, TableShape
  <2> HIDE DEF d
  <2>6. t \notin {Unset, Fault}
    BY <2>3, <2>4, WholeShape
  <2>7. /\ t.tableName = d.tableName /\ t.ownerColumn = d.inverseColumn
        /\ t.ownerColumnType = KeyType(m, C) /\ t.inverseColumn = d.joinColumn
        /\ d.inverseColumnType = KeyType(m, C) /\ d.joinColumnType = KeyType(m, r.target)
    BY <2>2, <2>3, <2>5 DEF Flipped, IsTable
  <2>8. Fits(m, C, r, t)
    BY <2>3, <2>7, CreatedColumns DEF Fits, HasColumnsOf
  <2> QED BY <2>6, <2>8 DEF t
<1> QED BY <1>3, <1>4
---------------------------------------------------------------------------
(* Where at most one many-to-many relation of a class leads to the other.   *)
LEMMA SolePath ==
  ASSUME NEW m, WellFormed(m), NEW C \in DOMAIN m.of, NEW D, Cardinality(Paths(m, C, D)) <= 1,
         NEW r \in ManyToMany(m, C), NEW s \in ManyToMany(m, C), r.target = D, s.target = D
  PROVE  r = s
<1> DEFINE P == Paths(m, C, D)
<1>1. PICK i \in DOMAIN Relations(m, C) : r = Relations(m, C)[i]
  BY DEF ManyToMany, Items
<1>2. PICK j \in DOMAIN Relations(m, C) : s = Relations(m, C)[j]
  BY DEF ManyToMany, Items
<1>3. i \in P /\ j \in P
  BY <1>1, <1>2 DEF Paths, ManyToMany
<1>4. P \in SUBSET (1..Len(Relations(m, C))) /\ Len(Relations(m, C)) \in Nat
  BY RelationsOf DEF Paths
<1> HIDE DEF P
<1>5. IsFiniteSet(1..Len(Relations(m, C)))
  BY <1>4, FS_Interval
<1>6. IsFiniteSet(P)
  BY <1>4, <1>5, FS_Subset
<1>7. Cardinality(P) \in Nat /\ Cardinality(P) # 0
  BY <1>3, <1>6, FS_CardinalityType, FS_EmptySet
<1>8. Cardinality(P) = 1
  BY <1>7 DEF P
<1>9. \E x : P = {x}
  BY <1>6, <1>8, FS_Singleton
<1>10. i = j
  BY <1>3, <1>9
<1> QED BY <1>1, <1>2, <1>10

LEMMA SoleAlone ==
  ASSUME NEW m, Declarable(m), Settled(m), NEW C \in DOMAIN m.of, NEW r \in ManyToMany(m, C),
         JoinTableDefinition(m, C, r) \notin {Unset, Fault},
         Cardinality(Paths(m, C, r.target)) <= 1
  PROVE  Alone(m, C, r)
<1> DEFINE d == JoinTableDefinition(m, C, r)
<1>1. r \in Items(Relations(m, C)) /\ IsTable(m, C, r, d)
  BY TableShape DEF ManyToMany
<1>2. d \in Whole(m)
  BY <1>1, DeclaredTable DEF IsTable
<1> HIDE DEF d
<1>3. ASSUME NEW s \in ManyToMany(m, C), JoinTableDefinition(m, C, s) \notin {Unset, Fault},
             JoinTableDefinition(m, C, s).tableName = d.tableName
      PROVE  s = r
  <2> DEFINE e == JoinTableDefinition(m, C, s)
  <2>1. s \in Items(Relations(m, C)) /\ IsTable(m, C, s, e)
    BY <1>3, TableShape DEF ManyToMany
  <2>2. e \in Whole(m) /\ e.tableName = d.tableName
    BY <1>3, <2>1, DeclaredTable DEF IsTable
  <2> HIDE DEF e
  <2>3. Equivalent(e, d)
    BY <1>2, <2>2 DEF Settled
  <2>4. e.inverse = d.inverse
    BY <1>1, <2>1, <2>3 DEF Equivalent, OwnerSide, InverseSide, IsTable
  <2>5. s.target = r.target
    BY <1>1, <2>1, <2>4 DEF IsTable
  <2> QED BY <2>5, SolePath DEF Declarable
<1> QED BY <1>3 DEF Alone, d

(* The end that declares the table, and the other end.                      *)
LEMMA OwnEnd ==
  ASSUME NEW m, Declarable(m), Complete(m), Accepted(m), ~ SyncRefuses(m),
         NEW C \in Registered(m), NEW r \in ManyToMany(m, C), HasJoin(m, C, r),
         Cardinality(Paths(m, C, r.target)) <= 1
  PROVE  ReadsOwn(m, C, r, ResolveManyToManyJoinTable(m, C, r))
<1>1. /\ C \in DOMAIN m.of /\ C \in Items(m.entities)
      /\ r \in Items(Relations(m, C)) /\ r.type = "many-to-many"
  BY DEF Registered, ManyToMany, Complete
<1>2. IsEntity(m, C) /\ JoinTableDefinition(m, C, r) # Fault
  BY <1>1, AcceptedRelation
<1>3. Declares(m, C, r)
  BY <1>1, <1>2 DEF Declares, HasJoin
<1>4. JoinTableDefinition(m, C, r) # Unset
  BY <1>1, <1>3, DeclaredTable
<1>5. Settled(m)
  BY AgreedTables
<1>6. Alone(m, C, r)
  BY <1>1, <1>2, <1>4, <1>5, SoleAlone
<1> QED BY <1>6, SettledReads

LEMMA InverseEnd ==
  ASSUME NEW m, Declarable(m), Complete(m), Accepted(m), ~ SyncRefuses(m),
         NEW C \in Registered(m), NEW r \in ManyToMany(m, C), ~ HasJoin(m, C, r),
         NEW s \in ManyToMany(m, r.target), s.target = C,
         Cardinality(Paths(m, r.target, C)) <= 1
  PROVE  /\ JoinTableDefinition(m, r.target, s) \in Whole(m)
         /\ ResolveManyToManyJoinTable(m, C, r) = Flipped(JoinTableDefinition(m, r.target, s))
<1>1. PICK u \in ManyToMany(m, r.target) :
        /\ u.target = C
        /\ JoinTableDefinition(m, r.target, u) \in Whole(m)
        /\ ResolveManyToManyJoinTable(m, C, r) = Flipped(JoinTableDefinition(m, r.target, u))
  BY SettledReads DEF ReadsInverse
<1>2. r.target \in DOMAIN m.of /\ WellFormed(m)
  BY RelationsOf DEF Declarable, ManyToMany, Registered
<1>3. u = s
  BY <1>1, <1>2, SolePath
<1> QED BY <1>1, <1>3

LEMMA DumpNamesTheTable ==
  ASSUME NEW m, Declarable(m), Complete(m), ~ SyncRefuses(m),
         NEW C \in Registered(m), NEW r \in ManyToMany(m, C), ~ HasJoin(m, C, r),
         NEW s \in ManyToMany(m, r.target), s.target = C,
         JoinTableDefinition(m, r.target, s) \in Whole(m),
         Cardinality(Paths(m, C, r.target)) <= 1, Cardinality(Paths(m, r.target, C)) <= 1
  PROVE  DumpedJoinTable(m, C, r) = JoinTableDefinition(m, r.target, s).tableName
<1> DEFINE e == JoinTableDefinition(m, r.target, s)
           B == {d \in GetManyToManyJoinTables(m, SeenEntities(m)) :
                   d.owner = r.target /\ d.inverse = C}
           N == {d \in B : d.property = FindInverseProperty(m, C, r)}
           left == IF N # {} THEN N ELSE B
<1>1. C \in DOMAIN m.of /\ r.target \in DOMAIN m.of /\ WellFormed(m) /\ Settled(m)
  BY RelationsOf, AgreedTables DEF Declarable, ManyToMany, Registered
<1>2. e \in Whole(m) /\ e # Fault /\ e # Unset
  BY <1>1, WholeShape DEF Settled
<1>3. IsTable(m, r.target, s, e)
  BY <1>2, TableShape
<1>4. ASSUME NEW x \in Whole(m)
      PROVE  \E E \in Registered(m) : \E q \in ManyToMany(m, E) :
               x = JoinTableDefinition(m, E, q) /\ IsTable(m, E, q, x)
  BY <1>1, WholeShape DEF Settled
<1>5. ASSUME NEW x \in B PROVE x = e
  <2>1. x \in Whole(m) /\ x.owner = r.target /\ x.inverse = C
    BY SeenKept
  <2>2. PICK E \in Registered(m) : \E q \in ManyToMany(m, E) :
               x = JoinTableDefinition(m, E, q) /\ IsTable(m, E, q, x)
    BY <1>4, <2>1
  <2>3. PICK q \in ManyToMany(m, E) : x = JoinTableDefinition(m, E, q) /\ IsTable(m, E, q, x)
    BY <2>2
  <2>4. E = r.target /\ q.target = C
    BY <2>1, <2>3 DEF IsTable
  <2>5. q = s
    BY <1>1, <2>3, <2>4, SolePath
  <2> QED BY <2>3, <2>4, <2>5
<1> HIDE DEF e
<1>6. B # {}
  <2>1. PICK f \in GetManyToManyJoinTables(m, SeenEntities(m)) : f.tableName = e.tableName
    BY <1>2, SeenKept
  <2>2. f \in Whole(m) /\ Equivalent(f, e)
    BY <1>1, <1>2, <2>1, SeenKept DEF Settled
  <2>3. CASE OwnerSide(f) = OwnerSide(e) /\ InverseSide(f) = InverseSide(e)
    <3>1. f.owner = r.target /\ f.inverse = C
      BY <1>3, <2>3 DEF OwnerSide, InverseSide, IsTable
    <3> QED BY <2>1, <3>1
  <2>4. CASE OwnerSide(f) = InverseSide(e) /\ InverseSide(f) = OwnerSide(e)
    <3>1. f.owner = C /\ f.inverse = r.target
      BY <1>3, <2>4 DEF OwnerSide, InverseSide, IsTable
    <3>2. PICK E \in Registered(m) : \E q \in ManyToMany(m, E) :
                 f = JoinTableDefinition(m, E, q) /\ IsTable(m, E, q, f)
      BY <1>4, <2>2
    <3>3. PICK q \in ManyToMany(m, E) : f = JoinTableDefinition(m, E, q) /\ IsTable(m, E, q, f)
      BY <3>2
    <3>4. E = C /\ q.target = r.target /\ HasJoin(m, C, q)
      BY <3>1, <3>3 DEF IsTable, Declares, HasJoin
    <3>5. q = r
      BY <1>1, <3>3, <3>4, SolePath
    <3> QED BY <3>4, <3>5
  <2> QED BY <2>2, <2>3, <2>4 DEF Equivalent
<1>7. left = {e}
  <2>1. N \subseteq B
    OBVIOUS
  <2> HIDE DEF B, N
  <2> QED BY <1>5, <1>6, <2>1
<1>8. DumpedJoinTable(m, C, r) = IF Cardinality(left) = 1 THEN (CHOOSE d \in left : TRUE).tableName
                                 ELSE Unset
  BY DEF DumpedJoinTable, HasJoin
<1> HIDE DEF left
<1>9. Cardinality(left) = 1 /\ (CHOOSE d \in left : TRUE) = e
  BY <1>7, FS_Singleton
<1> QED BY <1>8, <1>9 DEF e

LEMMA TwoEnds ==
  ASSUME NEW m, Declarable(m), Complete(m), Accepted(m), ~ SyncRefuses(m),
         NEW C \in Registered(m), NEW r \in ManyToMany(m, C),
         Cardinality(Paths(m, C, r.target)) = 1, Cardinality(Paths(m, r.target, C)) <= 1
  PROVE  LET t == ResolveManyToManyJoinTable(m, C, r)
         IN  /\ DumpedJoinTable(m, C, r) = t.tableName
             /\ \A j \in Paths(m, r.target, C) :
                  LET back == ResolveManyToManyJoinTable(m, r.target, Relations(m, r.target)[j])
                  IN  /\ back.tableName = t.tableName
                      /\ back.ownerColumn = t.inverseColumn
                      /\ back.inverseColumn = t.ownerColumn
<1> DEFINE D == r.target
           t == ResolveManyToManyJoinTable(m, C, r)
<1>0. Cardinality(Paths(m, C, D)) <= 1
  OBVIOUS
<1>1. /\ C \in DOMAIN m.of /\ C \in Items(m.entities)
      /\ r \in Items(Relations(m, C)) /\ r.type = "many-to-many"
  BY DEF Registered, ManyToMany, Complete
<1>2. D \in DOMAIN m.of /\ WellFormed(m) /\ D \in Registered(m)
  BY <1>1, RelationsOf, AcceptedRelation DEF Declarable, Registered
<1>3. ASSUME NEW j \in Paths(m, D, C)
      PROVE  Relations(m, D)[j] \in ManyToMany(m, D) /\ Relations(m, D)[j].target = C
  BY DEF Paths, ManyToMany, Items
<1>4. CASE HasJoin(m, C, r)
  <2> DEFINE d == JoinTableDefinition(m, C, r)
  <2>1. t = AsDeclared(d)
    BY <1>0, <1>4, OwnEnd DEF ReadsOwn
  <2>2. DumpedJoinTable(m, C, r) = d.tableName
    BY <1>4 DEF DumpedJoinTable, HasJoin
  <2>3. ASSUME NEW j \in Paths(m, D, C)
        PROVE  ResolveManyToManyJoinTable(m, D, Relations(m, D)[j]) = Flipped(d)
    <3> DEFINE u == Relations(m, D)[j]
    <3>1. u \in ManyToMany(m, D) /\ u.target = C
      BY <1>3
    <3>2. Back(m, C, r) # {}
      BY DEF Back, Paths
    <3>3. InverseRelation(m, C, r) \in ManyToMany(m, D) /\ InverseRelation(m, C, r).target = C
      BY <1>2, <3>2, InverseLeadsBack
    <3> HIDE DEF u
    <3>4. InverseRelation(m, C, r) = u
      BY <1>2, <3>1, <3>3, SolePath
    <3>5. ~ HasJoin(m, D, u)
      BY <1>1, <1>4, <3>2, <3>4, AcceptedRelation DEF InverseHasJoin
    <3>6. ResolveManyToManyJoinTable(m, D, u) = Flipped(JoinTableDefinition(m, u.target, r))
      BY <1>0, <1>2, <3>1, <3>5, InverseEnd
    <3> QED BY <3>1, <3>6 DEF u
  <2> QED BY <2>1, <2>2, <2>3 DEF AsDeclared, Flipped
<1>5. CASE ~ HasJoin(m, C, r)
  <2>1. PICK u \in ManyToMany(m, D) :
          /\ u.target = C
          /\ JoinTableDefinition(m, D, u) \in Whole(m)
          /\ t = Flipped(JoinTableDefinition(m, D, u))
    BY <1>5, SettledReads DEF ReadsInverse
  <2> DEFINE e == JoinTableDefinition(m, D, u)
  <2>2. e # Unset
    BY <2>1, WholeShape, DefinedShape DEF Whole
  <2>3. HasJoin(m, D, u)
    BY <2>2 DEF JoinTableDefinition, Declares, HasJoin
  <2>4. ResolveManyToManyJoinTable(m, D, u) = AsDeclared(e)
    BY <1>2, <2>1, <2>3, OwnEnd DEF ReadsOwn
  <2>5. DumpedJoinTable(m, C, r) = e.tableName
    BY <1>0, <1>5, <2>1, DumpNamesTheTable
  <2>6. ASSUME NEW j \in Paths(m, D, C) PROVE Relations(m, D)[j] = u
    BY <1>2, <1>3, <2>1, SolePath
  <2> QED BY <2>1, <2>4, <2>5, <2>6 DEF AsDeclared, Flipped
<1> QED BY <1>4, <1>5

(* The inverse of a relation by a column.                                   *)
LEMMA InversePaired ==
  ASSUME NEW m, Declarable(m), NEW C \in Registered(m), NEW r \in Items(Relations(m, C)),
         r.type # "many-to-many", FindInverseProperty(m, C, r) # Unset,
         NEW s \in Items(Relations(m, r.target)), s.prop = FindInverseProperty(m, C, r),
         ~ (r.type = "one-to-many" /\ s.type = "one-to-one")
  PROVE  FindInverseProperty(m, r.target, s) \in {r.prop, Unset}
<1> DEFINE column(x) == ResolveRelationJoinColumn(x.joinColumn)
           same(x, y) == column(x) # Fault /\ column(x) = column(y)
           pairs(x, y) ==
             \/ y.type = "one-to-many" /\ x.type \in {"many-to-one", "one-to-one"} /\ same(x, y)
             \/ y.type = "many-to-one" /\ x.type = "one-to-many" /\ same(x, y)
             \/ y.type = "one-to-one"  /\ x.type = "one-to-one"
           Leading(D, E, y) == {j \in DOMAIN Relations(m, E) :
                                  Relations(m, E)[j].target = D /\ pairs(Relations(m, E)[j], y)}
<1>1. ASSUME NEW D, NEW y, y.type # "many-to-many"
      PROVE  FindInverseProperty(m, D, y) =
               IF column(y) # Fault /\ Cardinality(Leading(D, y.target, y)) = 1
                 THEN Relations(m, y.target)[CHOOSE j \in Leading(D, y.target, y) : TRUE].prop
                 ELSE Unset
  BY <1>1 DEF FindInverseProperty
<1>2. C \in DOMAIN m.of /\ r.target \in DOMAIN m.of /\ WellFormed(m)
  BY RelationsOf DEF Declarable, Registered
<1>3. ASSUME NEW D, NEW E \in DOMAIN m.of, NEW y, Cardinality(Leading(D, E, y)) = 1
      PROVE  \E j \in DOMAIN Relations(m, E) : Leading(D, E, y) = {j}
  <2>1. Leading(D, E, y) \in SUBSET (1..Len(Relations(m, E))) /\ Len(Relations(m, E)) \in Nat
        /\ Leading(D, E, y) \subseteq DOMAIN Relations(m, E)
    BY <1>2, RelationsOf
  <2> HIDE DEF Leading
  <2>2. IsFiniteSet(Leading(D, E, y))
    BY <2>1, FS_Interval, FS_Subset
  <2>3. \E j : Leading(D, E, y) = {j}
    BY <1>3, <2>2, FS_Singleton
  <2> QED BY <2>1, <2>3
<1> HIDE DEF column
<1>4. column(r) # Fault /\ Cardinality(Leading(C, r.target, r)) = 1
      /\ s.prop = Relations(m, r.target)[CHOOSE j \in Leading(C, r.target, r) : TRUE].prop
  BY <1>1
<1>5. PICK j \in DOMAIN Relations(m, r.target) : Leading(C, r.target, r) = {j}
  <2> HIDE DEF Leading
  <2> QED BY <1>2, <1>3, <1>4
<1>6. j \in Leading(C, r.target, r) /\ s.prop = Relations(m, r.target)[j].prop
  <2> HIDE DEF Leading
  <2> QED BY <1>4, <1>5
<1>7. Relations(m, r.target)[j] = s
  BY <1>2, <1>6, RelationsOf DEF Items
<1>8. s.target = C /\ pairs(s, r)
  BY <1>6, <1>7
<1>9. s.type # "many-to-many" /\ pairs(r, s)
  BY <1>8
<1>10. PICK i \in DOMAIN Relations(m, C) : r = Relations(m, C)[i]
  BY DEF Items
<1>11. i \in Leading(r.target, C, s)
  BY <1>9, <1>10
<1> HIDE DEF Leading, pairs
<1>12. CASE Cardinality(Leading(r.target, C, s)) = 1
  <2>1. Leading(r.target, C, s) = {i}
    BY <1>2, <1>3, <1>11, <1>12
  <2>2. (CHOOSE k \in Leading(r.target, C, s) : TRUE) = i
    BY <2>1
  <2> QED BY <1>1, <1>8, <1>9, <1>10, <2>2
<1>13. CASE Cardinality(Leading(r.target, C, s)) # 1
  BY <1>1, <1>8, <1>9, <1>13
<1> QED BY <1>12, <1>13
---------------------------------------------------------------------------
(* The model does not change.                                               *)
THEOREM DeclaredModel == Spec => []Declarable(model)
<1>1. Init => Declarable(model)
  BY StartsAssumption DEF Init, Declarable
<1>2. Declarable(model) /\ [Next]_vars => Declarable(model)'
  <2> SUFFICES ASSUME Declarable(model), [Next]_vars PROVE Declarable(model)'
    OBVIOUS
  <2>1. model' = model
    <3>1. CASE UNCHANGED vars
      BY <3>1 DEF vars
    <3>2. CASE Request
      <4>1. \A C, K, mode : Find(C, K, mode) => model' = model
        BY Zenon DEF Find
      <4>2. \A C, K, names, whole, mode :
              LoadRelations(C, K, names, whole, mode) => model' = model
        BY Zenon DEF LoadRelations
      <4> QED BY <3>2, <4>1, <4>2, Zenon DEF Request
    <3>3. CASE Step
      BY <3>3, Zenon DEF Step, NextPath, NoOwners, OpenRelation, ReadLinks, FetchChunk, Unwind
    <3>4. CASE QueryFails \/ Change \/ RemoveRow \/ Unlink \/ Link
      BY <3>4 DEF QueryFails, Change, RemoveRow, Unlink, Link, MayWrite
    <3> QED BY <3>1, <3>2, <3>3, <3>4 DEF Next
  <2> QED BY <2>1
<1> QED BY <1>1, <1>2, PTL DEF Spec

(* Two declarations of one join table that differ, on whatever classes, are *)
(* refused by sync and by every read of that table alike, for any number of *)
(* classes and relations.                                                   *)
THEOREM ConflictsSeen == Spec => []ConflictSeenByAll
<1>1. Declarable(model) => ConflictSeenByAll
  BY DifferenceSeen DEF ConflictSeenByAll
<1> QED BY <1>1, DeclaredModel, PTL

(* Any model that validation accepts resolves all it declares, is refused   *)
(* by the dump only for an inverseSide that is no property access, and once *)
(* sync has built it its many-to-many relations read the columns and types  *)
(* of the tables that sync created.                                         *)
THEOREM AcceptedReadable == Spec => []AcceptedIsReadable
<1>1. Declarable(model) => AcceptedIsReadable
  BY AcceptedNotMalformed, UnprintedAccepted, ReadsWhatIsCreated DEF AcceptedIsReadable
<1> QED BY <1>1, DeclaredModel, PTL

(* In any accepted model the two sides of a many-to-many relation read one  *)
(* table from its two ends, the table that metadata:dump names; and the     *)
(* inverses it prints of relations by a column come in pairs.               *)
THEOREM SidesAgreed == Spec => []SidesAgree
<1>1. Declarable(model) => TablesAgree
  BY TwoEnds DEF TablesAgree, DumpRefuses
<1>2. Declarable(model) => InversesPair
  BY InversePaired DEF InversesPair
<1> QED BY <1>1, <1>2, DeclaredModel, PTL DEF SidesAgree
---------------------------------------------------------------------------
(* The graph of a find(). In an accepted model every many-to-many relation  *)
(* of a class has a table to read, or one that cannot be read.              *)
LEMMA ReadTable ==
  ASSUME NEW m, Declarable(m), Complete(m), Accepted(m), OneTableEach(m),
         NEW C \in Registered(m), NEW r \in ManyToMany(m, C)
  PROVE  ResolveManyToManyJoinTable(m, C, r) # Unset
<1> DEFINE t == ResolveManyToManyJoinTable(m, C, r)
           d == JoinTableDefinition(m, C, r)
<1>1. /\ C \in DOMAIN m.of /\ C \in Items(m.entities)
      /\ r \in Items(Relations(m, C)) /\ r.type = "many-to-many"
  BY DEF Registered, ManyToMany, Complete
<1>2. /\ IsEntity(m, C) /\ IsEntity(m, r.target)
      /\ HasJoin(m, C, r) => d # Fault
  BY <1>1, AcceptedRelation
<1>3. ~ Unresolvable(m, Pair(C, r))
  BY <1>1, PairSets, AcceptedResolves
<1>4. CASE Conflicting(m, Pair(C, r))
  BY <1>2, <1>4, ValuesAssumption DEF ResolveManyToManyJoinTable, Pair
<1>5. CASE ~ Conflicting(m, Pair(C, r))
  <2>1. Reads(m, C, r, t)
    BY <1>1, <1>2, <1>3, <1>5, ReadShape
  <2>2. OwnPlaces(m, C, r) # {} \/ InversePlaces(m, C, r) # {}
    <3>1. CASE HasJoin(m, C, r)
      <4>1. d \notin {Unset, Fault}
        <5>1. Declares(m, C, r)
          BY <1>1, <1>2, <3>1 DEF Declares, HasJoin
        <5> QED BY <1>1, <1>2, <3>1, <5>1, DeclaredTable
      <4> HIDE DEF d
      <4>2. Alone(m, C, r)
        BY <1>1, <4>1, OneTableAlone DEF d
      <4> QED BY <1>1, <1>3, <4>1, <4>2, OwnPlacesThere DEF d
    <3>2. CASE ~ HasJoin(m, C, r)
      BY <1>5, <3>2, InversePlacesThere
    <3> QED BY <3>1, <3>2
  <2> HIDE DEF t
  <2>3. CASE OwnRead(m, C, r, t)
    <3> DEFINE e == JoinTableDefinition(m, C, r)
    <3>1. e \in Whole(m) /\ e # Fault /\ t \in {Fault, AsDeclared(e)}
      BY <2>3 DEF OwnRead
    <3> HIDE DEF e
    <3>2. {AsDeclared(e), Flipped(e)} \cap {Unset, Fault} = {}
      BY <3>1, WholeShape
    <3> QED BY <3>1, <3>2, ValuesAssumption DEF t
  <2>4. CASE InverseRead(m, C, r, t)
    <3>1. PICK e \in Whole(m) : e # Fault /\ t \in {Fault, Flipped(e)}
      BY <2>4 DEF InverseRead
    <3>2. {AsDeclared(e), Flipped(e)} \cap {Unset, Fault} = {}
      BY <3>1, WholeShape
    <3> QED BY <3>1, <3>2, ValuesAssumption DEF t
  <2> QED BY <2>1, <2>2, <2>3, <2>4 DEF Reads, t
<1> QED BY <1>4, <1>5

(* Its relations lead to classes of the configuration.                      *)
LEMMA TargetRegistered ==
  ASSUME NEW m, WellFormed(m), Complete(m), Accepted(m),
         NEW C \in Registered(m), NEW r \in Items(Relations(m, C))
  PROVE  r.target \in Registered(m) /\ r.target \in DOMAIN m.of
<1>1. C \in DOMAIN m.of /\ C \in Items(m.entities)
  BY DEF Registered, Complete
<1>2. IsEntity(m, r.target)
  BY <1>1, AcceptedRelation
<1>3. r.target \in DOMAIN m.of
  BY <1>1, RelationsOf
<1> QED BY <1>2, <1>3 DEF Registered, IsEntity

(* What is nothing is no set of instances.                                  *)
SetsApart == {Unset, Null} \cap SUBSET Nat = {}

(* The rows that a relation of row k leads to, in the database and the      *)
(* model of world w.                                                        *)
World == [model |-> model, rows |-> rows, links |-> links]

CellOf(w, C, k, c) == IF c = w.model.of[C].pks[1] THEN k ELSE w.rows[C][k][c]

LinksOf(w, t, K) ==
  {[owner |-> l[t.ownerColumn], inverse |-> l[t.inverseColumn]] :
     l \in {l \in w.links[t.tableName] : l[t.ownerColumn] \in K}}

Inverses(A) == {l.inverse : l \in A}

TableOf(w, C, r) == ResolveManyToManyJoinTable(w.model, C, r)

RowsRelated(w, C, k, r) ==
  CASE r.type = "one-to-many" ->
         {j \in DOMAIN w.rows[r.target] : CellOf(w, r.target, j, r.joinColumn) = k}
    [] r.type = "many-to-many" ->
         Inverses(LinksOf(w, TableOf(w, C, r), {k})) \cap DOMAIN w.rows[r.target]
    [] OTHER -> {CellOf(w, C, k, r.joinColumn)} \cap DOMAIN w.rows[r.target]

LEMMA RelatedRows ==
  ASSUME NEW C, NEW k, NEW r
  PROVE  Related(C, k, r) = RowsRelated(World, C, k, r)
<1> DEFINE w == World
<1>1. w.model = model /\ w.rows = rows /\ w.links = links
  BY DEF World
<1> HIDE DEF w
<1>2. \A D, j, c : Cell(D, j, c) = CellOf(w, D, j, c)
  BY <1>1 DEF Cell, CellOf, PrimaryKey
<1>3. CASE r.type = "one-to-many"
  BY <1>1, <1>2, <1>3 DEF Related, RowsRelated, w
<1>4. CASE r.type = "many-to-many"
  <2> DEFINE t == ResolveManyToManyJoinTable(model, C, r)
             A == {l[t.inverseColumn] : l \in {l \in links[t.tableName] : l[t.ownerColumn] = k}}
  <2>1. Related(C, k, r) = A \cap DOMAIN rows[r.target]
    BY <1>4 DEF Related
  <2>2. t = TableOf(w, C, r)
    BY <1>1 DEF TableOf
  <2> HIDE DEF t
  <2>3. A = Inverses(LinksOf(w, t, {k}))
    <3>1. \A l \in LinksOf(w, t, {k}) : \E e \in links[t.tableName] :
            e[t.ownerColumn] = k /\ l.inverse = e[t.inverseColumn]
      BY <1>1 DEF LinksOf
    <3>2. ASSUME NEW e \in links[t.tableName], e[t.ownerColumn] = k
          PROVE  e[t.inverseColumn] \in Inverses(LinksOf(w, t, {k}))
      <4>1. [owner |-> e[t.ownerColumn], inverse |-> e[t.inverseColumn]] \in LinksOf(w, t, {k})
        BY <1>1, <3>2 DEF LinksOf
      <4> QED BY <4>1 DEF Inverses
    <3>3. Inverses(LinksOf(w, t, {k})) \subseteq A
      BY <3>1 DEF Inverses
    <3> QED BY <3>2, <3>3
  <2> HIDE DEF A
  <2>4. RowsRelated(w, C, k, r) = A \cap DOMAIN rows[r.target]
    BY <1>1, <1>4, <2>2, <2>3 DEF RowsRelated
  <2> QED BY <2>1, <2>4 DEF w
<1>5. CASE r.type \notin {"one-to-many", "many-to-many"}
  BY <1>1, <1>2, <1>5 DEF Related, RowsRelated, w
<1> QED BY <1>3, <1>4, <1>5

(* Instances of different keys are as many as their keys.                   *)
Keys(h, I) == {h[x].key : x \in I}

LEMMA KeysCount ==
  ASSUME NEW h, NEW I, IsFiniteSet(Keys(h, I)), \A x, y \in I : h[x].key = h[y].key => x = y
  PROVE  Cardinality(I) = Cardinality(Keys(h, I))
<1> DEFINE f == [x \in I |-> h[x].key]
           T == Keys(h, I)
<1>1. f \in [I -> T]
  BY DEF Keys
<1>2. \A x, y \in I : f[x] = f[y] => x = y
  OBVIOUS
<1>3. \A k \in T : \E x \in I : f[x] = k
  BY DEF Keys
<1> HIDE DEF f, T
<1>4. f \in Injection(I, T) /\ f \in Surjection(I, T)
  BY <1>1, <1>2, <1>3 DEF Injection, Surjection, IsInjective
<1>5. IsFiniteSet(T)
  BY DEF T
<1>6. Cardinality(I) = Cardinality(T)
  BY <1>4, <1>5, FS_Injection
<1> QED BY <1>6 DEF T

(* Relation p of instance i: what it holds is what its row is related to;   *)
(* and if it has not been loaded there is nothing.                          *)
RelatedOf(w, h, i, p) ==
  RowsRelated(w, h[i].cls, h[i].key, Relation(w.model, h[i].cls, p))

Matches(w, h, i, p) ==
  LET I == Targets(w.model, h, i, p)
  IN  Keys(h, I) = RelatedOf(w, h, i, p) /\ Cardinality(I) = Cardinality(RelatedOf(w, h, i, p))

Answers(w, h, i, p) ==
  /\ p \in DOMAIN h[i].rel
  /\ h[i].rel[p] = Unset => ~ Many(w.model, h[i].cls, p) /\ RelatedOf(w, h, i, p) = {}

(* An instance is a row, with all its columns, and holds what is related.   *)
Stored(w, h, i) ==
  /\ h[i].cls \in Registered(w.model)
  /\ h[i].key \in DOMAIN w.rows[h[i].cls]
  /\ h[i].cols = w.rows[h[i].cls][h[i].key]
  /\ \A p \in DOMAIN h[i].rel : h[i].rel[p] = Unset \/ Matches(w, h, i, p)

StoredOK(w, h) == \A i \in DOMAIN h : Stored(w, h, i)

(* No step takes an instance away or makes it another.                      *)
Remains(h, g) ==
  /\ DOMAIN h \subseteq DOMAIN g
  /\ \A i \in DOMAIN h :
       /\ g[i].cls = h[i].cls /\ g[i].key = h[i].key /\ g[i].cols = h[i].cols
       /\ DOMAIN g[i].rel = DOMAIN h[i].rel

LEMMA SameAnswers ==
  ASSUME NEW w, NEW h, NEW g, HeapOK(w.model, h), Remains(h, g), NEW i \in DOMAIN h,
         NEW p \in DOMAIN h[i].rel, g[i].rel[p] = h[i].rel[p]
  PROVE  /\ Targets(w.model, g, i, p) = Targets(w.model, h, i, p)
         /\ Matches(w, h, i, p) => Matches(w, g, i, p)
         /\ Answers(w, h, i, p) => Answers(w, g, i, p)
<1> DEFINE I == Targets(w.model, h, i, p)
<1>1. g[i].cls = h[i].cls /\ g[i].key = h[i].key /\ DOMAIN g[i].rel = DOMAIN h[i].rel
  BY DEF Remains
<1>2. Targets(w.model, g, i, p) = I
  BY <1>1, SameTargets
<1>3. RelatedOf(w, g, i, p) = RelatedOf(w, h, i, p)
  BY <1>1 DEF RelatedOf
<1>4. I \subseteq DOMAIN h
  BY DEF HeapOK, Held
<1> HIDE DEF I
<1>5. Keys(g, I) = Keys(h, I)
  BY <1>4 DEF Keys, Remains
<1>6. Matches(w, h, i, p) => Matches(w, g, i, p)
  BY <1>2, <1>3, <1>5 DEF Matches, I
<1>7. Answers(w, h, i, p) => Answers(w, g, i, p)
  BY <1>1, <1>3 DEF Answers
<1> QED BY <1>2, <1>6, <1>7 DEF I

LEMMA StoredKeeps ==
  ASSUME NEW w, NEW h, NEW g, HeapOK(w.model, h), Remains(h, g), StoredOK(w, h),
         \A i \in DOMAIN h : \A p \in DOMAIN h[i].rel :
           g[i].rel[p] = h[i].rel[p] \/ Matches(w, g, i, p),
         \A i \in DOMAIN g \ DOMAIN h : Stored(w, g, i)
  PROVE  StoredOK(w, g)
<1> SUFFICES ASSUME NEW i \in DOMAIN h PROVE Stored(w, g, i)
  BY DEF StoredOK
<1>1. /\ g[i].cls = h[i].cls /\ g[i].key = h[i].key /\ g[i].cols = h[i].cols
      /\ DOMAIN g[i].rel = DOMAIN h[i].rel
  BY DEF Remains
<1>2. Stored(w, h, i)
  BY DEF StoredOK
<1>3. ASSUME NEW p \in DOMAIN h[i].rel PROVE g[i].rel[p] = Unset \/ Matches(w, g, i, p)
  <2>1. CASE g[i].rel[p] = h[i].rel[p]
    <3>1. h[i].rel[p] = Unset \/ Matches(w, h, i, p)
      BY <1>2 DEF Stored
    <3> QED BY <2>1, <3>1, SameAnswers
  <2> QED BY <2>1
<1> QED BY <1>1, <1>2, <1>3 DEF Stored

(* Everything that relation p of the instances I leads to is in J.          *)
Leads(w, h, p, I, J) ==
  \A i \in I : Answers(w, h, i, p) /\ Targets(w.model, h, i, p) \subseteq J

(* The levels L of a loaded path: all instances below the first have been   *)
(* hooked, or are among those that wait for it.                             *)
IsTrail(w, h, I, path, waiting, L) ==
  /\ L \in [0..Len(path) -> SUBSET DOMAIN h]
  /\ L[0] = I
  /\ \A n \in 1..Len(path) :
       /\ Leads(w, h, path[n], L[n - 1], L[n])
       /\ \A i \in L[n] : h[i].hooked = 1 \/ i \in waiting

Trail(w, h, I, path, waiting) == \E L : IsTrail(w, h, I, path, waiting, L)

(* Once loaded a path stays, while what has been hooked is left alone and   *)
(* its first relation is not loaded again.                                  *)
LEMMA TrailKeeps ==
  ASSUME NEW w, NEW h, NEW g, HeapOK(w.model, h), Remains(h, g),
         NEW I, NEW path, NEW waiting, NEW later, Len(path) \in Nat,
         Trail(w, h, I, path, waiting),
         \A i \in DOMAIN h : h[i].hooked = 1 \/ i \in waiting =>
           g[i].rel = h[i].rel /\ (g[i].hooked = 1 \/ i \in later),
         \A i \in I : path[1] \in DOMAIN h[i].rel => g[i].rel[path[1]] = h[i].rel[path[1]]
  PROVE  Trail(w, g, I, path, later)
<1>1. PICK L : IsTrail(w, h, I, path, waiting, L)
  BY DEF Trail
<1>2. /\ L \in [0..Len(path) -> SUBSET DOMAIN h] /\ L[0] = I
      /\ \A n \in 1..Len(path) :
           /\ Leads(w, h, path[n], L[n - 1], L[n])
           /\ \A i \in L[n] : h[i].hooked = 1 \/ i \in waiting
  BY <1>1 DEF IsTrail
<1>3. DOMAIN h \subseteq DOMAIN g
  BY DEF Remains
<1>4. L \in [0..Len(path) -> SUBSET DOMAIN g]
  BY <1>2, <1>3
<1>5. ASSUME NEW n \in 1..Len(path)
      PROVE  /\ Leads(w, g, path[n], L[n - 1], L[n])
             /\ \A i \in L[n] : g[i].hooked = 1 \/ i \in later
  <2>1. n - 1 \in 0..Len(path) /\ n \in 0..Len(path)
    OBVIOUS
  <2>2. L[n - 1] \subseteq DOMAIN h /\ L[n] \subseteq DOMAIN h
    BY <1>2, <2>1
  <2>3. \A i \in L[n] : g[i].hooked = 1 \/ i \in later
    BY <1>2, <2>2
  <2>4. ASSUME NEW i \in L[n - 1]
        PROVE  Answers(w, g, i, path[n]) /\ Targets(w.model, g, i, path[n]) \subseteq L[n]
    <3>1. Answers(w, h, i, path[n]) /\ Targets(w.model, h, i, path[n]) \subseteq L[n]
      BY <1>2 DEF Leads
    <3>2. i \in DOMAIN h /\ path[n] \in DOMAIN h[i].rel
      BY <2>2, <3>1 DEF Answers
    <3>3. g[i].rel[path[n]] = h[i].rel[path[n]]
      <4>1. CASE n = 1
        BY <1>2, <3>2, <4>1
      <4>2. CASE n # 1
        <5>1. n - 1 \in 1..Len(path)
          BY <4>2
        <5>2. h[i].hooked = 1 \/ i \in waiting
          BY <1>2, <5>1
        <5> QED BY <3>2, <5>2
      <4> QED BY <4>1, <4>2
    <3> QED BY <3>1, <3>2, <3>3, SameAnswers
  <2> QED BY <2>3, <2>4 DEF Leads
<1>6. IsTrail(w, g, I, path, later, L)
  BY <1>2, <1>4, <1>5 DEF IsTrail
<1> QED BY <1>6 DEF Trail

(* Where a call is on the paths E of its roots: at path c, whose levels     *)
(* above the relation being loaded are complete; of those before it all are *)
(* but the ones whose first relation was loaded again since.                *)
EagerPaths == Seq(Seq(STRING) \ {<<>>})

Replaced(E, j, c) == \E k \in (j + 1)..c : Head(E[k]) = Head(E[j])

Finished(w, h, I, E, n, c) == \A j \in 1..n : ~ Replaced(E, j, c) => Trail(w, h, I, E[j], {})

Begun(E, c, o) ==
  /\ c \in 0..Len(E)
  /\ Len(o.todo) = Len(E) - c
  /\ \A n \in 1..Len(o.todo) : o.todo[n] = E[c + n]

Onward(o, path) ==
  /\ Len(path) = Len(o.above) + Len(o.segs)
  /\ \A n \in 1..Len(o.segs) : o.segs[n] = path[Len(o.above) + n]

Climbed(w, o, h, path) ==
  \A n \in 1..Len(o.above) : Leads(w, h, path[n], Level(o, n - 1), Level(o, n))

Waiting(o) == UNION {o.above[n] : n \in 1..Len(o.above)}

Fetching(o) == o.phase \in {"open", "links", "fetch"}

OnPath(w, E, c, o, h) ==
  /\ Begun(E, c, o)
  /\ o.phase \in {"path", "ended"} => Finished(w, h, o.roots, E, c, c)
  /\ o.phase = "ended" => o.todo = <<>>
  /\ o.phase \notin {"path", "ended"} => c > 0 /\ Finished(w, h, o.roots, E, c - 1, c)
  /\ Fetching(o) => Onward(o, E[c]) /\ Climbed(w, o, h, E[c])
  /\ o.phase = "unwind" => Trail(w, h, o.roots, E[c], Waiting(o))

LEMMA PathOf ==
  ASSUME NEW E \in EagerPaths, NEW c \in 1..Len(E)
  PROVE  E[c] \in Seq(STRING) /\ Len(E[c]) \in Nat /\ Len(E[c]) > 0 /\ Head(E[c]) = E[c][1]
<1>1. E[c] \in Seq(STRING) \ {<<>>}
  BY DEF EagerPaths
<1> QED BY <1>1

(* The levels of a path, and T below them.                                  *)
LEMMA TrailOfLevels ==
  ASSUME NEW w, NEW h, NEW o, NEW path, NEW T, Len(path) \in Nat, Len(o.above) \in Nat,
         Len(o.above) <= Len(path), \A n \in Depths(o) : Level(o, n) \subseteq DOMAIN h,
         \A n \in 1..Len(o.above) : Level(o, n) = o.above[n],
         T \subseteq DOMAIN h, \A i \in T : h[i].hooked = 1,
         Climbed(w, o, h, path),
         \A n \in (Len(o.above) + 1)..Len(path) :
           \/ n = Len(o.above) + 1 /\ Leads(w, h, path[n], Level(o, Len(o.above)), T)
           \/ n > Len(o.above) + 1 /\ Leads(w, h, path[n], T, T)
  PROVE  Trail(w, h, o.roots, path, Waiting(o))
<1> DEFINE N == Len(o.above)
           L == [n \in 0..Len(path) |-> IF n <= N THEN Level(o, n) ELSE T]
<1>1. \A n \in 0..N : L[n] = Level(o, n)
  OBVIOUS
<1>2. \A n \in (N + 1)..Len(path) : L[n] = T
  OBVIOUS
<1>3. L \in [0..Len(path) -> SUBSET DOMAIN h]
  BY DEF Depths
<1>4. L[0] = o.roots
  BY <1>1 DEF Level
<1> HIDE DEF L
<1>5. ASSUME NEW n \in 1..Len(path)
      PROVE  /\ Leads(w, h, path[n], L[n - 1], L[n])
             /\ \A i \in L[n] : h[i].hooked = 1 \/ i \in Waiting(o)
  <2>1. CASE n <= N
    <3>1. L[n] = o.above[n] /\ L[n] = Level(o, n) /\ L[n - 1] = Level(o, n - 1) /\ n \in 1..N
      BY <1>1, <2>1
    <3>2. Leads(w, h, path[n], L[n - 1], L[n])
      BY <3>1 DEF Climbed
    <3>3. o.above[n] \subseteq Waiting(o)
      BY <3>1 DEF Waiting
    <3> QED BY <3>1, <3>2, <3>3
  <2>2. CASE n = N + 1
    <3>1. L[n] = T /\ L[n - 1] = Level(o, N) /\ n \in (N + 1)..Len(path)
      BY <1>1, <1>2, <2>2
    <3>2. Leads(w, h, path[n], Level(o, N), T)
      BY <2>2, <3>1
    <3> QED BY <3>1, <3>2
  <2>3. CASE n > N + 1
    <3>1. n \in (N + 1)..Len(path) /\ n - 1 \in (N + 1)..Len(path)
      BY <2>3
    <3>2. L[n] = T /\ L[n - 1] = T
      BY <1>2, <3>1
    <3>3. Leads(w, h, path[n], T, T)
      BY <2>3, <3>1
    <3> QED BY <3>2, <3>3
  <2> QED BY <2>1, <2>2, <2>3
<1>6. IsTrail(w, h, o.roots, path, Waiting(o), L)
  BY <1>3, <1>4, <1>5 DEF IsTrail
<1> QED BY <1>6 DEF Trail

(* While the relation of the items is loaded, the paths before and the      *)
(* levels above stay as they are.                                           *)
LEMMA LoadingKeeps ==
  ASSUME NEW w, NEW E \in EagerPaths, NEW c, NEW o, NEW h, NEW g, Fetching(o),
         o.kind = "find", CallOK(o), LevelsOK(o, h), HooksOK(w.model, o, h),
         HeapOK(w.model, h), OnPath(w, E, c, o, h), Remains(h, g),
         \A i \in DOMAIN h :
           /\ g[i].hooked = h[i].hooked
           /\ i \notin o.items => g[i].rel = h[i].rel
           /\ \A p \in DOMAIN h[i].rel : p # Head(o.segs) => g[i].rel[p] = h[i].rel[p]
  PROVE  /\ c \in 1..Len(E) /\ Begun(E, c, o) /\ Onward(o, E[c])
         /\ Finished(w, g, o.roots, E, c - 1, c)
         /\ Climbed(w, o, g, E[c])
<1>1. /\ c \in 1..Len(E) /\ Begun(E, c, o) /\ Onward(o, E[c]) /\ Climbed(w, o, h, E[c])
      /\ Finished(w, h, o.roots, E, c - 1, c)
  BY DEF OnPath, Begun, Fetching, EagerPaths
<1>2. /\ Len(o.above) \in Nat /\ o.segs \in Seq(STRING) /\ o.segs # <<>>
      /\ o.items = Level(o, Len(o.above)) /\ Len(o.segs) \in Nat /\ Len(o.segs) > 0
      /\ Head(o.segs) = o.segs[1]
  BY DEF CallOK, LevelsOK, Fetching
<1>3. /\ \A n \in Depths(o) : \A i \in Level(o, n) : i \in DOMAIN h /\ h[i].hooked = 0
      /\ \A k, n \in Depths(o) : k # n => Level(o, k) \cap Level(o, n) = {}
  BY DEF LevelsOK, HooksOK
<1>4. 0 \in Depths(o) /\ Len(o.above) \in Depths(o) /\ Level(o, 0) = o.roots
  BY <1>2 DEF Depths, Level
<1>5. ASSUME NEW i \in DOMAIN h, h[i].hooked = 1
      PROVE  g[i].rel = h[i].rel /\ g[i].hooked = 1
  <2>1. i \notin o.items
    BY <1>2, <1>3, <1>4, <1>5
  <2> QED BY <1>5, <2>1
<1>6. ASSUME NEW n \in 1..Len(o.above)
      PROVE  Leads(w, g, E[c][n], Level(o, n - 1), Level(o, n))
  <2>1. n - 1 \in Depths(o) /\ n - 1 # Len(o.above)
    BY <1>2 DEF Depths
  <2>2. ASSUME NEW i \in Level(o, n - 1)
        PROVE  Answers(w, g, i, E[c][n]) /\ Targets(w.model, g, i, E[c][n]) \subseteq Level(o, n)
    <3>1. Answers(w, h, i, E[c][n]) /\ Targets(w.model, h, i, E[c][n]) \subseteq Level(o, n)
      BY <1>1 DEF Climbed, Leads
    <3>2. i \in DOMAIN h /\ i \notin o.items
      BY <1>2, <1>3, <1>4, <2>1
    <3>3. E[c][n] \in DOMAIN h[i].rel /\ g[i].rel[E[c][n]] = h[i].rel[E[c][n]]
      BY <3>1, <3>2 DEF Answers
    <3> QED BY <3>1, <3>2, <3>3, SameAnswers
  <2> QED BY <2>2 DEF Leads
<1>7. ASSUME NEW j \in 1..(c - 1), ~ Replaced(E, j, c)
      PROVE  Trail(w, g, o.roots, E[j], {})
  <2>1. Trail(w, h, o.roots, E[j], {})
    BY <1>1, <1>7 DEF Finished
  <2>2. j \in 1..Len(E) /\ c \in (j + 1)..c
    BY <1>1, <1>7 DEF EagerPaths
  <2>3. Head(E[c]) # Head(E[j])
    BY <1>7, <2>2 DEF Replaced
  <2>4. Len(E[j]) \in Nat /\ E[j][1] # E[c][1] /\ Head(E[c]) = E[c][1]
    BY <1>1, <2>2, <2>3, PathOf
  <2>5. ASSUME NEW i \in o.roots, E[j][1] \in DOMAIN h[i].rel
        PROVE  g[i].rel[E[j][1]] = h[i].rel[E[j][1]]
    <3>1. i \in DOMAIN h
      BY <1>3, <1>4
    <3>2. CASE Len(o.above) = 0
      <4>1. Head(o.segs) = E[c][1]
        BY <1>1, <1>2, <3>2 DEF Onward
      <4> QED BY <2>4, <2>5, <3>1, <4>1
    <3>3. CASE Len(o.above) # 0
      <4>1. i \notin o.items
        BY <1>2, <1>3, <1>4, <3>3
      <4> QED BY <3>1, <4>1
    <3> QED BY <3>2, <3>3
  <2> QED BY <1>5, <2>1, <2>4, <2>5, TrailKeeps
<1>8. Finished(w, g, o.roots, E, c - 1, c)
  BY <1>7 DEF Finished
<1> QED BY <1>1, <1>6, <1>8 DEF Climbed

(* The way on from a relation whose targets are T.                          *)
LEMMA DescendPath ==
  ASSUME NEW w, NEW E \in EagerPaths, NEW c \in 1..Len(E), NEW o, NEW h, NEW g, NEW T,
         Fetching(o), o.kind = "find", CallOK(o), LevelsOK(o, h), DOMAIN h \subseteq DOMAIN g,
         Begun(E, c, o), Onward(o, E[c]), Climbed(w, o, g, E[c]),
         Finished(w, g, o.roots, E, c - 1, c),
         Leads(w, g, Head(o.segs), o.items, T), T \subseteq DOMAIN g,
         Len(o.segs) = 1 => \A i \in T : g[i].hooked = 1
  PROVE  OnPath(w, E, c, Descend(o, T), g)
<1> DEFINE q == Descend(o, T)
           N == Len(o.above)
           path == E[c]
<1>1. /\ DOMAIN o = CallFields /\ N \in Nat /\ o.above \in Seq(SUBSET Nat)
      /\ o.segs \in Seq(STRING) /\ o.segs # <<>> /\ o.items = Level(o, N)
      /\ Len(o.segs) \in Nat /\ Len(o.segs) > 0 /\ Head(o.segs) = o.segs[1]
  BY DEF CallOK, LevelsOK, Fetching
<1>2. \A n \in Depths(o) : Level(o, n) \subseteq DOMAIN g
  BY DEF LevelsOK
<1>3. Len(path) \in Nat /\ Len(path) = N + Len(o.segs) /\ path[N + 1] = Head(o.segs)
  <2>1. Len(path) \in Nat
    BY PathOf
  <2>2. Len(path) = N + Len(o.segs) /\ \A n \in 1..Len(o.segs) : o.segs[n] = path[N + n]
    BY DEF Onward
  <2> HIDE DEF path, N
  <2>3. 1 \in 1..Len(o.segs)
    BY <1>1
  <2> QED BY <1>1, <2>1, <2>2, <2>3
<1> HIDE DEF path, N
<1>4. CASE Len(o.segs) > 1
  <2>1. q = [o EXCEPT !.phase = "open", !.items = T, !.segs = Tail(@), !.above = Append(@, T)]
    BY <1>4 DEF Descend
  <2> HIDE DEF q
  <2>2. /\ q.phase = "open" /\ q.segs = Tail(o.segs) /\ q.above = Append(o.above, T)
        /\ q.roots = o.roots /\ q.todo = o.todo
    BY <1>1, <2>1 DEF CallFields
  <2>3. /\ Len(q.above) = N + 1 /\ \A n \in 1..N : q.above[n] = o.above[n]
        /\ q.above[N + 1] = T
    BY <1>1, <2>2 DEF N
  <2>4. Len(q.segs) = Len(o.segs) - 1 /\ \A n \in 1..Len(q.segs) : q.segs[n] = o.segs[n + 1]
    BY <1>1, <2>2
  <2>5. Onward(q, path)
    <3>1. Len(path) = Len(q.above) + Len(q.segs)
      <4> DEFINE k == Len(o.segs)
      <4>1. k \in Nat /\ N \in Nat /\ Len(q.above) = N + 1 /\ Len(q.segs) = k - 1
            /\ Len(path) = N + k
        BY <1>1, <1>3, <2>3, <2>4
      <4> HIDE DEF k
      <4> QED BY <4>1
    <3>2. ASSUME NEW n \in 1..Len(q.segs) PROVE q.segs[n] = path[Len(q.above) + n]
      <4>1. n + 1 \in 1..Len(o.segs) /\ N + (n + 1) = Len(q.above) + n
        BY <1>1, <2>3, <2>4
      <4>2. o.segs[n + 1] = path[N + (n + 1)]
        BY <4>1 DEF Onward, path, N
      <4> QED BY <2>4, <4>1, <4>2
    <3> QED BY <3>1, <3>2 DEF Onward
  <2>6. Climbed(w, q, g, path)
    <3> SUFFICES ASSUME NEW n \in 1..(N + 1)
                 PROVE  Leads(w, g, path[n], Level(q, n - 1), Level(q, n))
      BY <2>3 DEF Climbed
    <3>1. \A k \in 0..N : Level(q, k) = Level(o, k)
      BY <1>1, <2>2, <2>3 DEF Level
    <3>2. CASE n \in 1..N
      <4>1. Leads(w, g, path[n], Level(o, n - 1), Level(o, n))
        BY <3>2 DEF Climbed, path, N
      <4>2. n - 1 \in 0..N /\ n \in 0..N
        BY <1>1, <3>2
      <4> QED BY <3>1, <4>1, <4>2
    <3>3. CASE n = N + 1
      <4>1. Level(q, n) = T /\ Level(q, n - 1) = o.items
        BY <1>1, <2>3, <3>1, <3>3 DEF Level
      <4> QED BY <1>3, <3>3, <4>1
    <3> QED BY <1>1, <3>2, <3>3
  <2> QED BY <2>2, <2>5, <2>6 DEF OnPath, Begun, Fetching, q, path
<1>5. CASE ~ (Len(o.segs) > 1)
  <2>1. q = [o EXCEPT !.phase = "unwind"]
    BY <1>5 DEF Descend
  <2> HIDE DEF q
  <2>2. q.phase = "unwind" /\ q.roots = o.roots /\ q.todo = o.todo /\ q.above = o.above
    BY <1>1, <2>1 DEF CallFields
  <2>3. Len(o.segs) = 1 /\ Len(path) = N + 1
    <3>1. Len(o.segs) = 1
      <4> DEFINE k == Len(o.segs)
      <4>1. k \in Nat /\ k > 0 /\ ~ (k > 1)
        BY <1>1, <1>5
      <4> HIDE DEF k
      <4>2. k = 1
        BY <4>1
      <4> QED BY <4>2 DEF k
    <3> QED BY <1>3, <3>1
  <2>4. \A n \in 1..N : Level(o, n) = o.above[n]
    BY <1>1 DEF Level
  <2>5. \A n \in (N + 1)..Len(path) :
          \/ n = N + 1 /\ Leads(w, g, path[n], Level(o, N), T)
          \/ n > N + 1 /\ Leads(w, g, path[n], T, T)
    BY <1>1, <1>3, <2>3
  <2>6. Climbed(w, o, g, path) /\ N <= Len(path)
    BY <1>1, <2>3 DEF path
  <2>7. Trail(w, g, o.roots, path, Waiting(o))
    BY <1>1, <1>2, <1>3, <2>3, <2>4, <2>5, <2>6, TrailOfLevels DEF N
  <2>8. Waiting(q) = Waiting(o)
    BY <2>2 DEF Waiting
  <2> QED BY <2>2, <2>7, <2>8 DEF OnPath, Begun, Fetching, q, path
<1> QED BY <1>4, <1>5

(* The way on from a level without instances.                               *)
LEMMA NoOwnersPath ==
  ASSUME NEW w, NEW E \in EagerPaths, NEW c, NEW o, NEW g,
         o.phase = "open", o.items = {}, CallOK(o), LevelsOK(o, g), OnPath(w, E, c, o, g)
  PROVE  OnPath(w, E, c, [o EXCEPT !.phase = "unwind"], g)
<1> DEFINE q == [o EXCEPT !.phase = "unwind"]
           N == Len(o.above)
           path == E[c]
<1>1. /\ c \in 1..Len(E) /\ Begun(E, c, o) /\ Onward(o, path) /\ Climbed(w, o, g, path)
      /\ Finished(w, g, o.roots, E, c - 1, c)
  BY DEF OnPath, Begun, Fetching, EagerPaths
<1>2. /\ DOMAIN o = CallFields /\ N \in Nat /\ o.segs \in Seq(STRING) /\ Len(o.segs) \in Nat
      /\ Level(o, N) = {}
  BY DEF CallOK, LevelsOK
<1>3. \A n \in Depths(o) : Level(o, n) \subseteq DOMAIN g
  BY DEF LevelsOK
<1>4. Len(path) \in Nat /\ N <= Len(path)
  <2>1. Len(path) \in Nat
    BY <1>1, PathOf
  <2>2. Len(path) = N + Len(o.segs)
    BY <1>1 DEF Onward
  <2> HIDE DEF path, N
  <2> QED BY <1>2, <2>1, <2>2
<1> HIDE DEF q, path
<1>5. q.phase = "unwind" /\ q.roots = o.roots /\ q.todo = o.todo /\ q.above = o.above
  BY <1>2 DEF CallFields, q
<1>6. \A n \in 1..N : Level(o, n) = o.above[n]
  BY <1>2 DEF Level
<1>7. \A p : Leads(w, g, p, {}, {})
  BY DEF Leads
<1>8. \A n \in (N + 1)..Len(path) :
        \/ n = N + 1 /\ Leads(w, g, path[n], Level(o, N), {})
        \/ n > N + 1 /\ Leads(w, g, path[n], {}, {})
  BY <1>2, <1>4, <1>7
<1>9. Trail(w, g, o.roots, path, Waiting(o))
  BY <1>1, <1>2, <1>3, <1>4, <1>6, <1>8, TrailOfLevels
<1>10. Waiting(q) = Waiting(o)
  BY <1>5 DEF Waiting
<1> QED BY <1>1, <1>5, <1>9, <1>10 DEF OnPath, Begun, Fetching, q, path
---------------------------------------------------------------------------
(* What has been read so far of the relation that is being loaded.          *)
LEMMA ValueStored ==
  ASSUME NEW w, w.model = model, NEW h, NEW i, Stored(w, h, i), NEW c
  PROVE  ValueOf(h, i, c) = CellOf(w, h[i].cls, h[i].key, c)
BY DEF Stored, ValueOf, CellOf, PrimaryKey

Wanted(w, o, h, r) ==
  IF r.type \in {"one-to-many", "many-to-many"} THEN Keys(h, o.items)
  ELSE {CellOf(w, h[i].cls, h[i].key, r.joinColumn) : i \in o.items} \ {Unset, Null}

FetchedBy(w, r) == IF r.type = "one-to-many" THEN r.joinColumn ELSE w.model.of[r.target].pks[1]

TargetRows(w, r) == DOMAIN w.rows[r.target]

(* The links of the owners whose turn has come.                             *)
LinksDue(w, o, h, r) == LinksOf(w, TableOf(w, Class(o, h), r), Wanted(w, o, h, r) \ o.owners)

ReadThroughLinks(w, o, h, r) ==
  LET due == LinksDue(w, o, h, r)
  IN  /\ o.owners \subseteq Wanted(w, o, h, r)
      /\ o.read \subseteq due
      /\ o.values \subseteq Inverses(due)
      /\ Keys(h, o.got) = (Inverses(due) \cap TargetRows(w, r)) \ o.values
      /\ \A p \in o.pairs : [owner |-> p[1], inverse |-> h[p[2]].key] \in due
      /\ \A l \in due \ o.read : l.inverse \in TargetRows(w, r) =>
           \E x \in o.got : h[x].key = l.inverse /\ <<l.owner, x>> \in o.pairs

ReadByColumn(w, o, h, r) ==
  /\ o.owners = {} /\ o.values \subseteq Wanted(w, o, h, r)
  /\ Keys(h, o.got) =
       {k \in TargetRows(w, r) :
          CellOf(w, r.target, k, FetchedBy(w, r)) \in Wanted(w, o, h, r) \ o.values}

ReadOK(w, o, h) ==
  LET r == Current(w.model, o, h)
  IN  /\ r # Unset
      /\ r.type = "many-to-many" => ReadThroughLinks(w, o, h, r)
      /\ r.type # "many-to-many" => ReadByColumn(w, o, h, r)

(* Instance i of the items is given relation r when all has been read.      *)
AllRead(o) == o.owners = {} /\ o.values = {} /\ o.read = {}

Served(w, o, h, g, r, i) ==
  /\ StoredOK(w, h) /\ Remains(h, g) /\ DOMAIN h \subseteq Nat
  /\ o.got \subseteq DOMAIN h
  /\ \A x \in o.got : /\ h[x].cls = r.target
                      /\ \A y \in o.got : h[x].key = h[y].key => x = y
  /\ i \in o.items /\ i \in DOMAIN h /\ h[i].cls = Class(o, h)
  /\ IsLoaded(w.model, o, h, g, r, i)
  /\ r = Current(w.model, o, h) /\ ReadOK(w, o, h) /\ AllRead(o)
  /\ IsFiniteSet(TargetRows(w, r)) /\ {Unset, Null} \cap TargetRows(w, r) = {}

Matched(w, o, h, g, r, i) ==
  LET I == Targets(w.model, g, i, r.prop)
  IN  /\ I \subseteq o.got /\ Keys(h, I) = RelatedOf(w, g, i, r.prop)
      /\ g[i].rel[r.prop] = Unset =>
           ~ Many(w.model, g[i].cls, r.prop) /\ RelatedOf(w, g, i, r.prop) = {}

LEMMA ServedFacts ==
  ASSUME NEW w, NEW o, NEW h, NEW g, NEW r, NEW i, Served(w, o, h, g, r, i)
  PROVE  /\ g[i].cls = h[i].cls /\ g[i].key = h[i].key
         /\ g[i].rel[r.prop] = Loaded(o, h, r, i)
         /\ Relation(w.model, g[i].cls, r.prop) = r
         /\ RelatedOf(w, g, i, r.prop) = RowsRelated(w, h[i].cls, h[i].key, r)
         /\ \A I \in SUBSET o.got : I \notin {Unset, Null} \/ ~ SetsApart
<1>1. g[i].cls = h[i].cls /\ g[i].key = h[i].key
  BY DEF Served, Remains
<1>2. g[i].rel[r.prop] = Loaded(o, h, r, i) /\ Relation(w.model, g[i].cls, r.prop) = r
  BY DEF Served, IsLoaded
<1>3. RelatedOf(w, g, i, r.prop) = RowsRelated(w, h[i].cls, h[i].key, r)
  BY <1>1, <1>2 DEF RelatedOf
<1>4. \A I \in SUBSET o.got : I \in SUBSET Nat
  BY DEF Served
<1> QED BY <1>1, <1>2, <1>3, <1>4 DEF SetsApart

LEMMA MatchedToMany ==
  ASSUME SetsApart, NEW w, w.model = model, NEW o, NEW h, NEW g, NEW r, NEW i,
         Served(w, o, h, g, r, i), r.type = "one-to-many"
  PROVE  Matched(w, o, h, g, r, i)
<1> DEFINE V == {x \in o.got : ValueOf(h, x, r.joinColumn) = h[i].key}
<1>1. /\ g[i].rel[r.prop] = Loaded(o, h, r, i) /\ Relation(w.model, g[i].cls, r.prop) = r
      /\ RelatedOf(w, g, i, r.prop) = RowsRelated(w, h[i].cls, h[i].key, r)
      /\ \A I \in SUBSET o.got : I \notin {Unset, Null}
  BY ServedFacts
<1>2. g[i].rel[r.prop] = V /\ V \notin {Unset, Null} /\ V \subseteq o.got
  BY <1>1 DEF Loaded
<1>3. Targets(w.model, g, i, r.prop) = V
  BY <1>1, <1>2 DEF Targets, Many
<1>4. \A x \in o.got : ValueOf(h, x, r.joinColumn) = CellOf(w, r.target, h[x].key, r.joinColumn)
  <2>1. \A x \in o.got : Stored(w, h, x) /\ h[x].cls = r.target
    BY DEF Served, StoredOK
  <2> QED BY <2>1, ValueStored
<1>5. RowsRelated(w, h[i].cls, h[i].key, r) =
        {k \in TargetRows(w, r) : CellOf(w, r.target, k, r.joinColumn) = h[i].key}
  BY DEF RowsRelated, TargetRows
<1>6. Keys(h, o.got) =
        {k \in TargetRows(w, r) : CellOf(w, r.target, k, r.joinColumn) \in Keys(h, o.items)}
  BY DEF Served, ReadOK, ReadByColumn, AllRead, Wanted, FetchedBy
<1>7. h[i].key \in Keys(h, o.items)
  BY DEF Served, Keys
<1>8. Keys(h, V) = RowsRelated(w, h[i].cls, h[i].key, r)
  <2>1. ASSUME NEW x \in V PROVE h[x].key \in RowsRelated(w, h[i].cls, h[i].key, r)
    <3>1. h[x].key \in Keys(h, o.got) /\ CellOf(w, r.target, h[x].key, r.joinColumn) = h[i].key
      BY <1>4 DEF Keys
    <3> QED BY <1>5, <1>6, <3>1
  <2>2. ASSUME NEW k \in RowsRelated(w, h[i].cls, h[i].key, r) PROVE k \in Keys(h, V)
    <3>1. k \in Keys(h, o.got) /\ CellOf(w, r.target, k, r.joinColumn) = h[i].key
      BY <1>5, <1>6, <1>7
    <3>2. PICK x \in o.got : h[x].key = k
      BY <3>1 DEF Keys
    <3>3. x \in V
      BY <1>4, <3>1, <3>2
    <3> QED BY <3>2, <3>3 DEF Keys
  <2> QED BY <2>1, <2>2 DEF Keys
<1> QED BY <1>1, <1>2, <1>3, <1>8 DEF Matched

LEMMA LinkFacts ==
  ASSUME NEW w, NEW t, NEW K, NEW l \in LinksOf(w, t, K)
  PROVE  /\ l = [owner |-> l.owner, inverse |-> l.inverse]
         /\ l.owner \in K /\ l.inverse \in Inverses(LinksOf(w, t, K))
         /\ \A J : l.owner \in J => l \in LinksOf(w, t, J)
<1>1. PICK e \in w.links[t.tableName] :
        /\ e[t.ownerColumn] \in K
        /\ l = [owner |-> e[t.ownerColumn], inverse |-> e[t.inverseColumn]]
  BY DEF LinksOf
<1>2. l.owner = e[t.ownerColumn] /\ l.inverse = e[t.inverseColumn]
  BY <1>1
<1>3. \A J : l.owner \in J => l \in LinksOf(w, t, J)
  BY <1>1, <1>2 DEF LinksOf
<1> QED BY <1>1, <1>2, <1>3 DEF Inverses

LEMMA MatchedThroughLinks ==
  ASSUME SetsApart, NEW w, NEW o, NEW h, NEW g, NEW r, NEW i,
         Served(w, o, h, g, r, i), r.type = "many-to-many", \A p \in o.pairs : p[2] \in o.got
  PROVE  Matched(w, o, h, g, r, i)
<1> DEFINE V == {p[2] : p \in {p \in o.pairs : p[1] = h[i].key}}
           t == TableOf(w, Class(o, h), r)
           due == LinksOf(w, t, Keys(h, o.items))
           mine == LinksOf(w, t, {h[i].key})
<1>1. /\ g[i].rel[r.prop] = Loaded(o, h, r, i) /\ Relation(w.model, g[i].cls, r.prop) = r
      /\ RelatedOf(w, g, i, r.prop) = RowsRelated(w, h[i].cls, h[i].key, r)
      /\ \A I \in SUBSET o.got : I \notin {Unset, Null}
  BY ServedFacts
<1>2. g[i].rel[r.prop] = V /\ V \notin {Unset, Null} /\ V \subseteq o.got
  <2>1. V \subseteq o.got
    OBVIOUS
  <2>2. g[i].rel[r.prop] = V
    BY <1>1 DEF Loaded
  <2> HIDE DEF V
  <2> QED BY <1>1, <2>1, <2>2
<1> HIDE DEF V
<1>3. Targets(w.model, g, i, r.prop) = V
  BY <1>1, <1>2 DEF Targets, Many
<1>4. RowsRelated(w, h[i].cls, h[i].key, r) = Inverses(mine) \cap TargetRows(w, r)
  <2>1. h[i].cls = Class(o, h)
    BY DEF Served
  <2> QED BY <2>1 DEF RowsRelated, TargetRows
<1>5. ReadThroughLinks(w, o, h, r) /\ LinksDue(w, o, h, r) = due
  <2>1. ReadOK(w, o, h) /\ o.owners = {} /\ r = Current(w.model, o, h)
    BY DEF Served, AllRead
  <2>2. Wanted(w, o, h, r) \ o.owners = Keys(h, o.items)
    BY <2>1 DEF Wanted
  <2> QED BY <2>1, <2>2 DEF ReadOK, LinksDue
<1> HIDE DEF due, mine, t
<1>6. /\ Keys(h, o.got) = Inverses(due) \cap TargetRows(w, r)
      /\ \A p \in o.pairs : [owner |-> p[1], inverse |-> h[p[2]].key] \in due
      /\ \A l \in due : l.inverse \in TargetRows(w, r) =>
           \E x \in o.got : h[x].key = l.inverse /\ <<l.owner, x>> \in o.pairs
  <2>1. o.values = {} /\ o.read = {}
    BY DEF Served, AllRead
  <2> QED BY <1>5, <2>1 DEF ReadThroughLinks
<1>7. h[i].key \in Keys(h, o.items)
  BY DEF Served, Keys
<1>8. Keys(h, V) = Inverses(mine) \cap TargetRows(w, r)
  <2>1. ASSUME NEW x \in V PROVE h[x].key \in Inverses(mine) \cap TargetRows(w, r)
    <3>1. PICK p \in o.pairs : p[1] = h[i].key /\ p[2] = x
      BY DEF V
    <3> DEFINE l == [owner |-> h[i].key, inverse |-> h[x].key]
    <3>2. l \in due
      BY <1>6, <3>1
    <3>3. l.owner \in {h[i].key} /\ l.inverse = h[x].key
      OBVIOUS
    <3> HIDE DEF l
    <3>4. l \in mine
      BY <3>2, <3>3, LinkFacts DEF due, mine
    <3>5. h[x].key \in Inverses(mine)
      BY <3>3, <3>4 DEF Inverses
    <3>6. h[x].key \in Keys(h, o.got)
      BY <1>2 DEF Keys
    <3> QED BY <1>6, <3>5, <3>6
  <2>2. ASSUME NEW k \in Inverses(mine) \cap TargetRows(w, r) PROVE k \in Keys(h, V)
    <3>1. PICK l \in mine : l.inverse = k
      BY DEF Inverses
    <3>2. l.owner = h[i].key
      BY <3>1, LinkFacts DEF mine
    <3>3. l \in due
      BY <1>7, <3>1, <3>2, LinkFacts DEF mine, due
    <3>4. PICK x \in o.got : h[x].key = k /\ <<h[i].key, x>> \in o.pairs
      BY <1>6, <2>2, <3>1, <3>2, <3>3
    <3>5. x \in V
      <4> DEFINE p == <<h[i].key, x>>
      <4>1. p \in o.pairs /\ p[1] = h[i].key /\ p[2] = x
        BY <3>4
      <4> HIDE DEF p
      <4> QED BY <4>1 DEF V
    <3> QED BY <3>4, <3>5 DEF Keys
  <2> QED BY <2>1, <2>2 DEF Keys
<1> QED BY <1>1, <1>2, <1>3, <1>4, <1>8 DEF Matched

LEMMA MatchedToOne ==
  ASSUME NEW w, w.model = model, NEW o, NEW h, NEW g, NEW r, NEW i,
         Served(w, o, h, g, r, i), r.type \notin {"one-to-many", "many-to-many"}
  PROVE  Matched(w, o, h, g, r, i)
<1> DEFINE v == CellOf(w, h[i].cls, h[i].key, r.joinColumn)
           one == {x \in o.got : h[x].key = v}
<1>1. /\ g[i].rel[r.prop] = Loaded(o, h, r, i) /\ Relation(w.model, g[i].cls, r.prop) = r
      /\ RelatedOf(w, g, i, r.prop) = {v} \cap TargetRows(w, r)
  <2>1. RelatedOf(w, g, i, r.prop) = RowsRelated(w, h[i].cls, h[i].key, r)
    BY ServedFacts
  <2>2. RowsRelated(w, h[i].cls, h[i].key, r) = {v} \cap TargetRows(w, r)
    BY DEF RowsRelated, TargetRows
  <2>3. g[i].rel[r.prop] = Loaded(o, h, r, i) /\ Relation(w.model, g[i].cls, r.prop) = r
    BY ServedFacts
  <2> QED BY <2>1, <2>2, <2>3
<1>2. /\ Stored(w, h, i) /\ i \in o.items /\ o.got \subseteq DOMAIN h /\ DOMAIN h \subseteq Nat
      /\ \A x, y \in o.got : h[x].key = h[y].key => x = y
      /\ {Unset, Null} \cap TargetRows(w, r) = {}
  BY DEF Served, StoredOK
<1>3. ValueOf(h, i, r.joinColumn) = v
  BY <1>2, ValueStored
<1>4. g[i].rel[r.prop] = IF one = {} THEN Null ELSE CHOOSE x \in one : TRUE
  BY <1>1, <1>3 DEF Loaded
<1>5. Keys(h, o.got) = {k \in TargetRows(w, r) : k \in Wanted(w, o, h, r)}
  <2>1. ReadByColumn(w, o, h, r) /\ o.values = {}
    BY DEF Served, ReadOK, AllRead
  <2>2. \A k : CellOf(w, r.target, k, FetchedBy(w, r)) = k
    BY DEF CellOf, FetchedBy
  <2> QED BY <2>1, <2>2 DEF ReadByColumn
<1>6. Wanted(w, o, h, r) =
        {CellOf(w, h[x].cls, h[x].key, r.joinColumn) : x \in o.items} \ {Unset, Null}
  BY DEF Wanted
<1>7. ~ Many(w.model, g[i].cls, r.prop)
  BY <1>1 DEF Many
<1> HIDE DEF v
<1>8. CASE one = {}
  <2>1. v \notin Keys(h, o.got)
    BY <1>8 DEF Keys
  <2>2. v \notin TargetRows(w, r)
    <3>1. v \in {CellOf(w, h[x].cls, h[x].key, r.joinColumn) : x \in o.items}
      BY <1>2 DEF v
    <3> QED BY <1>2, <1>5, <1>6, <2>1, <3>1
  <2>3. Targets(w.model, g, i, r.prop) = {}
    BY <1>4, <1>8 DEF Targets
  <2> QED BY <1>1, <1>7, <2>2, <2>3 DEF Matched, Keys
<1>9. CASE one # {}
  <2>1. PICK x \in one : g[i].rel[r.prop] = x
    BY <1>4, <1>9
  <2>2. x \in o.got /\ h[x].key = v /\ x \in Nat
    BY <1>2, <2>1
  <2>3. x \notin {Unset, Null}
    BY <2>2, ValuesAssumption
  <2>4. Targets(w.model, g, i, r.prop) = {x}
    BY <1>7, <2>1, <2>3 DEF Targets
  <2>5. v \in Keys(h, o.got)
    BY <2>2 DEF Keys
  <2>6. v \in TargetRows(w, r)
    BY <1>5, <2>5
  <2> QED BY <1>1, <2>1, <2>2, <2>3, <2>4, <2>6 DEF Matched, Keys
<1> QED BY <1>8, <1>9

(* So it holds what its row is related to.                                  *)
LEMMA ServedMatches ==
  ASSUME SetsApart, NEW w, w.model = model, NEW o, NEW h, NEW g, NEW r, NEW i,
         Served(w, o, h, g, r, i), \A p \in o.pairs : p[2] \in o.got,
         r.prop \in DOMAIN g[i].rel
  PROVE  Matches(w, g, i, r.prop) /\ Answers(w, g, i, r.prop)
<1> DEFINE I == Targets(w.model, g, i, r.prop)
           R == RelatedOf(w, g, i, r.prop)
<1>1. Matched(w, o, h, g, r, i)
  BY MatchedToMany, MatchedThroughLinks, MatchedToOne
<1>2. I \subseteq o.got /\ Keys(h, I) = R
  BY <1>1 DEF Matched
<1>3. Answers(w, g, i, r.prop)
  BY <1>1 DEF Matched, Answers
<1>4. /\ \A x \in o.got : x \in DOMAIN h /\ g[x].key = h[x].key
      /\ \A x, y \in o.got : h[x].key = h[y].key => x = y
      /\ IsFiniteSet(TargetRows(w, r))
  BY DEF Served, Remains
<1>5. R \subseteq TargetRows(w, r)
  <2>1. R = RowsRelated(w, h[i].cls, h[i].key, r)
    BY ServedFacts
  <2>2. RowsRelated(w, h[i].cls, h[i].key, r) \subseteq TargetRows(w, r)
    <3>1. CASE r.type = "one-to-many"
      BY <3>1 DEF RowsRelated, TargetRows
    <3>2. CASE r.type = "many-to-many"
      BY <3>2 DEF RowsRelated, TargetRows
    <3>3. CASE r.type \notin {"one-to-many", "many-to-many"}
      BY <3>3 DEF RowsRelated, TargetRows
    <3> QED BY <3>1, <3>2, <3>3
  <2> QED BY <2>1, <2>2
<1> HIDE DEF I, R
<1>6. Keys(g, I) = R
  BY <1>2, <1>4 DEF Keys
<1>7. IsFiniteSet(R)
  BY <1>4, <1>5, FS_Subset
<1>8. \A x, y \in I : g[x].key = g[y].key => x = y
  BY <1>2, <1>4
<1>9. Cardinality(I) = Cardinality(R)
  BY <1>6, <1>7, <1>8, KeysCount
<1> QED BY <1>3, <1>6, <1>9 DEF Matches, I, R

(* The links are read before the rows they lead to.                         *)
LinksFirst(w, o, h) ==
  o.phase = "links" =>
    Current(w.model, o, h).type = "many-to-many" /\ o.read = {} /\ o.values = {}

(* The graph of a find(): the instances are rows, every root is on its      *)
(* paths, and what is being loaded has been read so far.                    *)
GraphOK(w, o, h) ==
  /\ StoredOK(w, h)
  /\ \A i \in o.roots : \E c : OnPath(w, w.model.of[h[i].cls].eager, c, o, h)
  /\ Loading(o) => ReadOK(w, o, h) /\ LinksFirst(w, o, h)

LEMMA OnPathSame ==
  ASSUME NEW w, NEW E, NEW c, NEW o, NEW q, NEW h, OnPath(w, E, c, o, h),
         Fetching(o), Fetching(q),
         q.roots = o.roots, q.todo = o.todo, q.above = o.above, q.segs = o.segs
  PROVE  OnPath(w, E, c, q, h)
<1>1. \A n : Level(q, n) = Level(o, n)
  BY DEF Level
<1>2. Begun(E, c, q) /\ c > 0 /\ Finished(w, h, q.roots, E, c - 1, c) /\ Onward(q, E[c])
  BY DEF OnPath, Begun, Fetching, Onward
<1>3. Climbed(w, q, h, E[c])
  BY <1>1 DEF OnPath, Climbed
<1> QED BY <1>2, <1>3 DEF OnPath, Fetching

LEMMA WantedSame ==
  ASSUME NEW w, NEW o, NEW q, NEW h, NEW r, SamePlace(o, q)
  PROVE  /\ Wanted(w, q, h, r) = Wanted(w, o, h, r) /\ Class(q, h) = Class(o, h)
         /\ Current(w.model, q, h) = Current(w.model, o, h)
<1>1. Class(q, h) = Class(o, h) /\ Current(w.model, q, h) = Current(w.model, o, h)
  BY SamePlaceFacts
<1>2. q.items = o.items
  BY DEF SamePlace
<1> QED BY <1>1, <1>2 DEF Wanted

(* The links of the chunk are paired with what has been fetched.            *)
SameRead(o, q) ==
  q.owners = o.owners /\ q.values = o.values /\ q.got = o.got

LEMMA PairedRead ==
  ASSUME NEW w, NEW o, NEW q, NEW h, SamePlace(o, q), SameRead(o, q), ReadOK(w, o, h),
         \/ q.read = o.read /\ q.pairs = o.pairs
         \/ q.read = {} /\ q.pairs = Paired(o, h) /\ o.values = {}
  PROVE  ReadOK(w, q, h)
<1> DEFINE r == Current(w.model, o, h)
           due == LinksDue(w, o, h, r)
<1>1. /\ Wanted(w, q, h, r) = Wanted(w, o, h, r) /\ Class(q, h) = Class(o, h)
      /\ Current(w.model, q, h) = r
  BY WantedSame
<1>2. LinksDue(w, q, h, r) = due
  BY <1>1 DEF LinksDue, SameRead
<1>3. ASSUME r.type # "many-to-many" PROVE ReadByColumn(w, q, h, r)
  <2>1. ReadByColumn(w, o, h, r)
    BY <1>3 DEF ReadOK
  <2> QED BY <1>1, <2>1 DEF ReadByColumn, SameRead
<1>4. ASSUME r.type = "many-to-many" PROVE ReadThroughLinks(w, q, h, r)
  <2>1. ReadThroughLinks(w, o, h, r)
    BY <1>4 DEF ReadOK
  <2> HIDE DEF r, due
  <2>2. CASE q.read = o.read /\ q.pairs = o.pairs
    BY <1>1, <1>2, <2>1, <2>2 DEF ReadThroughLinks, SameRead, due
  <2>3. CASE q.read = {} /\ q.pairs = Paired(o, h) /\ o.values = {}
    <3>1. /\ o.read \subseteq due /\ Keys(h, o.got) = Inverses(due) \cap TargetRows(w, r)
          /\ \A p \in o.pairs : [owner |-> p[1], inverse |-> h[p[2]].key] \in due
          /\ \A l \in due \ o.read : l.inverse \in TargetRows(w, r) =>
               \E x \in o.got : h[x].key = l.inverse /\ <<l.owner, x>> \in o.pairs
      BY <2>1, <2>3 DEF ReadThroughLinks, due
    <3>2. ASSUME NEW p \in q.pairs PROVE [owner |-> p[1], inverse |-> h[p[2]].key] \in due
      <4>1. p \in o.pairs \/ [owner |-> p[1], inverse |-> h[p[2]].key] \in o.read
        BY <2>3 DEF Paired
      <4> QED BY <3>1, <4>1
    <3>3. ASSUME NEW l \in due, l.inverse \in TargetRows(w, r)
          PROVE  \E x \in o.got : h[x].key = l.inverse /\ <<l.owner, x>> \in q.pairs
      <4>1. CASE l \in o.read
        <5>1. l = [owner |-> l.owner, inverse |-> l.inverse] /\ l.inverse \in Inverses(due)
          BY LinkFacts DEF due, LinksDue
        <5>2. PICK x \in o.got : h[x].key = l.inverse
          BY <3>1, <3>3, <5>1 DEF Keys
        <5> DEFINE p == <<l.owner, x>>
        <5>3. p \in {e.owner : e \in o.read} \X o.got /\ p[1] = l.owner /\ p[2] = x
          BY <4>1, <5>2
        <5> HIDE DEF p
        <5>4. [owner |-> p[1], inverse |-> h[p[2]].key] \in o.read
          BY <4>1, <5>1, <5>2, <5>3
        <5>5. p \in q.pairs
          BY <2>3, <5>3, <5>4 DEF Paired
        <5> QED BY <5>2, <5>5 DEF p
      <4>2. CASE l \notin o.read
        <5>1. PICK x \in o.got : h[x].key = l.inverse /\ <<l.owner, x>> \in o.pairs
          BY <3>1, <3>3, <4>2
        <5> QED BY <2>3, <5>1 DEF Paired
      <4> QED BY <4>1, <4>2
    <3> QED BY <1>1, <1>2, <2>1, <2>3, <3>1, <3>2, <3>3
            DEF ReadThroughLinks, SameRead, due
  <2> QED BY <2>2, <2>3
<1>5. r # Unset
  BY DEF ReadOK
<1> QED BY <1>1, <1>3, <1>4, <1>5 DEF ReadOK

(* What the declared model and the tables give a call that begins.          *)
Answerable(w) ==
  /\ Declarable(w.model) /\ Complete(w.model) /\ Accepted(w.model) /\ OneTableEach(w.model)
  /\ RowsOK(w.model, w.rows)
  /\ \A C \in DOMAIN w.rows : {Unset, Null} \cap DOMAIN w.rows[C] = {}

LEMMA ItemsLoaded ==
  ASSUME NEW m, WellFormed(m), NEW o, NEW h, Ready(m, o, h),
         NEW r, r = Current(m, o, h), r # Unset, NEW g, g = Assigned(o, h, r)
  PROVE  /\ r.prop = Head(o.segs) /\ Class(o, h) \in DOMAIN m.of
         /\ IsAssigned(h, g, o.items, r.prop)
         /\ \A i \in o.items :
              /\ i \in DOMAIN h /\ h[i].cls = Class(o, h)
              /\ r.prop \in DOMAIN g[i].rel /\ IsLoaded(m, o, h, g, r, i)
<1> DEFINE C == Class(o, h)
<1>1. o.items \subseteq DOMAIN h /\ \A i \in o.items : h[i].cls = C
  <2>1. o.items = Level(o, Len(o.above)) /\ Len(o.above) \in Depths(o) /\ o.items # {}
    BY DEF Ready, LevelsOK, CallOK, Depths, FetchedOK
  <2>2. PICK j \in o.items : C = h[j].cls
    BY <2>1 DEF Class
  <2> QED BY <2>1, <2>2 DEF Ready, LevelsOK
<1>2. r \in Items(Relations(m, C)) /\ o.items # {} /\ r = Relation(m, C, Head(o.segs))
  BY DEF Ready, FetchedOK, Current
<1>3. C \in DOMAIN m.of
  BY <1>1, <1>2 DEF Ready, HeapOK
<1>4. r.prop = Head(o.segs)
  BY <1>2, <1>3, FoundRelation
<1>5. Relation(m, C, r.prop) = r
  BY <1>2, <1>4
<1>6. \A i \in o.items : i \in DOMAIN h /\ r.prop \in DOMAIN h[i].rel
  BY <1>1, <1>2 DEF Ready, HeapOK
<1>7. /\ IsAssigned(h, g, o.items, r.prop)
      /\ \A i \in o.items : g[i].rel[r.prop] = Loaded(o, h, r, i)
  BY <1>6, AssignedShape DEF Ready, HeapOK
<1> HIDE DEF C
<1>8. ASSUME NEW i \in o.items
      PROVE  r.prop \in DOMAIN g[i].rel /\ IsLoaded(m, o, h, g, r, i)
  BY <1>1, <1>5, <1>6, <1>7 DEF IsAssigned, IsLoaded
<1> QED BY <1>1, <1>3, <1>4, <1>7, <1>8 DEF C

(* The assignment: the items hold their rows, and the path goes on from     *)
(* what they were given.                                                    *)
LEMMA AssignGraph ==
  ASSUME SetsApart, NEW w, w.model = model, Answerable(w), NEW o, NEW h,
         Ready(w.model, o, h), o.kind = "find", StoredOK(w, h), ReadOK(w, o, h), AllRead(o),
         NEW E \in EagerPaths, NEW c, OnPath(w, E, c, o, h),
         NEW r, r = Current(w.model, o, h), NEW g, g = Assigned(o, h, r)
  PROVE  Remains(h, g) /\ StoredOK(w, g) /\ OnPath(w, E, c, Descend(o, Delivers(o, r)), g)
<1> DEFINE T == Delivers(o, r)
<1>1. WellFormed(w.model) /\ RowsOK(w.model, w.rows) /\ r # Unset
  BY DEF Answerable, RowsOK, ReadOK
<1>2. /\ Fetching(o) /\ HeapOK(w.model, h) /\ CallOK(o) /\ LevelsOK(o, h)
      /\ HooksOK(w.model, o, h) /\ FetchedOK(w.model, o, h)
  BY DEF Ready, Fetching
<1>3. /\ r.prop = Head(o.segs) /\ Class(o, h) \in DOMAIN w.model.of
      /\ IsAssigned(h, g, o.items, r.prop)
      /\ \A i \in o.items :
           /\ i \in DOMAIN h /\ h[i].cls = Class(o, h)
           /\ r.prop \in DOMAIN g[i].rel /\ IsLoaded(w.model, o, h, g, r, i)
  BY <1>1, ItemsLoaded
<1>4. Remains(h, g) /\ DOMAIN g = DOMAIN h
  BY <1>3 DEF IsAssigned, Remains
<1>5. /\ o.got \subseteq DOMAIN h /\ \A p \in o.pairs : p[2] \in o.got
      /\ \A x \in o.got : /\ h[x].cls = r.target
                          /\ h[x].hooked = IF Deferred(o) THEN 0 ELSE 1
                          /\ \A y \in o.got : h[x].key = h[y].key => x = y
  BY <1>2 DEF FetchedOK
<1>6. IsFiniteSet(TargetRows(w, r)) /\ {Unset, Null} \cap TargetRows(w, r) = {}
  <2>1. r.target \in DOMAIN w.model.of
    BY <1>1, <1>3, FoundRelation DEF Current
  <2>2. r.target \in DOMAIN w.rows
    BY <1>1, <2>1 DEF RowsOK
  <2> QED BY <1>1, <2>2 DEF RowsOK, TargetRows, Answerable
<1>7. DOMAIN h \subseteq Nat
  BY <1>2 DEF HeapOK, Instances
<1>8. ASSUME NEW i \in o.items
      PROVE  Matches(w, g, i, r.prop) /\ Answers(w, g, i, r.prop)
  <2>1. Served(w, o, h, g, r, i)
    BY <1>3, <1>4, <1>5, <1>6, <1>7 DEF Served
  <2> QED BY <1>3, <1>5, <2>1, ServedMatches
<1>9. StoredOK(w, g)
  <2>1. ASSUME NEW i \in DOMAIN h, NEW p \in DOMAIN h[i].rel
        PROVE  g[i].rel[p] = h[i].rel[p] \/ Matches(w, g, i, p)
    <3>1. CASE i \in o.items /\ p = r.prop
      BY <1>8, <3>1
    <3>2. CASE ~ (i \in o.items /\ p = r.prop)
      BY <1>3, <3>2 DEF IsAssigned
    <3> QED BY <3>1, <3>2
  <2> QED BY <1>2, <1>4, <2>1, StoredKeeps
<1>10. /\ c \in 1..Len(E) /\ Begun(E, c, o) /\ Onward(o, E[c])
       /\ Finished(w, g, o.roots, E, c - 1, c) /\ Climbed(w, o, g, E[c])
  <2>1. \A i \in DOMAIN h :
          /\ g[i].hooked = h[i].hooked
          /\ i \notin o.items => g[i].rel = h[i].rel
          /\ \A p \in DOMAIN h[i].rel : p # Head(o.segs) => g[i].rel[p] = h[i].rel[p]
    BY <1>3 DEF IsAssigned
  <2> QED BY <1>2, <1>4, <2>1, LoadingKeeps
<1>11. T \subseteq o.got
  BY <1>5 DEF Delivers
<1>12. Leads(w, g, Head(o.segs), o.items, T)
  <2>1. \A i \in o.items : Targets(w.model, g, i, r.prop) \subseteq T
    BY <1>3, LoadedTargets
  <2> QED BY <1>3, <1>8, <2>1 DEF Leads
<1>13. Len(o.segs) = 1 => \A i \in T : g[i].hooked = 1
  <2>1. Len(o.segs) = 1 => ~ Deferred(o)
    BY DEF Deferred
  <2> QED BY <1>3, <1>5, <1>11, <2>1 DEF IsAssigned
<1> HIDE DEF T
<1>14. T \subseteq DOMAIN g /\ DOMAIN h \subseteq DOMAIN g
  BY <1>4, <1>5, <1>11
<1>15. OnPath(w, E, c, Descend(o, T), g)
  BY <1>2, <1>10, <1>12, <1>13, <1>14, DescendPath
<1> QED BY <1>4, <1>9, <1>15 DEF T

(* What a step towards loading a relation leaves of the graph.              *)
Onwards(w, E, c, q, g) ==
  /\ StoredOK(w, g) /\ OnPath(w, E, c, q, g)
  /\ Loading(q) => ReadOK(w, q, g) /\ LinksFirst(w, q, g)

LEMMA ProceedGraph ==
  ASSUME SetsApart, NEW w, w.model = model, Answerable(w), NEW o, NEW h,
         Ready(model, o, h), o.kind = "find", StoredOK(w, h), ReadOK(w, o, h),
         NEW E \in EagerPaths, NEW c, OnPath(w, E, c, o, h)
  PROVE  LET q == Proceed(o, h)[1]
             g == Proceed(o, h)[2]
         IN  Onwards(w, E, c, q, g) /\ Remains(h, g) /\ q.roots = o.roots /\ q.kind = o.kind
<1> DEFINE r    == Current(model, o, h)
           full == [o EXCEPT !.pairs = Paired(o, h), !.read = {}]
           q    == Proceed(o, h)[1]
           g    == Proceed(o, h)[2]
<1>1. /\ DOMAIN o = CallFields /\ Fetching(o) /\ FetchedOK(model, o, h)
      /\ CallOK(o) /\ LevelsOK(o, h) /\ KindOK(o) /\ HooksOK(model, o, h)
      /\ HeapOK(model, h) /\ BatchesOK(model, h, o.loads - 1)
      /\ Context(o, Len(o.above) + Nested(o))
  BY DEF Ready, Fetching, CallOK
<1>2. Remains(h, h)
  BY DEF Remains
<1>3. /\ SamePlace(o, full) /\ SameRead(o, full) /\ full.read = {}
      /\ full.pairs = Paired(o, h) /\ full.phase = o.phase
  <2> DEFINE P == Paired(o, h)
  <2>1. full = [o EXCEPT !.pairs = P, !.read = {}]
    OBVIOUS
  <2> HIDE DEF P, full
  <2>2. /\ SamePlace(o, full) /\ SameRead(o, full) /\ full.read = {}
        /\ full.pairs = P /\ full.phase = o.phase
    BY <1>1, <2>1 DEF SamePlace, SameRead, CallFields
  <2> QED BY <2>2 DEF P
<1> HIDE DEF full
<1>4. o.values = {} => ReadOK(w, full, h)
  BY <1>3, PairedRead
<1>5. CASE o.values # {}
  <2>1. q = [o EXCEPT !.phase = "fetch"] /\ g = h
    BY <1>5 DEF Proceed
  <2> HIDE DEF q, g
  <2>2. /\ SamePlace(o, q) /\ SameRead(o, q) /\ q.read = o.read /\ q.pairs = o.pairs
        /\ q.phase = "fetch"
    BY <1>1, <2>1 DEF SamePlace, SameRead, CallFields
  <2>3. ReadOK(w, q, h) /\ LinksFirst(w, q, h)
    BY <2>2, PairedRead DEF LinksFirst
  <2>4. OnPath(w, E, c, q, h)
    BY <1>1, <2>2, OnPathSame DEF SamePlace, Fetching
  <2> QED BY <1>2, <2>1, <2>2, <2>3, <2>4 DEF Onwards, SamePlace, q, g
<1>6. CASE o.values = {} /\ o.owners # {}
  <2>1. q = [full EXCEPT !.phase = "links"] /\ g = h
    BY <1>6 DEF Proceed, full
  <2> HIDE DEF q, g
  <2>2. /\ SamePlace(o, q) /\ SameRead(o, q) /\ q.read = {} /\ q.pairs = Paired(o, h)
        /\ q.phase = "links"
    BY <1>3, <2>1 DEF SamePlace, SameRead, CallFields
  <2>3. ReadOK(w, q, h)
    BY <1>6, <2>2, PairedRead
  <2>4. LinksFirst(w, q, h)
    <3>1. r.type = "many-to-many"
      BY <1>6 DEF ReadOK, ReadByColumn
    <3>2. Current(w.model, q, h) = r
      BY <2>2, SamePlaceFacts
    <3> QED BY <1>6, <2>2, <3>1, <3>2 DEF LinksFirst, SameRead
  <2>5. OnPath(w, E, c, q, h)
    BY <1>1, <2>2, OnPathSame DEF SamePlace, Fetching
  <2> QED BY <1>2, <2>1, <2>2, <2>3, <2>4, <2>5 DEF Onwards, SamePlace, q, g
<1>7. CASE o.values = {} /\ o.owners = {}
  <2>1. Ready(model, full, h) /\ r = Current(model, full, h) /\ full.kind = "find"
        /\ full.roots = o.roots /\ DOMAIN full = CallFields
    <3>1. full.phase \in {"open", "links", "fetch"} /\ \A e \in full.pairs : e[2] \in full.got
      BY <1>1, <1>3 DEF Paired, FetchedOK, SameRead, Fetching
    <3>2. /\ CallOK(full) /\ LevelsOK(full, h) /\ KindOK(full) /\ HooksOK(model, full, h)
          /\ FetchedOK(model, full, h) /\ r = Current(model, full, h)
      BY <1>1, <1>3, <3>1, SamePlaceFacts DEF SameRead, Fetching
    <3>3. Context(full, Len(o.above) + Nested(o)) /\ Nested(full) = Nested(o)
          /\ full.above = o.above /\ full.loads = o.loads /\ full.items = o.items
          /\ full.roots = o.roots /\ full.kind = o.kind /\ DOMAIN full = CallFields
      BY <1>1, <1>3, SamePlaceFacts DEF SamePlace
    <3> QED BY <1>1, <3>1, <3>2, <3>3 DEF Ready
  <2>2. g = Assigned(full, h, r) /\ q = Descend(full, Delivers(full, r))
    BY <1>7 DEF Proceed, full, Delivers
  <2>3. OnPath(w, E, c, full, h)
    BY <1>1, <1>3, OnPathSame DEF SamePlace, Fetching
  <2>4. AllRead(full)
    BY <1>3, <1>7 DEF AllRead, SameRead
  <2> HIDE DEF q, g, r
  <2>5. Remains(h, g) /\ StoredOK(w, g) /\ OnPath(w, E, c, Descend(full, Delivers(full, r)), g)
    BY <1>4, <1>7, <2>1, <2>2, <2>3, <2>4, AssignGraph
  <2>6. q.roots = o.roots /\ q.kind = o.kind /\ ~ Loading(q)
    <3> DEFINE T == Delivers(full, r)
    <3>1. q = Descend(full, T)
      BY <2>2
    <3> HIDE DEF T
    <3>2. \/ q = [full EXCEPT !.phase = "open", !.items = T, !.segs = Tail(@),
                              !.above = Append(@, T)]
          \/ q = [full EXCEPT !.phase = "unwind"]
      BY <2>1, <3>1 DEF Descend
    <3>3. q.roots = full.roots /\ q.kind = full.kind /\ q.phase \in {"open", "unwind"}
      BY <2>1, <3>2 DEF CallFields
    <3> QED BY <2>1, <3>3 DEF Loading
  <2> QED BY <2>2, <2>5, <2>6 DEF Onwards, q, g
<1> QED BY <1>5, <1>6, <1>7

LEMMA GraphOn ==
  ASSUME NEW w, WellFormed(w.model), NEW o, NEW h, HeapOK(w.model, h), GraphOK(w, o, h),
         o.roots \subseteq DOMAIN h, o.roots # {}, NEW q, NEW g, q.roots = o.roots, Remains(h, g),
         \A E \in EagerPaths : \A c : OnPath(w, E, c, o, h) => Onwards(w, E, c, q, g)
  PROVE  GraphOK(w, q, g)
<1>1. ASSUME NEW i \in o.roots
      PROVE  \E c : Onwards(w, w.model.of[g[i].cls].eager, c, q, g)
  <2> DEFINE E == w.model.of[h[i].cls].eager
  <2>1. h[i].cls \in DOMAIN w.model.of /\ g[i].cls = h[i].cls
    BY DEF HeapOK, Remains
  <2>2. E \in EagerPaths
    BY <2>1 DEF WellFormed, EagerPaths
  <2>3. PICK c : OnPath(w, E, c, o, h)
    BY DEF GraphOK
  <2>4. Onwards(w, E, c, q, g)
    BY <2>2, <2>3
  <2> QED BY <2>1, <2>4
<1>2. PICK i \in o.roots : TRUE
  OBVIOUS
<1>3. StoredOK(w, g) /\ (Loading(q) => ReadOK(w, q, g) /\ LinksFirst(w, q, g))
  BY <1>1, <1>2 DEF Onwards
<1> QED BY <1>1, <1>3 DEF GraphOK, Onwards

(* What is loaded stays when nothing but hooks are called.                  *)
LEMMA FinishedKeeps ==
  ASSUME NEW w, NEW h, NEW g, HeapOK(w.model, h), Remains(h, g), NEW I, I \subseteq DOMAIN h,
         NEW E \in EagerPaths, NEW n \in 0..Len(E), NEW c, Finished(w, h, I, E, n, c),
         \A i \in DOMAIN h : g[i].rel = h[i].rel /\ (h[i].hooked = 1 => g[i].hooked = 1)
  PROVE  Finished(w, g, I, E, n, c)
<1> SUFFICES ASSUME NEW j \in 1..n, ~ Replaced(E, j, c) PROVE Trail(w, g, I, E[j], {})
  BY DEF Finished
<1>1. Trail(w, h, I, E[j], {})
  BY DEF Finished
<1>2. j \in 1..Len(E)
  BY DEF EagerPaths
<1>3. Len(E[j]) \in Nat
  BY <1>2, PathOf
<1> QED BY <1>1, <1>3, TrailKeeps

LEMMA HookedStored ==
  ASSUME NEW w, NEW h, HeapOK(w.model, h), StoredOK(w, h), NEW I, NEW o,
         NEW g, g = Hooked(h, I, o), \A i \in I : h[i].hooked = 0
  PROVE  /\ Remains(h, g) /\ StoredOK(w, g)
         /\ \A i \in DOMAIN h :
              /\ g[i].rel = h[i].rel
              /\ h[i].hooked = 1 \/ i \in I => g[i].hooked = 1
<1>1. IsHooked(h, g, I, Executor(o, FALSE))
  BY HookedShape DEF HeapOK
<1>2. Remains(h, g) /\ DOMAIN g = DOMAIN h /\ \A i \in DOMAIN h : g[i].rel = h[i].rel
  BY <1>1 DEF IsHooked, Remains
<1>3. \A i \in DOMAIN h : /\ i \in I => g[i].hooked = h[i].hooked + 1
                          /\ i \notin I => g[i].hooked = h[i].hooked
  BY <1>1 DEF IsHooked
<1>4. \A i \in DOMAIN h : h[i].hooked = 1 \/ i \in I => g[i].hooked = 1
  BY <1>3
<1> QED BY <1>2, <1>4, StoredKeeps

(* The next path begins at the roots; with the last, all are there.         *)
LEMMA NextPathGraph ==
  ASSUME IInv, NextPath, op.kind = "find", NEW w, w.model = model, GraphOK(w, op, heap)
  PROVE  GraphOK(w, op', heap')
<1>1. op.phase = "path"
  BY DEF NextPath
<1>2. /\ HeapOK(model, heap) /\ CallOK(op) /\ LevelsOK(op, heap)
      /\ HooksOK(model, op, heap) /\ DOMAIN op = CallFields /\ WellFormed(model)
  BY <1>1, LiveState DEF IInv, RowsOK
<1>3. op.above = <<>> /\ Depths(op) = {0} /\ Level(op, 0) = op.roots
  BY <1>1, <1>2 DEF LevelsOK, Depths, Level
<1>4. op.roots \subseteq DOMAIN heap /\ \A i \in op.roots : heap[i].hooked = 0
  BY <1>2, <1>3 DEF LevelsOK, HooksOK
<1>5. StoredOK(w, heap)
  BY DEF GraphOK
<1>6. CASE op.todo = <<>> \/ op.roots = {}
  <2>1. /\ heap' = Hooked(heap, op.roots, op)
        /\ op' = [op EXCEPT !.phase = "ended", !.outcome = "ok"]
    BY <1>6 DEF NextPath, Ended, Strict
  <2>2. /\ op'.phase = "ended" /\ op'.roots = op.roots /\ op'.todo = op.todo
        /\ op'.above = op.above /\ op'.segs = op.segs
    BY <1>2, <2>1 DEF CallFields
  <2>3. heap' = Hooked(heap, op.roots, op)
    BY <2>1
  <2>4. /\ Remains(heap, heap') /\ StoredOK(w, heap')
        /\ \A i \in DOMAIN heap :
             heap'[i].rel = heap[i].rel /\ (heap[i].hooked = 1 => heap'[i].hooked = 1)
    BY <1>2, <1>4, <1>5, <2>3, HookedStored
  <2>5. ~ Loading(op')
    BY <2>2 DEF Loading
  <2>6. CASE op.roots = {}
    BY <2>2, <2>4, <2>5, <2>6 DEF GraphOK
  <2>7. CASE op.roots # {}
    <3>1. ASSUME NEW E \in EagerPaths, NEW c, OnPath(w, E, c, op, heap)
          PROVE  Onwards(w, E, c, op', heap')
      <4>1. Begun(E, c, op) /\ Finished(w, heap, op.roots, E, c, c) /\ c \in 0..Len(E)
        BY <1>1, <3>1 DEF OnPath, Begun
      <4>2. Finished(w, heap', op.roots, E, c, c)
        BY <1>2, <1>4, <2>4, <4>1, FinishedKeeps
      <4>3. Begun(E, c, op') /\ op'.todo = <<>>
        BY <1>6, <2>2, <2>7, <4>1 DEF Begun
      <4>4. OnPath(w, E, c, op', heap')
        BY <2>2, <4>2, <4>3 DEF OnPath, Fetching
      <4> QED BY <2>4, <2>5, <4>4 DEF Onwards
    <3> QED BY <1>2, <1>4, <2>2, <2>4, <2>7, <3>1, GraphOn
  <2> QED BY <2>6, <2>7
<1>7. CASE ~ (op.todo = <<>> \/ op.roots = {})
  <2>1. /\ op' = [op EXCEPT !.phase = "open", !.segs = Head(op.todo), !.todo = Tail(@),
                            !.items = op.roots]
        /\ heap' = heap
    BY <1>7 DEF NextPath
  <2>2. /\ op'.phase = "open" /\ op'.segs = Head(op.todo)
        /\ op'.todo = Tail(op.todo) /\ op'.roots = op.roots /\ op'.above = op.above
    BY <1>2, <2>1 DEF CallFields
  <2>3. /\ Len(op.todo) \in Nat /\ Len(op.todo) > 0 /\ Head(op.todo) = op.todo[1]
        /\ Len(op'.todo) = Len(op.todo) - 1
        /\ \A n \in 1..Len(op'.todo) : op'.todo[n] = op.todo[n + 1]
    <3> DEFINE t == op.todo
    <3>1. t \in Seq(Seq(STRING) \ {<<>>}) /\ t # <<>>
      BY <1>2, <1>7 DEF CallOK
    <3> HIDE DEF t
    <3>2. /\ Len(t) \in Nat /\ Len(t) > 0 /\ Head(t) = t[1] /\ Len(Tail(t)) = Len(t) - 1
          /\ \A n \in 1..Len(Tail(t)) : Tail(t)[n] = t[n + 1]
      BY <3>1
    <3> QED BY <2>2, <3>2 DEF t
  <2>4. Remains(heap, heap) /\ ~ Loading(op')
    BY <2>2 DEF Remains, Loading
  <2>5. ASSUME NEW E \in EagerPaths, NEW c, OnPath(w, E, c, op, heap)
        PROVE  OnPath(w, E, c + 1, op', heap)
    <3>1. Begun(E, c, op) /\ Finished(w, heap, op.roots, E, c, c)
      BY <1>1, <2>5 DEF OnPath
    <3>2. /\ c \in 0..Len(E) /\ Len(op.todo) = Len(E) - c /\ Len(E) \in Nat
          /\ \A n \in 1..Len(op.todo) : op.todo[n] = E[c + n]
      BY <3>1 DEF Begun, EagerPaths
    <3>3. c + 1 \in 1..Len(E) /\ c + 1 > 0 /\ (c + 1) - 1 = c /\ Len(op'.todo) = Len(E) - (c + 1)
      <4> DEFINE k == Len(op.todo)
                 l == Len(op'.todo)
                 N == Len(E)
      <4>1. k \in Nat /\ k > 0 /\ l = k - 1 /\ N \in Nat /\ c \in 0..N /\ k = N - c
        BY <2>3, <3>2
      <4> HIDE DEF k, l, N
      <4>2. c + 1 \in 1..N /\ c + 1 > 0 /\ (c + 1) - 1 = c /\ l = N - (c + 1)
        BY <4>1
      <4> QED BY <4>2 DEF k, l, N
    <3>4. ASSUME NEW n \in 1..Len(op'.todo) PROVE op'.todo[n] = E[(c + 1) + n]
      <4>1. n + 1 \in 1..Len(op.todo) /\ c + (n + 1) = (c + 1) + n
        BY <2>3, <3>2
      <4>2. op'.todo[n] = op.todo[n + 1] /\ op.todo[n + 1] = E[c + (n + 1)]
        BY <2>3, <3>2, <4>1
      <4> QED BY <4>1, <4>2
    <3>5. Begun(E, c + 1, op')
      BY <3>3, <3>4 DEF Begun
    <3>6. ASSUME NEW j \in 1..c, Replaced(E, j, c) PROVE Replaced(E, j, c + 1)
      <4>1. \A k \in (j + 1)..c : k \in (j + 1)..(c + 1)
        BY <3>2
      <4> QED BY <3>6, <4>1 DEF Replaced
    <3>7. Finished(w, heap, op'.roots, E, (c + 1) - 1, c + 1)
      BY <2>2, <3>1, <3>3, <3>6 DEF Finished
    <3>8. op'.segs = E[c + 1]
      <4>1. 1 \in 1..Len(op.todo)
        BY <2>3
      <4> QED BY <2>2, <2>3, <3>2, <4>1
    <3>9. Len(op'.above) = 0 /\ Len(E[c + 1]) \in Nat
      BY <1>3, <2>2, <3>3, PathOf
    <3>10. Onward(op', E[c + 1]) /\ Climbed(w, op', heap, E[c + 1])
      BY <3>8, <3>9 DEF Onward, Climbed
    <3> QED BY <2>2, <3>3, <3>5, <3>7, <3>10 DEF OnPath, Fetching
  <2>6. ASSUME NEW i \in op'.roots
        PROVE  \E c : OnPath(w, w.model.of[heap'[i].cls].eager, c, op', heap')
    <3> DEFINE E == w.model.of[heap[i].cls].eager
    <3>1. E \in EagerPaths
      BY <1>2, <1>4, <2>2 DEF HeapOK, WellFormed, EagerPaths
    <3>2. PICK c : OnPath(w, E, c, op, heap)
      BY <2>2 DEF GraphOK
    <3>3. OnPath(w, E, c + 1, op', heap)
      BY <2>5, <3>1, <3>2
    <3> QED BY <2>1, <3>3
  <2> QED BY <1>5, <2>1, <2>4, <2>6 DEF GraphOK
<1> QED BY <1>6, <1>7

LEMMA NoOwnersGraph ==
  ASSUME IInv, NoOwners, NEW w, w.model = model, GraphOK(w, op, heap)
  PROVE  GraphOK(w, op', heap')
<1>1. op.phase = "open" /\ op.items = {} /\ op' = [op EXCEPT !.phase = "unwind"] /\ heap' = heap
  BY DEF NoOwners
<1>2. /\ HeapOK(model, heap) /\ CallOK(op) /\ LevelsOK(op, heap)
      /\ DOMAIN op = CallFields /\ WellFormed(model)
  BY <1>1, LiveState DEF IInv, RowsOK
<1>3. op'.phase = "unwind" /\ op'.roots = op.roots /\ ~ Loading(op')
  BY <1>1, <1>2 DEF CallFields, Loading
<1>4. op.roots \subseteq DOMAIN heap /\ op.roots # {}
  <2>1. 0 \in Depths(op) /\ Level(op, 0) = op.roots
    BY <1>2 DEF Depths, Level, CallOK
  <2> QED BY <1>1, <1>2, <2>1 DEF LevelsOK
<1>5. Remains(heap, heap) /\ StoredOK(w, heap)
  BY DEF Remains, GraphOK
<1>6. ASSUME NEW E \in EagerPaths, NEW c, OnPath(w, E, c, op, heap)
      PROVE  Onwards(w, E, c, op', heap)
  <2>1. OnPath(w, E, c, op', heap)
    BY <1>1, <1>2, <1>6, NoOwnersPath
  <2> QED BY <1>3, <1>5, <2>1 DEF Onwards
<1> QED BY <1>1, <1>2, <1>3, <1>4, <1>5, <1>6, GraphOn

(* On the way back the hooks of a level are called; after the last, the     *)
(* path is loaded.                                                          *)
LEMMA UnwindGraph ==
  ASSUME IInv, Unwind, NEW w, w.model = model, GraphOK(w, op, heap)
  PROVE  GraphOK(w, op', heap')
<1>1. op.phase = "unwind"
  BY DEF Unwind
<1>2. /\ HeapOK(model, heap) /\ CallOK(op) /\ LevelsOK(op, heap) /\ KindOK(op)
      /\ HooksOK(model, op, heap) /\ DOMAIN op = CallFields /\ WellFormed(model)
  BY <1>1, LiveState DEF IInv, RowsOK
<1>3. /\ op.kind = "find" /\ op.above \in Seq(SUBSET Nat) /\ Len(op.above) \in Nat
      /\ op.roots # {} /\ op.roots \subseteq DOMAIN heap
  <2>1. op.kind = "find" /\ op.above \in Seq(SUBSET Nat) /\ op.roots # {}
    BY <1>1, <1>2 DEF KindOK, CallOK, LevelsOK
  <2>2. 0 \in Depths(op) /\ Level(op, 0) = op.roots
    BY <2>1 DEF Depths, Level
  <2> QED BY <1>2, <2>1, <2>2 DEF LevelsOK
<1>4. StoredOK(w, heap)
  BY DEF GraphOK
<1>5. CASE op.above = <<>>
  <2>1. op' = [op EXCEPT !.phase = "path"] /\ heap' = heap
    BY <1>5 DEF Unwind
  <2>2. op'.phase = "path" /\ op'.roots = op.roots /\ op'.todo = op.todo /\ ~ Loading(op')
    BY <1>2, <2>1 DEF CallFields, Loading
  <2>3. Remains(heap, heap) /\ Waiting(op) = {}
    BY <1>5 DEF Remains, Waiting
  <2>4. ASSUME NEW E \in EagerPaths, NEW c, OnPath(w, E, c, op, heap)
        PROVE  Onwards(w, E, c, op', heap)
    <3>1. /\ Begun(E, c, op) /\ c > 0 /\ Finished(w, heap, op.roots, E, c - 1, c)
          /\ Trail(w, heap, op.roots, E[c], {})
      BY <1>1, <2>3, <2>4 DEF OnPath
    <3>2. \A j \in 1..c : j \in 1..(c - 1) \/ j = c
      BY <3>1 DEF Begun, EagerPaths
    <3>3. Finished(w, heap, op.roots, E, c, c)
      BY <3>1, <3>2 DEF Finished
    <3>4. OnPath(w, E, c, op', heap)
      BY <2>2, <3>1, <3>3 DEF OnPath, Begun, Fetching
    <3> QED BY <1>4, <2>2, <3>4 DEF Onwards
  <2> QED BY <1>2, <1>3, <2>1, <2>2, <2>3, <2>4, GraphOn
<1>6. CASE op.above # <<>>
  <2> DEFINE N == Len(op.above)
             I == Last(op.above)
  <2>1. /\ I = Level(op, N) /\ N \in Depths(op) /\ N > 0
    BY <1>6, UnwindStep
  <2>2. I = op.above[N] /\ heap' = Hooked(heap, I, op)
    BY <1>6, <2>1 DEF Level, Unwind
  <2>3. op' = [op EXCEPT !.above = Front(@), !.ctx = IF op.trx THEN @ - 1 ELSE @]
    BY <1>6 DEF Unwind
  <2> HIDE DEF I
  <2>4. /\ op'.phase = "unwind" /\ op'.above = Front(op.above)
        /\ op'.roots = op.roots /\ op'.todo = op.todo /\ ~ Loading(op')
    BY <1>1, <1>2, <2>3 DEF CallFields, Loading
  <2>5. /\ Len(op'.above) = N - 1 /\ \A n \in 1..(N - 1) : op'.above[n] = op.above[n]
    <3>1. Front(op.above) = SubSeq(op.above, 1, N - 1)
      BY DEF Front
    <3> QED BY <1>3, <2>1, <2>4, <3>1
  <2>6. Waiting(op) = Waiting(op') \cup I
    <3>1. \A n \in 1..N : n \in 1..(N - 1) \/ n = N
      BY <1>3
    <3>2. \A n \in 1..(N - 1) : n \in 1..N
      BY <1>3
    <3>3. N \in 1..N
      BY <1>3, <2>1
    <3> HIDE DEF N
    <3> QED BY <2>2, <2>5, <3>1, <3>2, <3>3 DEF Waiting, N
  <2>7. \A i \in I : heap[i].hooked = 0
    BY <1>2, <1>3, <2>1 DEF HooksOK
  <2>8. /\ Remains(heap, heap') /\ StoredOK(w, heap')
        /\ \A i \in DOMAIN heap :
             /\ heap'[i].rel = heap[i].rel
             /\ heap[i].hooked = 1 \/ i \in I => heap'[i].hooked = 1
    BY <1>2, <1>4, <2>2, <2>7, HookedStored
  <2>9. ASSUME NEW E \in EagerPaths, NEW c, OnPath(w, E, c, op, heap)
        PROVE  Onwards(w, E, c, op', heap')
    <3>1. /\ Begun(E, c, op) /\ c > 0 /\ Finished(w, heap, op.roots, E, c - 1, c)
          /\ Trail(w, heap, op.roots, E[c], Waiting(op))
      BY <1>1, <2>9 DEF OnPath
    <3>2. c - 1 \in 0..Len(E) /\ c \in 1..Len(E)
      BY <3>1 DEF Begun, EagerPaths
    <3>3. Finished(w, heap', op.roots, E, c - 1, c)
      BY <1>2, <1>3, <2>8, <3>1, <3>2, FinishedKeeps
    <3>4. Len(E[c]) \in Nat
      BY <3>2, PathOf
    <3>5. \A i \in DOMAIN heap : heap[i].hooked = 1 \/ i \in Waiting(op) =>
            heap'[i].rel = heap[i].rel /\ (heap'[i].hooked = 1 \/ i \in Waiting(op'))
      BY <2>6, <2>8
    <3>6. Trail(w, heap', op.roots, E[c], Waiting(op'))
      BY <1>2, <1>3, <2>8, <3>1, <3>4, <3>5, TrailKeeps
    <3>7. OnPath(w, E, c, op', heap')
      BY <2>4, <3>1, <3>3, <3>6 DEF OnPath, Begun, Fetching
    <3> QED BY <2>4, <2>8, <3>7 DEF Onwards
  <2> QED BY <1>2, <1>3, <2>4, <2>8, <2>9, GraphOn
<1> QED BY <1>5, <1>6

(* When a chunk has been read or an assignment made.                        *)
LEMMA ContinueGraph ==
  ASSUME SetsApart, NEW w, w.model = model, Answerable(w), NEW o, NEW h,
         HeapOK(model, h), GraphOK(w, o, h), o.roots \subseteq DOMAIN h, o.roots # {},
         NEW q, NEW g, Ready(model, q, g), q.kind = "find", q.roots = o.roots,
         Remains(h, g), StoredOK(w, g), ReadOK(w, q, g),
         \A E \in EagerPaths : \A c : OnPath(w, E, c, o, h) => OnPath(w, E, c, q, g),
         Continue(q, g)
  PROVE  GraphOK(w, op', heap')
<1>1. WellFormed(model)
  BY DEF Answerable, Declarable
<1>2. op' = Proceed(q, g)[1] /\ heap' = Proceed(q, g)[2]
  BY DEF Continue
<1>3. ASSUME NEW E \in EagerPaths, NEW c, OnPath(w, E, c, o, h)
      PROVE  Onwards(w, E, c, op', heap') /\ Remains(g, heap') /\ op'.roots = o.roots
  <2>1. OnPath(w, E, c, q, g)
    BY <1>3
  <2> QED BY <1>2, <2>1, ProceedGraph
<1>4. Remains(g, heap') /\ op'.roots = o.roots
  <2>1. PICK i \in o.roots : TRUE
    OBVIOUS
  <2> DEFINE E == w.model.of[h[i].cls].eager
  <2>2. E \in EagerPaths
    BY <1>1, <2>1 DEF HeapOK, WellFormed, EagerPaths
  <2>3. PICK c : OnPath(w, E, c, o, h)
    BY <2>1 DEF GraphOK
  <2> QED BY <1>3, <2>2, <2>3
<1>5. Remains(h, heap')
  BY <1>4 DEF Remains
<1> QED BY <1>1, <1>3, <1>4, <1>5, GraphOn

LEMMA DescendKeeps ==
  ASSUME NEW o, NEW T, DOMAIN o = CallFields, o.kind = "find"
  PROVE  Descend(o, T).roots = o.roots /\ ~ Loading(Descend(o, T))
<1> DEFINE q == Descend(o, T)
<1>1. \/ q = [o EXCEPT !.phase = "open", !.items = T, !.segs = Tail(@), !.above = Append(@, T)]
      \/ q = [o EXCEPT !.phase = "unwind"]
  BY DEF Descend
<1> HIDE DEF q
<1>2. q.roots = o.roots /\ q.phase \in {"open", "unwind"}
  BY <1>1 DEF CallFields
<1> QED BY <1>2 DEF Loading, q

(* What the items of a call are, and their relation.                        *)
LEMMA ItemsStored ==
  ASSUME IInv, Fetching(op), op.items # {}, NEW w, w.model = model, Answerable(w),
         GraphOK(w, op, heap), NEW r, r = Current(model, op, heap), r # Unset
  PROVE  /\ op.items \subseteq DOMAIN heap /\ Class(op, heap) \in Registered(model)
         /\ r \in Items(Relations(model, Class(op, heap)))
         /\ r.prop = Head(op.segs) /\ Relation(model, Class(op, heap), r.prop) = r
         /\ r.target \in Registered(model) /\ r.target \in DOMAIN model.of
         /\ op.roots \subseteq DOMAIN heap /\ op.roots # {}
         /\ \A i \in op.items :
              Stored(w, heap, i) /\ heap[i].cls = Class(op, heap) /\ r.prop \in DOMAIN heap[i].rel
<1>1. /\ HeapOK(model, heap) /\ CallOK(op) /\ LevelsOK(op, heap) /\ WellFormed(model)
  BY LiveState DEF Fetching, IInv, RowsOK
<1>2. /\ op.items \subseteq DOMAIN heap /\ op.items = Level(op, Len(op.above))
      /\ Len(op.above) \in Depths(op)
  BY <1>1, OwnersClass DEF Fetching
<1>3. PICK j \in op.items : Class(op, heap) = heap[j].cls
  BY DEF Class
<1>4. \A i \in op.items : Stored(w, heap, i) /\ heap[i].cls = Class(op, heap)
  BY <1>1, <1>2, <1>3 DEF LevelsOK, GraphOK, StoredOK
<1>5. Class(op, heap) \in Registered(model)
  BY <1>3, <1>4 DEF Stored
<1>6. /\ r \in Items(Relations(model, Class(op, heap))) /\ r.prop = Head(op.segs)
      /\ r = Relation(model, Class(op, heap), Head(op.segs))
  BY <1>1, <1>5, FoundRelation DEF Current, Registered
<1>7. r.target \in Registered(model) /\ r.target \in DOMAIN model.of
  BY <1>1, <1>5, <1>6, TargetRegistered DEF Answerable
<1>8. op.roots \subseteq DOMAIN heap /\ op.roots # {}
  <2>1. 0 \in Depths(op) /\ Level(op, 0) = op.roots
    BY <1>1 DEF Depths, Level, CallOK
  <2> QED BY <1>1, <2>1 DEF LevelsOK, Fetching
<1>9. \A i \in op.items : r.prop \in DOMAIN heap[i].rel
  BY <1>1, <1>2, <1>4, <1>6 DEF HeapOK
<1> QED BY <1>2, <1>4, <1>5, <1>6, <1>7, <1>8, <1>9

(* A relation by a column that no item has a value in leads nowhere.        *)
LEMMA NothingWanted ==
  ASSUME NEW w, w.model = model, Answerable(w), NEW h, NEW i, Stored(w, h, i),
         NEW r, r = Relation(model, h[i].cls, r.prop), r.prop \in DOMAIN h[i].rel,
         r.type \notin {"one-to-many", "many-to-many"}, r.target \in DOMAIN model.of,
         ValueOf(h, i, r.joinColumn) \in {Unset, Null}
  PROVE  Answers(w, h, i, r.prop) /\ Targets(model, h, i, r.prop) = {}
<1> DEFINE I == Targets(model, h, i, r.prop)
           v == CellOf(w, h[i].cls, h[i].key, r.joinColumn)
<1>1. v \in {Unset, Null}
  BY ValueStored
<1>2. v \notin DOMAIN w.rows[r.target]
  BY <1>1 DEF Answerable, RowsOK
<1>3. RelatedOf(w, h, i, r.prop) = {v} \cap DOMAIN w.rows[r.target]
  BY DEF RelatedOf, RowsRelated
<1> HIDE DEF v
<1>4. RelatedOf(w, h, i, r.prop) = {}
  BY <1>2, <1>3
<1>5. ~ Many(model, h[i].cls, r.prop)
  BY DEF Many
<1>6. I = {}
  <2>1. CASE h[i].rel[r.prop] = Unset
    BY <2>1 DEF Targets
  <2>2. CASE Matches(w, h, i, r.prop)
    <3>1. Keys(h, I) = {}
      BY <1>4, <2>2 DEF Matches
    <3> HIDE DEF I
    <3> QED BY <3>1 DEF Keys
  <2> QED BY <2>1, <2>2 DEF Stored
<1> QED BY <1>4, <1>5, <1>6 DEF Answers

(* A relation begins to be loaded, or nothing is there to load.             *)
LEMMA OpenRelationGraph ==
  ASSUME SetsApart, IInv, OpenRelation, op.kind = "find", op'.phase # "ended",
         NEW w, w.model = model, Answerable(w), GraphOK(w, op, heap)
  PROVE  GraphOK(w, op', heap')
<1> DEFINE r      == Current(model, op, heap)
           o      == Opened(op)
           keys   == KeyValues(o, heap, r)
           owners == IF r.type = "many-to-many" THEN keys ELSE {}
           values == IF r.type = "many-to-many" THEN {} ELSE keys
           q      == Starting(o, owners, values)
<1>1. op.phase = "open" /\ op.items # {} /\ Fetching(op)
  BY DEF OpenRelation, Fetching
<1>2. /\ HeapOK(model, heap) /\ LevelsOK(op, heap) /\ CallOK(op) /\ HooksOK(model, op, heap)
      /\ DOMAIN op = CallFields /\ WellFormed(model)
  BY <1>1, LiveState DEF IInv, RowsOK
<1>3. /\ DOMAIN o = CallFields /\ o.phase = "open" /\ o.items = op.items /\ o.segs = op.segs
      /\ o.above = op.above /\ o.kind = "find" /\ o.roots = op.roots /\ o.todo = op.todo
      /\ CallOK(o) /\ LevelsOK(o, heap)
  BY <1>1, OpenState
<1>4. Class(o, heap) = Class(op, heap) /\ Current(model, o, heap) = r
  BY <1>3 DEF Class, Current
<1>5. \A outcome : Ended(outcome) => op'.phase = "ended"
  BY <1>2 DEF Ended, CallFields
<1>6. /\ r # Unset
      /\ \/ /\ keys = {} \/ (r.type = "many-to-many" /\ JoinTable(o, heap, r) = Unset)
            /\ op' = Descend(o, {}) /\ heap' = heap
         \/ Continue(q, heap)
  <2>1. \/ Ended("unknown relation") \/ Ended("configuration")
        \/ Ended("undefined") \/ Ended("mixing")
        \/ /\ r # Unset /\ (keys = {} \/ (r.type = "many-to-many" /\ JoinTable(o, heap, r) = Unset))
           /\ op' = Descend(o, {}) /\ heap' = heap
        \/ r # Unset /\ Continue(q, heap)
    BY DEF OpenRelation, Opened, Starting
  <2> HIDE DEF r, o, keys, q
  <2> QED BY <1>5, <2>1
<1> HIDE DEF o, q
<1>7. /\ op.items \subseteq DOMAIN heap /\ Class(op, heap) \in Registered(model)
      /\ r \in Items(Relations(model, Class(op, heap)))
      /\ r.prop = Head(op.segs) /\ Relation(model, Class(op, heap), r.prop) = r
      /\ r.target \in DOMAIN model.of
      /\ op.roots \subseteq DOMAIN heap /\ op.roots # {}
      /\ \A i \in op.items :
           /\ Stored(w, heap, i) /\ heap[i].cls = Class(op, heap)
           /\ r.prop \in DOMAIN heap[i].rel
  BY <1>1, <1>6, ItemsStored
<1> HIDE DEF r
<1>8. Remains(heap, heap) /\ StoredOK(w, heap) /\ Fetching(o)
  BY <1>3 DEF Remains, GraphOK, Fetching
<1>9. \A E, c : OnPath(w, E, c, op, heap) => OnPath(w, E, c, o, heap)
  BY <1>1, <1>3, <1>8, OnPathSame
<1>10. CASE op' = Descend(o, {}) /\ heap' = heap
            /\ (keys = {} \/ (r.type = "many-to-many" /\ JoinTable(o, heap, r) = Unset))
  <2>1. keys = {}
    <3>1. r.type = "many-to-many" => JoinTable(o, heap, r) # Unset
      BY <1>4, <1>7, ReadTable DEF JoinTable, ManyToMany, Answerable
    <3> QED BY <1>10, <3>1
  <2>2. r.type \notin {"one-to-many", "many-to-many"}
        /\ {ValueOf(heap, i, r.joinColumn) : i \in op.items} \subseteq {Unset, Null}
    BY <1>1, <1>3, <2>1 DEF KeyValues
  <2>3. \A i \in op.items : Answers(w, heap, i, r.prop) /\ Targets(model, heap, i, r.prop) = {}
    <3>1. \A i \in op.items : ValueOf(heap, i, r.joinColumn) \in {Unset, Null}
      BY <2>2
    <3> QED BY <1>7, <2>2, <3>1, NothingWanted
  <2>4. Leads(w, heap, Head(o.segs), o.items, {})
    BY <1>3, <1>7, <2>3 DEF Leads
  <2>5. ASSUME NEW E \in EagerPaths, NEW c, OnPath(w, E, c, op, heap)
        PROVE  Onwards(w, E, c, op', heap)
    <3>1. OnPath(w, E, c, o, heap)
      BY <1>9, <2>5
    <3>2. /\ c \in 1..Len(E) /\ Begun(E, c, o) /\ Onward(o, E[c]) /\ Climbed(w, o, heap, E[c])
          /\ Finished(w, heap, o.roots, E, c - 1, c)
      <4>1. o.phase \notin {"path", "ended"}
        BY <1>8 DEF Fetching
      <4>2. /\ c > 0 /\ Begun(E, c, o) /\ Onward(o, E[c]) /\ Climbed(w, o, heap, E[c])
            /\ Finished(w, heap, o.roots, E, c - 1, c)
        BY <1>8, <3>1, <4>1 DEF OnPath
      <4>3. Len(E) \in Nat /\ c \in 0..Len(E)
        BY <4>2 DEF Begun, EagerPaths
      <4> QED BY <4>2, <4>3
    <3>3. OnPath(w, E, c, Descend(o, {}), heap)
      BY <1>3, <1>8, <2>4, <3>2, DescendPath
    <3> QED BY <1>3, <1>8, <1>10, <3>3, DescendKeeps DEF Onwards
  <2>6. op'.roots = op.roots
    BY <1>3, <1>10, DescendKeeps
  <2> QED BY <1>2, <1>7, <1>8, <1>10, <2>5, <2>6, GraphOn
<1>11. CASE Continue(q, heap)
  <2>1. q = Starting(o, owners, values)
    BY DEF q
  <2> HIDE DEF owners, values
  <2>2. Ready(model, q, heap) /\ SamePlace(o, q)
    BY <1>1, <1>6, <2>1, StartingReady DEF o, r
  <2>3. /\ q.owners = owners /\ q.values = values /\ q.read = {} /\ q.got = {} /\ q.pairs = {}
    BY <1>3, <2>1 DEF Starting, CallFields
  <2>4. /\ q.kind = "find" /\ q.roots = op.roots /\ q.items = op.items
        /\ Class(q, heap) = Class(op, heap) /\ Current(w.model, q, heap) = r
        /\ Fetching(q)
    BY <1>3, <1>4, <2>2, SamePlaceFacts DEF SamePlace, Ready, Fetching
  <2>5. Wanted(w, q, heap, r) = keys
    <3>1. \A i \in op.items :
            ValueOf(heap, i, r.joinColumn) = CellOf(w, heap[i].cls, heap[i].key, r.joinColumn)
      BY <1>7, ValueStored
    <3>2. CASE r.type \in {"one-to-many", "many-to-many"}
      BY <1>3, <2>4, <3>2 DEF Wanted, KeyValues, Keys
    <3>3. CASE r.type \notin {"one-to-many", "many-to-many"}
      <4>1. {ValueOf(heap, i, r.joinColumn) : i \in op.items} =
              {CellOf(w, heap[i].cls, heap[i].key, r.joinColumn) : i \in op.items}
        BY <3>1
      <4> QED BY <1>3, <2>4, <3>3, <4>1 DEF Wanted, KeyValues
    <3> QED BY <3>2, <3>3
  <2>6. Keys(heap, {}) = {}
    BY DEF Keys
  <2> HIDE DEF keys
  <2>7. ReadOK(w, q, heap)
    <3>1. CASE r.type = "many-to-many"
      <4>1. owners = keys /\ values = {}
        BY <3>1 DEF owners, values
      <4>2. LinksDue(w, q, heap, r) = {}
        BY <2>3, <2>5, <4>1 DEF LinksDue, LinksOf
      <4>3. ReadThroughLinks(w, q, heap, r)
        BY <2>3, <2>5, <2>6, <4>1, <4>2 DEF ReadThroughLinks, Inverses
      <4> QED BY <1>6, <2>4, <3>1, <4>3 DEF ReadOK, r
    <3>2. CASE r.type # "many-to-many"
      <4>1. owners = {} /\ values = keys
        BY <3>2 DEF owners, values
      <4>2. ReadByColumn(w, q, heap, r)
        BY <2>3, <2>5, <2>6, <4>1 DEF ReadByColumn
      <4> QED BY <1>6, <2>4, <3>2, <4>2 DEF ReadOK, r
    <3> QED BY <3>1, <3>2
  <2>8. \A E, c : OnPath(w, E, c, op, heap) => OnPath(w, E, c, q, heap)
    BY <1>8, <1>9, <2>2, <2>4, OnPathSame DEF SamePlace
  <2> QED BY <1>2, <1>7, <1>8, <1>11, <2>2, <2>4, <2>7, <2>8, ContinueGraph
<1> QED BY <1>6, <1>10, <1>11

LEMMA ChunkOf ==
  ASSUME NEW V, NEW chunk \in Chunks(V) PROVE chunk \subseteq V
BY DEF Chunks, kSubset

(* The links of a chunk of owners are read.                                 *)
LEMMA ReadLinksGraph ==
  ASSUME SetsApart, IInv, ReadLinks, op.kind = "find",
         NEW w, w.model = model, w.links = links, Answerable(w), GraphOK(w, op, heap)
  PROVE  GraphOK(w, op', heap')
<1> DEFINE r == Current(model, op, heap)
           t == TableOf(w, Class(op, heap), r)
<1>1. op.phase = "links" /\ Fetching(op) /\ Loading(op)
  BY DEF ReadLinks, Fetching, Loading
<1>2. /\ HeapOK(model, heap) /\ DOMAIN op = CallFields /\ WellFormed(model)
      /\ FetchedOK(model, op, heap)
  BY <1>1, LiveState DEF IInv, RowsOK, LiveOK
<1>3. /\ r # Unset /\ r.type = "many-to-many" /\ op.read = {} /\ op.values = {}
      /\ ReadThroughLinks(w, op, heap, r)
  BY <1>1 DEF GraphOK, ReadOK, LinksFirst
<1>4. op.items # {} /\ op.roots \subseteq DOMAIN heap /\ op.roots # {}
  BY <1>1, <1>2, <1>3, ItemsStored DEF FetchedOK
<1>5. PICK chunk \in Chunks(op.owners) :
        LET table   == JoinTable(op, heap, r)
            read    == {[owner |-> l[table.ownerColumn], inverse |-> l[table.inverseColumn]] :
                          l \in {l \in links[table.tableName] : l[table.ownerColumn] \in chunk}}
            missing == {l.inverse : l \in read} \ {heap[x].key : x \in op.got}
        IN  Continue([op EXCEPT !.owners = @ \ chunk, !.read = read, !.values = missing], heap)
  BY DEF ReadLinks
<1> DEFINE read    == LinksOf(w, t, chunk)
           missing == Inverses(read) \ Keys(heap, op.got)
           rest    == op.owners \ chunk
           q       == [op EXCEPT !.owners = rest, !.read = read, !.values = missing]
<1>6. Continue(q, heap)
  BY <1>5 DEF JoinTable, TableOf, LinksOf, Inverses, Keys
<1> HIDE DEF read, missing, rest, t, r
<1>7. Ready(model, q, heap) /\ SamePlace(op, q)
  BY <1>1, LinkedReady
<1>8. /\ q.owners = rest /\ q.read = read /\ q.values = missing
      /\ q.got = op.got /\ q.pairs = op.pairs
  BY <1>2 DEF CallFields
<1> HIDE DEF q
<1>9. /\ q.kind = "find" /\ q.roots = op.roots /\ Fetching(q)
  BY <1>7 DEF SamePlace, Ready, Fetching
<1>10. /\ Current(w.model, q, heap) = r /\ Class(q, heap) = Class(op, heap)
       /\ Wanted(w, q, heap, r) = Wanted(w, op, heap, r)
  BY <1>7, WantedSame DEF r
<1> DEFINE W    == Wanted(w, op, heap, r)
           due  == LinksOf(w, t, W \ op.owners)
           more == LinksOf(w, t, W \ rest)
           K    == Keys(heap, op.got)
           TR   == TargetRows(w, r)
<1> HIDE DEF W
<1>11. LinksDue(w, op, heap, r) = due /\ LinksDue(w, q, heap, r) = more
  BY <1>8, <1>10 DEF LinksDue, t, W
<1>12. /\ op.owners \subseteq W /\ K = Inverses(due) \cap TR
       /\ \A p \in op.pairs : [owner |-> p[1], inverse |-> heap[p[2]].key] \in due
       /\ \A l \in due : l.inverse \in TR =>
            \E x \in op.got : heap[x].key = l.inverse /\ <<l.owner, x>> \in op.pairs
  BY <1>3, <1>11 DEF ReadThroughLinks, W
<1>13. chunk \subseteq op.owners
  BY ChunkOf
<1>14. more = due \cup read
  <2>1. ASSUME NEW l \in more PROVE l \in due \cup read
    <3>1. l.owner \in W \ rest
      BY LinkFacts
    <3>2. l.owner \in W \ op.owners \/ l.owner \in chunk
      BY <3>1 DEF rest
    <3> QED BY <3>2, LinkFacts DEF read
  <2>2. ASSUME NEW l \in due PROVE l \in more
    <3>1. l.owner \in W \ op.owners
      BY LinkFacts
    <3>2. l.owner \in W \ rest
      BY <3>1 DEF rest
    <3> QED BY <3>2, LinkFacts
  <2>3. ASSUME NEW l \in read PROVE l \in more
    <3>1. l.owner \in chunk
      BY LinkFacts DEF read
    <3>2. l.owner \in W \ rest
      BY <1>12, <1>13, <3>1 DEF rest
    <3> QED BY <3>2, LinkFacts DEF read
  <2> HIDE DEF more, due
  <2> QED BY <2>1, <2>2, <2>3
<1> HIDE DEF due, more, K, TR
<1>15. Inverses(more) = Inverses(due) \cup Inverses(read)
  BY <1>14 DEF Inverses
<1>16. K = (Inverses(more) \cap TR) \ missing /\ missing \subseteq Inverses(more)
  BY <1>12, <1>15 DEF missing, K
<1>17. ReadThroughLinks(w, q, heap, r)
  <2>1. rest \subseteq W
    BY <1>12 DEF rest
  <2> QED BY <1>8, <1>10, <1>11, <1>12, <1>14, <1>16, <2>1 DEF ReadThroughLinks, W, K, TR
<1>18. ReadOK(w, q, heap)
  BY <1>3, <1>10, <1>17 DEF ReadOK
<1>19. Remains(heap, heap) /\ StoredOK(w, heap)
  BY DEF Remains, GraphOK
<1>20. \A E, c : OnPath(w, E, c, op, heap) => OnPath(w, E, c, q, heap)
  BY <1>1, <1>7, <1>9, OnPathSame DEF SamePlace
<1> QED BY <1>2, <1>4, <1>6, <1>7, <1>9, <1>18, <1>19, <1>20, ContinueGraph

(* The instances of a chunk of rows are stored, and nothing else is new.    *)
LEMMA ExtendedStored ==
  ASSUME IInv, Fetching(op), NEW w, w.model = model, w.rows = rows, StoredOK(w, heap),
         NEW C \in Registered(model), C \in DOMAIN model.of, NEW keys \in SUBSET DOMAIN rows[C],
         NEW now \in BOOLEAN, NEW h, h = Hydrated(heap, C, keys, op, now)
  PROVE  /\ Remains(heap, h) /\ StoredOK(w, h) /\ \A i \in DOMAIN heap : h[i] = heap[i]
         /\ Keys(h, (Len(heap) + 1)..Len(h)) = keys
<1> DEFINE new == (Len(heap) + 1)..Len(h)
<1>1. HeapOK(model, heap) /\ RowsOK(model, rows) /\ Instances(heap)
  BY LiveState DEF Fetching, IInv
<1>2. IsFiniteSet(keys)
  <2>1. IsFiniteSet(DOMAIN rows[C])
    BY <1>1 DEF RowsOK
  <2> QED BY <2>1, FS_Subset
<1>3. IsHydrated(heap, h, C, keys, op, now)
  BY <1>1, <1>2, HydratedShape
<1>4. IsExtended(h, C, op, now)
  BY <1>1, ExtendedHeap
<1>5. DOMAIN h = DOMAIN heap \cup new /\ \A i \in DOMAIN heap : h[i] = heap[i]
  BY <1>4 DEF IsExtended
<1>6. \A i \in new :
        /\ h[i].cls = C /\ h[i].key \in keys /\ h[i].cols = rows[C][h[i].key]
        /\ h[i].rel = [p \in {r.prop : r \in Items(Relations(model, C))} |-> Unset]
  BY <1>3 DEF IsHydrated
<1>7. \A k \in keys : \E i \in new : h[i].key = k
  BY <1>3 DEF IsHydrated
<1> HIDE DEF new
<1>8. Remains(heap, h)
  BY <1>5 DEF Remains
<1>9. ASSUME NEW i \in new PROVE Stored(w, h, i)
  <2>1. \A p \in DOMAIN h[i].rel : h[i].rel[p] = Unset
    BY <1>6
  <2> QED BY <1>6, <2>1 DEF Stored
<1>10. StoredOK(w, h)
  BY <1>1, <1>5, <1>8, <1>9, StoredKeeps
<1>11. Keys(h, new) = keys
  <2>1. ASSUME NEW k \in Keys(h, new) PROVE k \in keys
    BY <1>6 DEF Keys
  <2>2. ASSUME NEW k \in keys PROVE k \in Keys(h, new)
    BY <1>7 DEF Keys
  <2> QED BY <2>1, <2>2
<1> QED BY <1>5, <1>8, <1>10, <1>11 DEF new

LEMMA SeenKeys ==
  ASSUME NEW h, NEW g, NEW got, NEW new, \A i \in got : g[i] = h[i]
  PROVE  Keys(g, got \cup NotSeen(g, new, got)) = Keys(h, got) \cup Keys(g, new)
<1>1. NotSeen(g, new, got) \subseteq new
  BY DEF NotSeen
<1>2. \A x \in new : x \in NotSeen(g, new, got) \/ \E y \in got : g[y].key = g[x].key
  BY DEF NotSeen
<1>3. \A k \in Keys(g, new) : k \in Keys(g, got \cup NotSeen(g, new, got))
  BY <1>2 DEF Keys
<1> QED BY <1>1, <1>3 DEF Keys

(* While nothing that is there changes, a call stays on its path.           *)
LEMMA ExtendedPath ==
  ASSUME NEW w, w.model = model, IInv, Fetching(op), op.kind = "find",
         NEW h, Remains(heap, h), \A i \in DOMAIN heap : h[i] = heap[i],
         NEW q, SamePlace(op, q), Fetching(q),
         NEW E \in EagerPaths, NEW c, OnPath(w, E, c, op, heap)
  PROVE  OnPath(w, E, c, q, h)
<1>1. CallOK(op) /\ LevelsOK(op, heap) /\ HooksOK(model, op, heap) /\ HeapOK(model, heap)
  BY LiveState DEF Fetching
<1>2. /\ c \in 1..Len(E) /\ Begun(E, c, op) /\ Onward(op, E[c])
      /\ Finished(w, h, op.roots, E, c - 1, c) /\ Climbed(w, op, h, E[c])
  BY <1>1, LoadingKeeps
<1>3. OnPath(w, E, c, op, h)
  BY <1>2 DEF OnPath, Fetching, EagerPaths
<1> QED BY <1>3, OnPathSame DEF SamePlace

LEMMA FetchChunkGraph ==
  ASSUME SetsApart, IInv, FetchChunk, op.kind = "find",
         NEW w, w.model = model, w.rows = rows, Answerable(w), GraphOK(w, op, heap)
  PROVE  GraphOK(w, op', heap')
<1> DEFINE r == Current(model, op, heap)
<1>1. op.phase = "fetch" /\ Fetching(op) /\ Loading(op)
  BY DEF FetchChunk, Fetching, Loading
<1>2. /\ HeapOK(model, heap) /\ DOMAIN op = CallFields /\ WellFormed(model)
      /\ FetchedOK(model, op, heap)
  BY <1>1, LiveState DEF IInv, RowsOK, LiveOK
<1>3. r # Unset /\ ReadOK(w, op, heap) /\ StoredOK(w, heap)
  BY <1>1 DEF GraphOK, ReadOK
<1>4. /\ op.items # {} /\ op.items \subseteq DOMAIN heap
      /\ op.roots \subseteq DOMAIN heap /\ op.roots # {}
      /\ r.target \in Registered(model) /\ r.target \in DOMAIN model.of
  BY <1>1, <1>2, <1>3, ItemsStored DEF FetchedOK
<1>5. PICK chunk \in Chunks(op.values) :
        LET h == Hydrated(heap, r.target, ChunkRows(r, chunk), op, ~ Deferred(op))
        IN  Continue(Given(op, h, chunk), h)
  BY DEF FetchChunk, ChunkRows, Given
<1> DEFINE h   == Hydrated(heap, r.target, ChunkRows(r, chunk), op, ~ Deferred(op))
           q   == Given(op, h, chunk)
           new == (Len(heap) + 1)..Len(h)
           now == ~ Deferred(op)
<1>6. Continue(q, h)
  BY <1>5
<1>7. Ready(model, q, h) /\ SamePlace(op, q)
  <2> HIDE DEF r
  <2> QED BY <1>1, GivenReady DEF r
<1>8. now \in BOOLEAN /\ ChunkRows(r, chunk) \in SUBSET DOMAIN rows[r.target]
  BY DEF Deferred, ChunkRows
<1>9. h = Hydrated(heap, r.target, ChunkRows(r, chunk), op, now)
  OBVIOUS
<1> HIDE DEF r, h, now
<1>10. /\ Remains(heap, h) /\ StoredOK(w, h) /\ \A i \in DOMAIN heap : h[i] = heap[i]
       /\ Keys(h, new) = ChunkRows(r, chunk)
  BY <1>1, <1>3, <1>4, <1>8, <1>9, ExtendedStored
<1>11. /\ q.values = op.values \ chunk /\ q.got = op.got \cup NotSeen(h, new, op.got)
       /\ q.owners = op.owners /\ q.read = op.read /\ q.pairs = op.pairs
  <2> DEFINE all == op.got \cup NotSeen(h, new, op.got)
  <2>1. q = [op EXCEPT !.values = op.values \ chunk, !.got = all]
    BY DEF Given
  <2> HIDE DEF all, q
  <2>2. /\ q.values = op.values \ chunk /\ q.got = all
        /\ q.owners = op.owners /\ q.read = op.read /\ q.pairs = op.pairs
    BY <1>2, <2>1 DEF CallFields
  <2> QED BY <2>2 DEF all
<1> HIDE DEF q, new
<1>12. q.kind = "find" /\ q.roots = op.roots /\ Fetching(q) /\ q.items = op.items
  BY <1>7 DEF SamePlace, Ready, Fetching
<1>13. /\ op.got \subseteq DOMAIN heap /\ \A p \in op.pairs : p[2] \in op.got
  BY <1>2 DEF FetchedOK
<1>14. Keys(h, q.got) = Keys(heap, op.got) \cup ChunkRows(r, chunk)
  <2>1. \A i \in op.got : h[i] = heap[i]
    BY <1>10, <1>13
  <2>2. Keys(h, op.got \cup NotSeen(h, new, op.got)) = Keys(heap, op.got) \cup Keys(h, new)
    BY <2>1, SeenKeys
  <2> QED BY <1>10, <1>11, <2>2
<1>15. /\ Class(q, h) = Class(op, heap) /\ Current(w.model, q, h) = r
       /\ Wanted(w, q, h, r) = Wanted(w, op, heap, r)
  <2>1. (CHOOSE i \in op.items : TRUE) \in op.items
    BY <1>4
  <2>2. Class(q, h) = Class(op, heap)
    BY <1>4, <1>10, <1>12, <2>1 DEF Class
  <2>3. q.segs = op.segs
    BY <1>7 DEF SamePlace
  <2>4. Keys(h, op.items) = Keys(heap, op.items)
    BY <1>4, <1>10 DEF Keys
  <2>5. {CellOf(w, h[i].cls, h[i].key, r.joinColumn) : i \in op.items} =
          {CellOf(w, heap[i].cls, heap[i].key, r.joinColumn) : i \in op.items}
    BY <1>4, <1>10
  <2>6. Current(w.model, q, h) = r
    BY <2>2, <2>3 DEF Current, r
  <2> QED BY <1>12, <2>2, <2>4, <2>5, <2>6 DEF Wanted
<1>16. chunk \subseteq op.values
  BY ChunkOf
<1>17. ChunkRows(r, chunk) =
         {k \in TargetRows(w, r) : CellOf(w, r.target, k, FetchedBy(w, r)) \in chunk}
  BY DEF ChunkRows, TargetRows, FetchedBy, FetchColumn, Cell, CellOf, PrimaryKey
<1>18. ReadOK(w, q, h)
  <2>1. CASE r.type = "many-to-many"
    <3> DEFINE due == LinksDue(w, op, heap, r)
    <3>1. ReadThroughLinks(w, op, heap, r)
      BY <1>3, <2>1 DEF ReadOK, r
    <3>2. LinksDue(w, q, h, r) = due
      BY <1>11, <1>15 DEF LinksDue
    <3>3. ChunkRows(r, chunk) = TargetRows(w, r) \cap chunk
      <4>1. \A k : CellOf(w, r.target, k, FetchedBy(w, r)) = k
        BY <2>1 DEF CellOf, FetchedBy
      <4> QED BY <1>17, <4>1
    <3> HIDE DEF due
    <3>4. /\ op.owners \subseteq Wanted(w, op, heap, r) /\ op.read \subseteq due
          /\ op.values \subseteq Inverses(due)
          /\ Keys(heap, op.got) = (Inverses(due) \cap TargetRows(w, r)) \ op.values
          /\ \A p \in op.pairs : [owner |-> p[1], inverse |-> heap[p[2]].key] \in due
          /\ \A l \in due \ op.read : l.inverse \in TargetRows(w, r) =>
               \E x \in op.got : heap[x].key = l.inverse /\ <<l.owner, x>> \in op.pairs
      BY <3>1 DEF ReadThroughLinks, due
    <3>5. Keys(h, q.got) = (Inverses(due) \cap TargetRows(w, r)) \ q.values
      BY <1>11, <1>14, <1>16, <3>3, <3>4
    <3>6. \A p \in q.pairs : [owner |-> p[1], inverse |-> h[p[2]].key] \in due
      BY <1>10, <1>11, <1>13, <3>4
    <3>7. \A l \in due \ q.read : l.inverse \in TargetRows(w, r) =>
            \E x \in q.got : h[x].key = l.inverse /\ <<l.owner, x>> \in q.pairs
      <4>1. \A x \in op.got : h[x] = heap[x] /\ x \in q.got
        BY <1>10, <1>11, <1>13
      <4> QED BY <1>11, <3>4, <4>1
    <3>8. ReadThroughLinks(w, q, h, r)
      BY <1>11, <1>15, <3>2, <3>4, <3>5, <3>6, <3>7 DEF ReadThroughLinks
    <3> QED BY <1>3, <1>15, <2>1, <3>8 DEF ReadOK, r
  <2>2. CASE r.type # "many-to-many"
    <3>1. ReadByColumn(w, op, heap, r)
      BY <1>3, <2>2 DEF ReadOK, r
    <3>2. ReadByColumn(w, q, h, r)
      BY <1>11, <1>14, <1>15, <1>16, <1>17, <3>1 DEF ReadByColumn
    <3> QED BY <1>3, <1>15, <2>2, <3>2 DEF ReadOK, r
  <2> QED BY <2>1, <2>2
<1>19. \A E \in EagerPaths : \A c : OnPath(w, E, c, op, heap) => OnPath(w, E, c, q, h)
  BY <1>1, <1>7, <1>10, <1>12, ExtendedPath
<1> QED BY <1>2, <1>4, <1>6, <1>7, <1>10, <1>12, <1>18, <1>19, ContinueGraph

(* A call begins with the rows that find() selected.                        *)
LEMMA FindGraph ==
  ASSUME IInv, NEW w, w.model = model, w.rows = rows, Answerable(w),
         NEW C \in Built(model), NEW K \in SUBSET DOMAIN rows[C], NEW mode \in Modes,
         Find(C, K, mode), op'.phase # "ended"
  PROVE  GraphOK(w, op', heap')
<1> DEFINE E == model.of[C].eager
           o == Call("find", Cardinality(K), E, mode)
<1>1. RowsOK(model, rows) /\ WellFormed(model)
  BY DEF IInv, RowsOK
<1>2. C \in Registered(model) /\ C \in DOMAIN model.of /\ E \in EagerPaths
  BY <1>1, BuiltClass DEF Built, Answerable, Complete, EagerPaths
<1>3. IsFiniteSet(K)
  <2>1. IsFiniteSet(DOMAIN rows[C])
    BY <1>1, <1>2 DEF RowsOK
  <2> QED BY <2>1, FS_Subset
<1>4. /\ DOMAIN o = CallFields /\ o.phase = "path" /\ o.roots = 1..Cardinality(K) /\ o.todo = E
  BY DEF Call, CallFields
<1> HIDE DEF E
<1>5. heap' = Hydrated(<<>>, C, K, o, FALSE) /\ op' = o
  <2>1. \/ op' = [o EXCEPT !.phase = "ended", !.outcome = "mixing"]
        \/ heap' = Hydrated(<<>>, C, K, o, FALSE) /\ op' = o
    BY DEF Find, E
  <2> HIDE DEF o
  <2>2. [o EXCEPT !.phase = "ended", !.outcome = "mixing"].phase = "ended"
    BY <1>4 DEF CallFields
  <2> QED BY <2>1, <2>2
<1> HIDE DEF o
<1>6. IsHydrated(<<>>, heap', C, K, o, FALSE)
  <2>1. Instances(<<>>)
    BY NothingThere
  <2> QED BY <1>3, <1>5, <2>1, HydratedShape
<1> DEFINE h == heap'
<1> HIDE DEF h
<1>7. /\ DOMAIN h = 1..Cardinality(K)
      /\ \A i \in DOMAIN h :
           /\ h[i].cls = C /\ h[i].key \in K /\ h[i].cols = rows[C][h[i].key]
           /\ h[i].rel = [p \in {r.prop : r \in Items(Relations(model, C))} |-> Unset]
  <2>1. Len(<<>>) = 0
    OBVIOUS
  <2>2. h \in Seq(Items(h)) /\ Cardinality(K) \in Nat /\ Len(h) = Cardinality(K)
    BY <1>6, <2>1 DEF IsHydrated, h
  <2>3. (Len(<<>>) + 1)..Len(h) = 1..Len(h) /\ DOMAIN h = 1..Len(h)
    BY <2>1, <2>2
  <2> QED BY <1>6, <2>2, <2>3 DEF IsHydrated, h
<1>8. StoredOK(w, h)
  <2>1. \A i \in DOMAIN h : \A p \in DOMAIN h[i].rel : h[i].rel[p] = Unset
    BY <1>7
  <2> QED BY <1>2, <1>7, <2>1 DEF StoredOK, Stored
<1>9. OnPath(w, E, 0, o, h)
  <2>1. Len(E) \in Nat
    BY <1>2 DEF EagerPaths
  <2> QED BY <1>4, <2>1 DEF OnPath, Begun, Finished, Fetching
<1>10. \A i \in o.roots : w.model.of[h[i].cls].eager = E
  BY <1>4, <1>7 DEF E
<1> QED BY <1>4, <1>5, <1>8, <1>9, <1>10 DEF GraphOK, Loading, h
---------------------------------------------------------------------------
(* No step makes a call another call.                                       *)
LEMMA ProceedKind ==
  ASSUME NEW o, NEW h, DOMAIN o = CallFields
  PROVE  Proceed(o, h)[1].kind = o.kind
<1> DEFINE P    == Paired(o, h)
           T    == IF Current(model, o, h).type = "many-to-many"
                     THEN {p[2] : p \in P} ELSE o.got
           full == [o EXCEPT !.pairs = P, !.read = {}]
           q    == Proceed(o, h)[1]
<1>1. DOMAIN full = CallFields /\ full.kind = o.kind /\ full.pairs = P /\ full.got = o.got
  <2> HIDE DEF P
  <2> QED BY DEF CallFields
<1>2. \/ q = [o EXCEPT !.phase = "fetch"]
      \/ q = [full EXCEPT !.phase = "links"]
      \/ q = Descend(full, T)
  <2>1. \/ q = [o EXCEPT !.phase = "fetch"]
        \/ q = [full EXCEPT !.phase = "links"]
        \/ q = Descend(full, IF Current(model, o, h).type = "many-to-many"
                               THEN {p[2] : p \in full.pairs} ELSE full.got)
    BY DEF Proceed
  <2> HIDE DEF q, full
  <2> QED BY <1>1, <2>1
<1> HIDE DEF q, full, T
<1>3. \/ q = [o EXCEPT !.phase = "fetch"]
      \/ q = [full EXCEPT !.phase = "links"]
      \/ q = [full EXCEPT !.phase = "path"]
      \/ q = [full EXCEPT !.phase = "open", !.items = T, !.segs = Tail(@), !.above = Append(@, T)]
      \/ q = [full EXCEPT !.phase = "unwind"]
  BY <1>2 DEF Descend
<1>4. q.kind = o.kind
  BY <1>1, <1>3 DEF CallFields
<1> QED BY <1>4 DEF q

(* How OpenRelation goes on.                                                *)
LEMMA OpenRelationCall ==
  ASSUME IInv, OpenRelation
  PROVE  /\ op'.kind = op.kind
         /\ op'.phase = "ended" => op'.outcome # "ok"
<1> DEFINE r      == Current(model, op, heap)
           o      == Opened(op)
           keys   == KeyValues(o, heap, r)
           owners == IF r.type = "many-to-many" THEN keys ELSE {}
           values == IF r.type = "many-to-many" THEN {} ELSE keys
           q      == Starting(o, owners, values)
<1>1. op.phase = "open" /\ op.items # {} /\ WellFormed(model)
  BY DEF OpenRelation, IInv, RowsOK
<1>2. DOMAIN op = CallFields
  BY <1>1, LiveState
<1>3. DOMAIN o = CallFields /\ o.kind = op.kind
  BY <1>1, OpenState
<1>4. \A outcome : Ended(outcome) => op'.kind = op.kind /\ op'.outcome = outcome
  BY <1>2 DEF Ended, CallFields
<1>5. \/ Ended("unknown relation") \/ Ended("configuration")
      \/ Ended("undefined") \/ Ended("mixing")
      \/ op' = Descend(o, {})
      \/ r # Unset /\ Continue(q, heap)
  BY DEF OpenRelation, Opened, Starting
<1>6. CASE op' = Descend(o, {})
  <2> HIDE DEF o
  <2>1. \/ op' = [o EXCEPT !.phase = "path"]
        \/ op' = [o EXCEPT !.phase = "open", !.items = {}, !.segs = Tail(@),
                           !.above = Append(@, {})]
        \/ op' = [o EXCEPT !.phase = "unwind"]
    BY <1>6 DEF Descend
  <2>2. op'.kind = o.kind /\ op'.phase \in {"path", "open", "unwind"}
    BY <1>3, <2>1 DEF CallFields
  <2> QED BY <1>3, <2>2
<1>7. CASE r # Unset /\ Continue(q, heap)
  <2> HIDE DEF owners, values
  <2>1. Ready(model, q, heap) /\ SamePlace(o, q)
    BY <1>1, <1>7, StartingReady
  <2> HIDE DEF q, o
  <2>2. Live(op') /\ op' = Proceed(q, heap)[1]
    BY <1>1, <1>7, <2>1, ContinueStep DEF Continue
  <2>3. DOMAIN q = CallFields /\ q.kind = op.kind
    BY <1>3, <2>1 DEF SamePlace
  <2> QED BY <2>2, <2>3, ProceedKind DEF Live
<1>8. CASE Ended("unknown relation")
  <2>1. op'.kind = op.kind /\ op'.outcome = "unknown relation"
    BY <1>4, <1>8
  <2> QED BY <2>1
<1>9. CASE Ended("configuration")
  BY <1>4, <1>9
<1>10. CASE Ended("undefined")
  BY <1>4, <1>10
<1>11. CASE Ended("mixing")
  BY <1>4, <1>11
<1> HIDE DEF o, q, r
<1> QED BY <1>5, <1>6, <1>7, <1>8, <1>9, <1>10, <1>11

LEMMA SameKind ==
  ASSUME IInv, Step \/ QueryFails
  PROVE  /\ op # Idle /\ Live(op) /\ op'.kind = op.kind
         /\ model' = model /\ rows' = rows /\ links' = links /\ writes' = writes
<1>1. /\ op.phase \in {"path", "open", "links", "fetch", "unwind"}
      /\ model' = model /\ rows' = rows /\ links' = links /\ writes' = writes
  BY DEF Step, QueryFails, NextPath, NoOwners, OpenRelation, ReadLinks, FetchChunk, Unwind
<1>2. DOMAIN op = CallFields /\ op # Idle /\ Live(op) /\ WellFormed(model)
  BY <1>1, LiveState DEF Live, IInv, RowsOK
<1>3. CASE QueryFails
  BY <1>2, <1>3 DEF QueryFails, Ended, CallFields
<1>4. CASE NextPath
  <2>1. \/ op' = [op EXCEPT !.phase = "ended", !.outcome = "ok"]
        \/ op' = [op EXCEPT !.phase = "open", !.segs = Head(op.todo), !.todo = Tail(@),
                            !.items = op.roots]
    BY <1>4 DEF NextPath, Ended
  <2> QED BY <1>1, <1>2, <2>1 DEF CallFields
<1>5. CASE NoOwners
  BY <1>1, <1>2, <1>5 DEF NoOwners, CallFields
<1>6. CASE OpenRelation
  BY <1>1, <1>2, <1>6, OpenRelationCall
<1>7. CASE ReadLinks
  <2>1. PICK chunk, read, missing :
          Continue([op EXCEPT !.owners = @ \ chunk, !.read = read, !.values = missing], heap)
    BY <1>7 DEF ReadLinks
  <2> DEFINE o == [op EXCEPT !.owners = @ \ chunk, !.read = read, !.values = missing]
  <2>2. DOMAIN o = CallFields /\ o.kind = op.kind
    BY <1>2 DEF CallFields
  <2> HIDE DEF o
  <2>3. op' = Proceed(o, heap)[1]
    BY <2>1 DEF o, Continue
  <2> QED BY <1>1, <1>2, <2>2, <2>3, ProceedKind
<1>8. CASE FetchChunk
  <2>1. PICK chunk, h : Continue(Given(op, h, chunk), h)
    BY <1>8 DEF FetchChunk, Given
  <2> DEFINE o == Given(op, h, chunk)
             all == op.got \cup NotSeen(h, (Len(heap) + 1)..Len(h), op.got)
  <2>2. o = [op EXCEPT !.values = @ \ chunk, !.got = all]
    BY DEF Given
  <2> HIDE DEF o, all
  <2>3. DOMAIN o = CallFields /\ o.kind = op.kind
    BY <1>2, <2>2 DEF CallFields
  <2>4. op' = Proceed(o, h)[1]
    BY <2>1 DEF o, Continue
  <2> QED BY <1>1, <1>2, <2>3, <2>4, ProceedKind
<1>9. CASE Unwind
  <2>1. \/ op' = [op EXCEPT !.phase = "path"]
        \/ op' = [op EXCEPT !.above = Front(@), !.ctx = IF op.trx THEN @ - 1 ELSE @]
    BY <1>9 DEF Unwind
  <2> QED BY <1>1, <1>2, <2>1 DEF CallFields
<1> QED BY <1>3, <1>4, <1>5, <1>6, <1>7, <1>8, <1>9 DEF Step

(* The invariant of the graph: while nobody else has written, a find() in   *)
(* an accepted model is on its paths.                                       *)
Undisturbed == writes = 0 /\ OneTableEach(model) /\ Complete(model)

Going(o) == Live(o) \/ o.outcome = "ok"

GInv ==
  /\ writes \in Nat
  /\ writes = 0 => \A C \in DOMAIN rows : {Unset, Null} \cap DOMAIN rows[C] = {}
  /\ op # Idle => Accepted(model)
  /\ op # Idle /\ op.kind = "find" /\ Undisturbed /\ Going(op) => GraphOK(World, op, heap)

LEMMA InitGInv == Init => GInv
<1> SUFFICES ASSUME Init PROVE GInv
  OBVIOUS
<1>1. PICK s \in Starts : rows = s.rows
  BY DEF Init
<1> QED BY <1>1, StartsAssumption DEF Init, GInv

LEMMA StepGInv ==
  ASSUME SetsApart, IInv, Declarable(model), GInv, [Next]_vars
  PROVE  GInv'
<1> DEFINE w == World
<1>1. w.model = model /\ w.rows = rows /\ w.links = links
  BY DEF World
<1>2. ASSUME Undisturbed, Accepted(model) PROVE Answerable(w)
  BY <1>1, <1>2 DEF Answerable, Undisturbed, IInv, GInv
<1>3. ASSUME model' = model, rows' = rows, links' = links, writes' = writes,
             Accepted(model),
             op'.kind = "find" /\ Undisturbed /\ Going(op') => GraphOK(w, op', heap')
      PROVE  GInv'
  <2>1. World' = w /\ Undisturbed' = Undisturbed
    BY <1>3 DEF World, Undisturbed
  <2>2. writes' \in Nat
        /\ (writes' = 0 => \A C \in DOMAIN rows' : {Unset, Null} \cap DOMAIN rows'[C] = {})
    BY <1>3 DEF GInv
  <2>3. op'.kind = "find" /\ Undisturbed' /\ Going(op') => GraphOK(World', op', heap')
    BY <1>3, <2>1
  <2> QED BY <1>3, <2>2, <2>3 DEF GInv, Idle, Going, Live
<1> HIDE DEF w
<1>4. CASE Request
  <2>1. PICK C \in Built(model), mode \in Modes : \E K \in SUBSET DOMAIN rows[C] \ {{}} :
          \/ Find(C, K, mode)
          \/ \E p \in {r.prop : r \in Items(Relations(model, C))}, whole \in BOOLEAN :
               LoadRelations(C, K, <<p>>, whole, mode)
    BY <1>4 DEF Request
  <2>2. PICK K \in SUBSET DOMAIN rows[C] :
          \/ Find(C, K, mode)
          \/ \E p, whole : LoadRelations(C, K, <<p>>, whole, mode)
    BY <2>1
  <2>3. Accepted(model)
    BY <1>4 DEF Request
  <2>4. CASE Find(C, K, mode)
    <3>1. model' = model /\ rows' = rows /\ links' = links /\ writes' = writes
      BY <2>4 DEF Find
    <3>2. op'.phase = "ended" => op'.outcome # "ok"
      <4> DEFINE o == Call("find", Cardinality(K), model.of[C].eager, mode)
      <4>1. DOMAIN o = CallFields /\ o.phase = "path"
        BY DEF Call, CallFields
      <4>2. op' = [o EXCEPT !.phase = "ended", !.outcome = "mixing"] \/ op' = o
        BY <2>4 DEF Find
      <4> HIDE DEF o
      <4> QED BY <4>1, <4>2 DEF CallFields
    <3>3. ASSUME Undisturbed, Going(op') PROVE GraphOK(w, op', heap')
      <4>1. op'.phase # "ended"
        BY <3>2, <3>3 DEF Going, Live
      <4> QED BY <1>1, <1>2, <2>3, <2>4, <3>3, <4>1, FindGraph
    <3> QED BY <1>3, <2>3, <3>1, <3>3
  <2>5. ASSUME NEW p, NEW whole, LoadRelations(C, K, <<p>>, whole, mode) PROVE GInv'
    <3>1. model' = model /\ rows' = rows /\ links' = links /\ writes' = writes
      BY <2>5 DEF LoadRelations
    <3>2. op'.kind # "find"
      BY <2>5 DEF LoadRelations, Call
    <3> QED BY <1>3, <2>3, <3>1, <3>2
  <2> QED BY <2>2, <2>4, <2>5
<1>5. CASE Step \/ QueryFails
  <2>1. /\ op # Idle /\ Live(op) /\ op'.kind = op.kind
        /\ model' = model /\ rows' = rows /\ links' = links /\ writes' = writes
    BY <1>5, SameKind
  <2>2. Accepted(model)
    BY <2>1 DEF GInv
  <2>3. ASSUME op'.kind = "find", Undisturbed, Going(op')
        PROVE  GraphOK(w, op', heap')
    <3>1. Answerable(w)
      BY <1>2, <2>2, <2>3
    <3>2. op.kind = "find" /\ GraphOK(w, op, heap)
      BY <2>1, <2>3 DEF GInv, Going, w
    <3>3. ~ QueryFails
      <4>1. ASSUME QueryFails PROVE FALSE
        <5>1. op'.outcome = "failed" /\ op'.phase = "ended"
          BY <4>1, QueryFailsStep, EndStep DEF QueryFails
        <5> QED BY <2>3, <5>1 DEF Going, Live
      <4> QED BY <4>1
    <3>4. CASE NextPath
      BY <1>1, <3>2, <3>4, NextPathGraph
    <3>5. CASE NoOwners
      BY <1>1, <3>2, <3>5, NoOwnersGraph
    <3>6. CASE OpenRelation
      <4>1. op'.phase # "ended"
        BY <2>3, <3>6, OpenRelationCall DEF Going, Live
      <4> QED BY <1>1, <3>1, <3>2, <3>6, <4>1, OpenRelationGraph
    <3>7. CASE ReadLinks
      BY <1>1, <3>1, <3>2, <3>7, ReadLinksGraph
    <3>8. CASE FetchChunk
      BY <1>1, <3>1, <3>2, <3>8, FetchChunkGraph
    <3>9. CASE Unwind
      BY <1>1, <3>2, <3>9, UnwindGraph
    <3> QED BY <1>5, <3>3, <3>4, <3>5, <3>6, <3>7, <3>8, <3>9 DEF Step
  <2> QED BY <1>3, <2>1, <2>2, <2>3
<1>6. CASE Change \/ RemoveRow \/ Unlink \/ Link
  <2>1. /\ op.phase \in {"links", "fetch"} /\ writes' = writes + 1
        /\ model' = model /\ op' = op
    BY <1>6 DEF Change, RemoveRow, Unlink, Link, MayWrite
  <2>2. op # Idle
    BY <2>1 DEF Idle
  <2>3. writes' \in Nat /\ writes' # 0 /\ Accepted(model')
    BY <2>1, <2>2 DEF GInv
  <2> QED BY <2>3 DEF GInv, Undisturbed
<1>7. CASE UNCHANGED vars
  BY <1>7 DEF vars, GInv, Undisturbed, World, Idle
<1> QED BY <1>4, <1>5, <1>6, <1>7 DEF Next

(* The last path that loads what path n loads, and all of it.               *)
LEMMA LastPath ==
  ASSUME NEW E \in EagerPaths, PathsKeep(E), NEW n \in 1..Len(E)
  PROVE  \E k \in n..Len(E) :
           /\ ~ Replaced(E, k, Len(E))
           /\ Len(E[n]) <= Len(E[k])
           /\ \A j \in 1..Len(E[n]) : E[n][j] = E[k][j]
<1> DEFINE K == {k \in n..Len(E) : Head(E[k]) = Head(E[n])}
           S == {Len(E) - k : k \in K}
<1>1. Len(E) \in Nat /\ DOMAIN E = 1..Len(E)
  BY DEF EagerPaths
<1>2. S \in SUBSET Nat /\ Len(E) - n \in S
  BY <1>1
<1>3. PICK b \in S : \A a \in S : b <= a
  <2> HIDE DEF S
  <2> QED BY <1>2, LeastNumber
<1>4. PICK k \in K : b = Len(E) - k
  BY <1>3
<1>5. ASSUME NEW j \in (k + 1)..Len(E), Head(E[j]) = Head(E[k]) PROVE FALSE
  <2>1. j \in K
    BY <1>1, <1>4, <1>5
  <2>2. Len(E) - j \in S
    BY <2>1
  <2>3. j \in Int /\ k \in Int /\ j > k
    BY <1>1, <1>4, <1>5
  <2> HIDE DEF S, K
  <2> QED BY <1>1, <1>3, <1>4, <2>2, <2>3
<1>6. ~ Replaced(E, k, Len(E))
  BY <1>5 DEF Replaced
<1>7. k \in n..Len(E) /\ Head(E[k]) = Head(E[n]) /\ k \in 1..Len(E)
  BY <1>1, <1>4
<1>8. Len(E[n]) \in Nat /\ Len(E[k]) \in Nat /\ E[n] \in Seq(STRING) /\ E[k] \in Seq(STRING)
  BY <1>7, PathOf
<1> HIDE DEF K, S
<1>9. CASE k = n
  BY <1>6, <1>7, <1>8, <1>9
<1>10. CASE k # n
  <2>1. IsPrefix(E[n], E[k])
    BY <1>1, <1>7, <1>10 DEF PathsKeep
  <2> DEFINE s == E[n]
             t == E[k]
  <2>2. Len(s) <= Len(t) /\ SubSeq(s, 1, Len(s)) = SubSeq(t, 1, Len(s))
    BY <2>1 DEF IsPrefix
  <2>3. s \in Seq(STRING) /\ t \in Seq(STRING) /\ Len(s) \in Nat /\ Len(t) \in Nat
    BY <1>8
  <2> HIDE DEF s, t
  <2>4. ASSUME NEW j \in 1..Len(s) PROVE s[j] = t[j]
    <3>1. SubSeq(s, 1, Len(s))[j] = s[j] /\ SubSeq(t, 1, Len(s))[j] = t[j]
      BY <2>2, <2>3
    <3> QED BY <2>2, <3>1
  <2> QED BY <1>6, <1>7, <2>2, <2>4 DEF s, t
<1> QED BY <1>9, <1>10

(* The levels of Along, by a function on the steps.                         *)
Below(p, I) == UNION {Targets(model, heap, x, p) : x \in I}

IsAlong(f, i, path, k) ==
  /\ f = [n \in 0..k |-> f[n]]
  /\ f[0] = {i}
  /\ \A n \in 1..k : f[n] = Below(path[n], f[n - 1])

LEMMA AlongExists ==
  ASSUME NEW i, NEW path, NEW k \in Nat
  PROVE  \E f : IsAlong(f, i, path, k)
<1> DEFINE S == {j \in Nat : ~ \E f : IsAlong(f, i, path, j)}
<1>1. SUFFICES ASSUME S # {} PROVE FALSE
  OBVIOUS
<1>2. PICK j \in S : \A n \in S : j <= n
  <2>1. S \in SUBSET Nat
    OBVIOUS
  <2> HIDE DEF S
  <2> QED BY <1>1, <2>1, LeastNumber
<1>3. CASE j = 0
  <2> DEFINE f == [n \in 0..0 |-> {i}]
  <2>1. IsAlong(f, i, path, 0)
    BY DEF IsAlong
  <2> HIDE DEF f
  <2> QED BY <1>2, <1>3, <2>1
<1>4. CASE j # 0
  <2>1. j \in Nat /\ j - 1 \in Nat /\ j - 1 \notin S
    BY <1>2, <1>4
  <2>2. PICK f : IsAlong(f, i, path, j - 1)
    BY <2>1
  <2> DEFINE g == [n \in 0..j |-> IF n = j THEN Below(path[j], f[j - 1]) ELSE f[n]]
  <2>3. g[0] = {i} /\ g = [n \in 0..j |-> g[n]]
    BY <1>4, <2>1, <2>2 DEF IsAlong
  <2>4. \A n \in 0..(j - 1) : g[n] = f[n]
    BY <2>1
  <2>5. ASSUME NEW n \in 1..j PROVE g[n] = Below(path[n], g[n - 1])
    <3>1. n - 1 \in 0..(j - 1)
      BY <2>1, <2>5
    <3>2. g[n - 1] = f[n - 1]
      BY <2>4, <3>1
    <3>3. CASE n = j
      BY <2>1, <3>2, <3>3
    <3>4. CASE n # j
      <4>1. n \in 1..(j - 1)
        BY <2>1, <2>5, <3>4
      <4>2. f[n] = Below(path[n], f[n - 1])
        BY <2>2, <4>1 DEF IsAlong
      <4> QED BY <2>4, <3>2, <4>1, <4>2
    <3> QED BY <3>3, <3>4
  <2> HIDE DEF g
  <2>6. IsAlong(g, i, path, j)
    BY <2>3, <2>5 DEF IsAlong
  <2> QED BY <1>2, <2>6
<1> QED BY <1>3, <1>4

(* What lies along the beginning of a loaded path is on its levels.         *)
LEMMA AlongTrail ==
  ASSUME NEW w, w.model = model, NEW I, NEW whole, NEW L, NEW path, NEW i \in I,
         IsTrail(w, heap, I, whole, {}, L), Len(path) \in Nat, Len(whole) \in Nat,
         Len(path) <= Len(whole), \A n \in 1..Len(path) : path[n] = whole[n]
  PROVE  \A n \in 0..Len(path) : Along(i, path)[n] \subseteq L[n]
<1> DEFINE Level2(f) ==
             [n \in 0..Len(path) |->
                IF n = 0 THEN {i}
                ELSE UNION {Targets(model, heap, x, path[n]) : x \in f[n - 1]}]
           f == CHOOSE g : g = Level2(g)
<1>1. \E g : g = Level2(g)
  <2>1. PICK g : IsAlong(g, i, path, Len(path))
    BY AlongExists
  <2>2. \A n \in 0..Len(path) : g[n] =
          IF n = 0 THEN {i} ELSE UNION {Targets(model, heap, x, path[n]) : x \in g[n - 1]}
    BY <2>1 DEF IsAlong, Below
  <2>3. g = Level2(g)
    BY <2>1, <2>2 DEF IsAlong
  <2> QED BY <2>3
<1>2. f = Level2(f)
  BY <1>1
<1>3. Along(i, path) = f
  BY DEF Along
<1> HIDE DEF f
<1>4. f[0] = {i} /\ \A n \in 1..Len(path) :
        f[n] = UNION {Targets(model, heap, x, path[n]) : x \in f[n - 1]}
  <2>1. \A n \in 0..Len(path) : f[n] = Level2(f)[n]
    BY <1>2
  <2>2. Level2(f)[0] = {i} /\ 0 \in 0..Len(path)
    OBVIOUS
  <2>3. ASSUME NEW n \in 1..Len(path)
        PROVE  Level2(f)[n] = UNION {Targets(model, heap, x, path[n]) : x \in f[n - 1]}
               /\ n \in 0..Len(path)
    OBVIOUS
  <2> HIDE DEF Level2
  <2> QED BY <2>1, <2>2, <2>3
<1> DEFINE S == {n \in 0..Len(path) : ~ (f[n] \subseteq L[n])}
<1>5. ASSUME S # {} PROVE FALSE
  <2>1. S \in SUBSET Nat
    OBVIOUS
  <2>2. PICK n \in S : \A m \in S : n <= m
    <3> HIDE DEF S
    <3> QED BY <1>5, <2>1, LeastNumber
  <2>3. n # 0
    BY <1>4, <2>2 DEF IsTrail
  <2>4. n \in 1..Len(path) /\ n - 1 \in 0..Len(path) /\ n - 1 \notin S
    BY <2>2, <2>3
  <2>5. /\ f[n - 1] \subseteq L[n - 1]
        /\ f[n] = UNION {Targets(model, heap, x, path[n]) : x \in f[n - 1]}
    BY <1>4, <2>4
  <2>6. Leads(w, heap, path[n], L[n - 1], L[n])
    BY <2>4 DEF IsTrail
  <2>7. f[n] \subseteq L[n]
    BY <2>5, <2>6 DEF Leads
  <2> QED BY <2>2, <2>7
<1> QED BY <1>3, <1>5

(* On a loaded path every instance holds what is related to its row.        *)
LEMMA TrailFollowed ==
  ASSUME NEW E \in EagerPaths, PathsKeep(E), NEW n \in 1..Len(E), StoredOK(World, heap),
         NEW I, Finished(World, heap, I, E, Len(E), Len(E)), NEW i \in I
  PROVE  FollowsPath(i, E[n])
<1> DEFINE w == World
           path == E[n]
<1>1. w.model = model
  BY DEF World
<1>2. StoredOK(w, heap) /\ Finished(w, heap, I, E, Len(E), Len(E))
  OBVIOUS
<1>3. PICK k \in n..Len(E) :
        /\ ~ Replaced(E, k, Len(E)) /\ Len(E[n]) <= Len(E[k])
        /\ \A j \in 1..Len(E[n]) : E[n][j] = E[k][j]
  BY LastPath
<1>4. Len(E) \in Nat /\ k \in 1..Len(E)
  BY DEF EagerPaths
<1>5. path \in Seq(STRING) /\ Len(path) \in Nat /\ Len(E[k]) \in Nat
  BY <1>4, PathOf
<1> HIDE DEF w
<1>6. Trail(w, heap, I, E[k], {})
  BY <1>2, <1>3, <1>4 DEF Finished
<1>7. PICK L : IsTrail(w, heap, I, E[k], {}, L)
  BY <1>6 DEF Trail
<1>8. \A j \in 1..Len(path) : path[j] = E[k][j]
  BY <1>3
<1>9. Len(path) <= Len(E[k])
  BY <1>3
<1> DEFINE whole == E[k]
<1> HIDE DEF path, whole
<1>10. \A j \in 0..Len(path) : Along(i, path)[j] \subseteq L[j]
  BY <1>1, <1>5, <1>7, <1>8, <1>9, AlongTrail DEF whole
<1>11. ASSUME NEW j \in DOMAIN path, NEW x \in Along(i, path)[j - 1]
       PROVE  LET related == Related(heap[x].cls, heap[x].key,
                                     Relation(model, heap[x].cls, path[j]))
                  A       == Targets(model, heap, x, path[j])
              IN  /\ heap[x].rel[path[j]] = Unset => ~ Many(model, heap[x].cls, path[j])
                  /\ {heap[y].key : y \in A} = related
                  /\ Cardinality(A) = Cardinality(related)
  <2> DEFINE p       == path[j]
             related == Related(heap[x].cls, heap[x].key, Relation(model, heap[x].cls, p))
             A       == Targets(model, heap, x, p)
  <2>1. j \in 1..Len(path) /\ j - 1 \in 0..Len(path) /\ j \in 1..Len(E[k])
        /\ j - 1 \in 0..Len(E[k])
    BY <1>5, <1>9
  <2>2. x \in L[j - 1] /\ p = E[k][j]
    BY <1>8, <1>10, <2>1
  <2>3. x \in DOMAIN heap /\ Answers(w, heap, x, p)
    BY <1>7, <2>1, <2>2 DEF IsTrail, Leads
  <2>4. related = RelatedOf(w, heap, x, p)
    BY <1>1, RelatedRows DEF RelatedOf, w
  <2>5. A = Targets(w.model, heap, x, p)
    BY <1>1
  <2> HIDE DEF p, related, A
  <2>6. p \in DOMAIN heap[x].rel
        /\ (heap[x].rel[p] = Unset => ~ Many(model, heap[x].cls, p) /\ related = {})
    BY <1>1, <2>3, <2>4 DEF Answers
  <2>7. CASE heap[x].rel[p] = Unset
    <3>1. A = {}
      BY <2>5, <2>7 DEF Targets
    <3>2. {heap[y].key : y \in A} = {}
      BY <3>1
    <3> QED BY <2>6, <2>7, <3>1, <3>2 DEF p, related, A
  <2>8. CASE heap[x].rel[p] # Unset
    <3>1. Matches(w, heap, x, p)
      BY <1>2, <2>3, <2>6, <2>8 DEF StoredOK, Stored
    <3>2. Keys(heap, A) = related /\ Cardinality(A) = Cardinality(related)
      BY <2>4, <2>5, <3>1 DEF Matches
    <3> QED BY <2>8, <3>2 DEF Keys, p, related, A
  <2> QED BY <2>7, <2>8
<1> QED BY <1>11 DEF FollowsPath, path

(* While nobody writes a find() ends with every row of every eager path on  *)
(* its instances, each once, whatever chunks and levels it was read in; and *)
(* whatever is written, one load of a relation gives a row one instance.    *)
THEOREM WholeGraph ==
  ASSUME SetsApart
  PROVE  Spec => []LoadsTheGraph
<1>1. IInv /\ Declarable(model) /\ GInv /\ [Next]_vars => GInv'
  BY StepGInv
<1>2. IInv /\ Declarable(model) /\ GInv /\ OneInstancePerRow => LoadsTheGraph
  <2> SUFFICES ASSUME IInv, Declarable(model), GInv, OneInstancePerRow,
                      op.phase = "ended", op.outcome = "ok", op.kind = "find", writes = 0,
                      OneTableEach(model), Complete(model), NEW i \in op.roots
               PROVE  LET paths == model.of[heap[i].cls].eager
                      IN  PathsKeep(paths) => \A n \in DOMAIN paths : FollowsPath(i, paths[n])
    BY DEF LoadsTheGraph
  <2> DEFINE E == model.of[heap[i].cls].eager
  <2>1. op # Idle
    BY DEF Idle
  <2>2. GraphOK(World, op, heap)
    BY <2>1 DEF GInv, Undisturbed, Going
  <2>3. /\ StoredOK(World, heap)
        /\ \E c : OnPath(World, World.model.of[heap[i].cls].eager, c, op, heap)
    BY <2>2 DEF GraphOK
  <2>4. World.model = model
    BY DEF World
  <2>5. PICK c : OnPath(World, E, c, op, heap)
    BY <2>3, <2>4
  <2>6. i \in DOMAIN heap /\ heap[i].cls \in DOMAIN model.of
    BY <2>1 DEF IInv, OpOK, Live, Done, HeapOK
  <2>7. E \in EagerPaths
    BY <2>6 DEF IInv, RowsOK, WellFormed, EagerPaths
  <2> HIDE DEF E
  <2>8. /\ c \in 0..Len(E) /\ Len(op.todo) = Len(E) - c /\ op.todo = <<>>
        /\ Finished(World, heap, op.roots, E, c, c)
    BY <2>5 DEF OnPath, Begun
  <2>9. c = Len(E) /\ DOMAIN E = 1..Len(E)
    BY <2>7, <2>8 DEF EagerPaths
  <2>10. ASSUME PathsKeep(E), NEW n \in DOMAIN E PROVE FollowsPath(i, E[n])
    BY <2>3, <2>7, <2>8, <2>9, <2>10, TrailFollowed
  <2> QED BY <2>10 DEF E
<1> QED BY <1>1, <1>2, InitGInv, Invariance, DeclaredModel, OneInstance, PTL DEF Spec
=============================================================================
