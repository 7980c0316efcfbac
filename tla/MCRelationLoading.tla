-------------------------- MODULE MCRelationLoading --------------------------
(* Small instances of RelationLoading: declared models of up to three       *)
(* classes for the questions about the model, and two classes A and B with  *)
(* two rows each, related in every way, for the loading.                    *)
EXTENDS RelationLoading, TLC

CONSTANTS A, B, C,               \* classes
          id, b, other, x, y,    \* columns: the key, a foreign key, ...
          tA, tB, tC, J, K,      \* tables
          a1, a2, b1, b2         \* keys

Rel(p, type, target, column, inverse) ==
  [prop |-> p, type |-> type, target |-> target, joinColumn |-> column,
   inverseSide |-> inverse]
Mate(p, target, inverse) == Rel(p, "many-to-many", target, Unset, inverse)

Entity(table, pks, schema, relations, joins, eager) ==
  [entity |-> TRUE, table |-> table, pks |-> pks, schema |-> schema,
   relations |-> relations, joins |-> joins, eager |-> eager,
   aad |-> {}, encrypted |-> {}, indexes |-> {}, ttl |-> Unset]

Join(table, column, inverse) ==
  [tableName |-> table, joinColumn |-> column, inverseColumn |-> inverse]
NoJoin == [p \in {} |-> Unset]

Model(entities, of) == [entities |-> entities, of |-> of, providers |-> {}]
---------------------------------------------------------------------------
(* Loading: A has one B ("up") and many of them ("mates"), B many A         *)
(* ("downs", "fans").                                                       *)
Uuids(more) == [c \in {id} \cup more |-> IF c = id THEN "Uuid" ELSE "Utf8"]

Loadable(eagerA, eagerB) ==
  Model(<<A, B>>,
    (A :> Entity(tA, <<id>>, Uuids({b}),
            <<Rel("up", "many-to-one", B, b, Unset), Mate("mates", B, "fans")>>,
            "mates" :> Join(J, Unset, Unset), eagerA)) @@
    (B :> Entity(tB, <<id>>, Uuids({}),
            <<Rel("downs", "one-to-many", A, b, Unset), Mate("fans", A, "mates")>>,
            NoJoin, eagerB)))

Linked(S) == {(<<tA, id>> :> p[1]) @@ (<<tB, id>> :> p[2]) : p \in S}

Rows(f1, f2) == (A :> ((a1 :> (b :> f1)) @@ (a2 :> (b :> f2)))) @@
                (B :> ((b1 :> NoJoin) @@ (b2 :> NoJoin)))

Contents ==
  {[rows |-> Rows(b1, b2), links |-> (J :> Linked({<<a1, b1>>, <<a2, b1>>}))],
   [rows |-> Rows(b1, b1), links |-> (J :> Linked({<<a1, b1>>, <<a2, b2>>}))],
   [rows |-> Rows(b1, Null), links |-> (J :> Linked({<<a1, b1>>, <<a1, b2>>, <<a2, b2>>}))]}

Eagers == {<< <<<<"up", "downs">>>>, <<<<"downs">>>> >>,
           << <<<<"mates">>, <<"up", "downs", "mates">>>>, <<<<"fans", "up">>>> >>,
           << <<<<"mates", "fans">>>>, <<<<"downs", "mates">>>> >>,
           << <<<<"mates", "downs">>, <<"mates">>>>,
              <<<<"downs">>, <<"downs", "mates">>>> >>}

Loads == {[model |-> Loadable(e[1], e[2]), rows |-> d.rows, links |-> d.links] :
            e \in Eagers, d \in Contents}

(* A path nobody declared; a join table that a third class declares         *)
(* differently; one that the class declares a second time.                  *)
Third == Entity(tC, <<id>>, Uuids({}), <<Mate("links", A, Unset)>>,
                "links" :> Join(J, Unset, Unset), <<>>)
With(m, D, r, j) ==
  [m EXCEPT !.of[D].relations = Append(@, r), !.of[D].joins = (r.prop :> j) @@ @]
Broken ==
  {[model |-> m, rows |-> Rows(b1, b2) @@ (C :> NoJoin), links |-> (J :> {})] :
     m \in {Loadable(<<<<"up", "nowhere">>>>, <<>>),
            [Loadable(<<<<"mates">>>>, <<>>) EXCEPT !.of = @ @@ (C :> Third)],
            With(Loadable(<<<<"twins">>>>, <<>>), A, Mate("twins", B, Unset),
                 Join(J, Unset, Unset))}}
---------------------------------------------------------------------------
(* The model: relations of A and B in both directions with and without join *)
(* tables, a third class, primary keys and time-to-live of every kind.      *)
Default(t) == Join(t, Unset, Unset)
Joins == {Unset, Default(J), Join(J, x, y), Join(J, x, x), Default(K)}
Backs == {Unset, Default(J), Join(J, y, x)}

Some(p, target, inverse, j) ==
  [relation |-> Mate(p, target, inverse),
   joins    |-> IF j = Unset THEN NoJoin ELSE p :> j]
Firsts  == {Some("mates", B, "fans", j) : j \in Joins}
             \cup {Some("mates", B, Rejected, Default(J))}
Seconds == {Unset, Some("more", B, Unset, Default(K)), Some("more", B, Unset, Default(J)),
            Some("more", C, Unset, Default(J))}
Thirds  == {Unset, Some("links", A, Unset, Default(J)), Some("links", A, Unset, Default(K))}

All(S) == [relations |-> [n \in DOMAIN S |-> S[n].relation],
           joins     |-> FoldLeft(LAMBDA f, e : f @@ e.joins, NoJoin, S)]
Given(S) == SelectSeq(S, LAMBDA e : e # Unset)

Class3(pks, table, S, ttl) ==
  [Entity(table, pks, [c \in {id, b} |-> IF c = id THEN "Uuid" ELSE "Date"],
          All(Given(S)).relations, All(Given(S)).joins, <<>>) EXCEPT !.ttl = ttl]

Ttls == {Unset, [column |-> b, unit |-> Unset], [column |-> b, unit |-> "seconds"],
         [column |-> other, unit |-> Unset]}

Declared ==
  {Model(order, (A :> Class3(pks, tA, <<f, s>>, Unset)) @@
                (B :> Class3(<<b>>, tB, IF back = Unset THEN <<>>
                                        ELSE <<Some("fans", A, "mates", back.join)>>, Unset)) @@
                (C :> Class3(<<id>>, tC, <<t>>, Unset))) :
     order \in {<<A, B, C>>, <<C, B, A>>, <<A, B>>},
     pks \in {<<id>>, <<>>, <<id, b>>, <<other>>},
     f \in Firsts, s \in Seconds, t \in Thirds,
     back \in {Unset} \cup {[join |-> j] : j \in Backs}}
  \cup
  {Model(<<A, B, A>>, (A :> Class3(<<id>>, tA, <<f>>, ttl)) @@
                      (B :> Class3(<<b>>, t, <<>>, Unset))) :
     f \in Firsts, ttl \in Ttls, t \in {tA, tB, J}}
  \cup
  {Model(<<A, B>>, (A :> Entity(tA, <<id>>, Uuids({b}), ups, NoJoin, <<>>)) @@
                   (B :> Entity(tB, <<id>>, Uuids({b}), downs, NoJoin, <<>>))) :
     ups \in {<<Rel("up", "one-to-one", B, b, Unset)>>} \cup
             {<<Rel("up", t, B, c, Unset), Rel("also", u, B, b, Unset)>> :
                 t, u \in {"many-to-one", "one-to-one"}, c \in {b, other, Rejected}},
     downs \in {<<Rel("down", t, A, b, Unset), Rel("besides", u, A, c, Unset)>> :
                   t, u \in {"one-to-many", "one-to-one"}, c \in {b, id, Unset}}}

Declarations3 ==
  {[model |-> m, rows |-> [D \in DOMAIN m.of |-> NoJoin], links |-> NoJoin] : m \in Declared}

MCStarts == Loads \cup Broken \cup Declarations3
---------------------------------------------------------------------------
(* The calls: no transaction; the caller's; { trx } with and without an     *)
(* identity; { trx } inside another transaction.                            *)
Mode(trx, known, outer) == [trx |-> trx, known |-> known, outer |-> outer]
AllModes ==
  {Mode(FALSE, TRUE, Unset), Mode(FALSE, TRUE, [id |-> "own", trx |-> "outer"]),
   Mode(TRUE, TRUE, Unset), Mode(TRUE, FALSE, Unset),
   Mode(TRUE, TRUE, [id |-> "another", trx |-> "outer"])}
=============================================================================
