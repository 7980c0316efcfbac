--------------------------- MODULE MCQueryBuilder ---------------------------
(* Users with a searchable encrypted column, a JSON document, a stamp, and *)
(* a relation of each kind; filters of each form.                          *)
EXTENDS QueryBuilder

Relation(type, target, join) == [type |-> type, target |-> target, join |-> join]

Tables ==
  [user |-> [columns |-> {"id", "age", "mail", "doc", "at", "team"}, pk |-> "id",
             encrypted |-> {"mail"}, index |-> [mail |-> "mail_bi"], json |-> {"doc"}, aad |-> {"id"},
             relations |->
               [posts |-> Relation("one-to-many", "post", "author"),
                home  |-> Relation("many-to-one", "team", "team"),
                teams |-> [owner |-> "user", inverse |-> "team"]
                            @@ Relation("many-to-many", "team", "member")]],
   post |-> [columns |-> {"id", "author", "stars"}, pk |-> "id", encrypted |-> {},
             index |-> <<>>, json |-> {}, aad |-> {}, relations |-> <<>>],
   team |-> [columns |-> {"id", "age"}, pk |-> "id", encrypted |-> {},
             index |-> <<>>, json |-> {}, aad |-> {}, relations |-> <<>>]]

User(id, age, mail, doc, at, team) ==
  [id |-> id, age |-> age, mail |-> mail, mail_bi |-> mail, doc |-> doc, at |-> at, team |-> team]

Users == {User(1, 1, 1, 0, 1, 1), User(1, 2, 2, 1, 1, Null), User(2, Null, 1, Null, 2, 1),
          User(2, 1, Null, 2, 2, 2), User(3, 2, 1, 2, Now, 2), User(3, 3, 2, 1, 2, 1)}

Contents ==
  {[post |-> {[id |-> 1, author |-> 1, stars |-> 1], [id |-> 2, author |-> 3, stars |-> 2],
              [id |-> 3, author |-> Null, stars |-> 2]},
    team |-> {[id |-> 1, age |-> 1], [id |-> 2, age |-> Null]},
    member |-> {[user |-> 2, team |-> 1], [user |-> 3, team |-> 2]}],
   [post |-> {}, team |-> {[id |-> 1, age |-> 2]}, member |-> {[user |-> 1, team |-> 1]}]}

Filters ==
  <<<<>>,
    <<Entry("age", Value(1))>>,
    <<Entry("age", Undefined)>>,
    <<Entry("age", IsNull), Entry("at", Value(2))>>,
    <<Entry("age", Ops(<<Op("$or", <<Ops(<<Op("$in", <<1, 3>>)>>), IsNull, Undefined>>)>>))>>,
    <<Entry("team", Ops(<<Op("$ne", Value(1)), Op("$between", <<1, 2>>)>>)), Entry("age", Ops(<<Op("$gt", Value(1))>>))>>,
    <<Entry("mail", Ops(<<Op("$eq", Value(1))>>)), Entry("id", Value(1))>>,
    <<Entry("mail_bi", Value(2)), Entry("id", Value(2))>>,
    <<Entry("posts", <<Entry("stars", Ops(<<Op("$gt", Value(1))>>))>>)>>,
    <<Entry("home", <<>>), Entry("at", Ops(<<Op("$lt", Value(2)), Op("$eq", Value(1))>>))>>,
    <<Entry("teams", <<Entry("$or", <<<<Entry("age", Value(1))>>, <<Entry("age", IsNull)>>>>)>>)>>,
    <<Entry("$or", <<<<Entry("age", Value(1))>>, <<Entry("team", Value(1)), Entry("mail", Value(2))>>>>)>>,
    <<Entry("$or", <<<<Entry("age", Undefined)>>, <<Entry("home", <<Entry("age", Value(1))>>)>>>>)>>,
    <<Entry("$and", <<<<Entry("age", Ops(<<Op("$lt", Value(3))>>))>>, <<Entry("age", Value(2))>>>>)>>>>

Sets ==
  <<[x \in {"age"} |-> 3], [x \in {"team"} |-> 2], [x \in {"mail"} |-> 2],
    [x \in {"mail", "age"} |-> Null], [x \in {"nick"} |-> 1]>>

Paths == {[column |-> "doc", path |-> 1], [column |-> "doc", path |-> 2]}
=============================================================================
