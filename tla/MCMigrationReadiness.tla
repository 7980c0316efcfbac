----------------------- MODULE MCMigrationReadiness -----------------------
(* Small instances of MigrationReadiness: the directory changes between     *)
(* deployments (files added, renamed, edited, deleted, copied, compiled),   *)
(* and the table may hold a row of the format before hashes.                *)
EXTENDS MigrationReadiness, TLC

CONSTANTS nA, nB, nC, h1, h2, none, noRow

MCName   == {nA, nB, nC}
MCHash   == {h1, h2}
MCRowId  == 1..3
MCDerive == (h1 :> 1) @@ (h2 :> 2) @@ (nA :> 1) @@ (nB :> 2) @@ (nC :> 1)

F(n, h) ==
  [code |-> TRUE, stem |-> n, content |-> h, exports |-> 1, named |-> Unset, declared |-> NoHash]

(* A test beside the migrations.                                            *)
Test(n) == [F(n, h2) EXCEPT !.code = FALSE, !.exports = 0]

MCDirectories ==
  {Missing,
   <<F(nA, h1)>>,                                  \* the first migration
   <<F(nA, h1), Test(nA), F(nB, h2)>>,            \* a second one (gone with the list before)
   <<F(nB, h2), F(nC, h1)>>,                       \* the first renamed behind the second
   <<F(nA, h2)>>,                                  \* the first edited
   <<F(nA, h1), F(nB, h1)>>,                       \* a copy
   <<F(nA, h1), F(nA, h2)>>,                       \* a source and what it was compiled to
   <<F(nA, h1), [F(nB, h2) EXCEPT !.named = nA]>>, \* a name given twice
   <<[F(nA, h1) EXCEPT !.declared = h2]>>,         \* a hash that is not the file's
   <<[F(nA, h1) EXCEPT !.exports = 2]>>}           \* two migrations in one file

MCInputs == {LoadMigrationsFromDir(d) : d \in MCDirectories} \ {Refused}

Nothing == [row |-> [i \in MCRowId |-> noRow], older |-> {}]
Legacy  == [row |-> [i \in MCRowId |->
                       IF i = 3 THEN [name |-> nA, hash |-> none, state |-> "applied"]
                                ELSE noRow],
            older |-> {}]
AnyTable   == {Nothing, Legacy}
=============================================================================
