------------------------ MODULE MCMigrationRunner ------------------------
(* Small instances of MigrationRunner: one or two files, A before B. *)
EXTENDS MigrationRunner, TLC

CONSTANTS nA, nB, h1, h2, none, noRow

MCDerive == (h1 :> 1) @@ (h2 :> 2) @@ (nA :> 1) @@ (nB :> 2)

FileA == [name |-> nA, hash |-> h1]
FileB == [name |-> nB, hash |-> h2]

OneFile   == {<<FileA>>}
OldAndNew == {<<FileA>>, <<FileA, FileB>>}

EmptyTable == {[row |-> [i \in RowId |-> NoRow], older |-> {}]}
=============================================================================
