--------------------------- MODULE MCEntityWrites ---------------------------
(* A small instance of EntityWrites: three entities in batches of two, one  *)
(* of which may be refused, and uuids enough for a second try.              *)
EXTENDS EntityWrites, TLC

CONSTANTS h1, h2, h3, k1, k2, k3, k4, k5, k6, x, u, y, v, c1, c2, touched, now

Entity(value, flaw) == [key |-> Unset, val |-> (x :> value) @@ (u :> Unset) @@ (y :> Unset), flaw |-> flaw]

OneFlaw == {(h1 :> Entity(p, "none")) @@ (h2 :> Entity(v, f)) @@ (h3 :> Entity(v, "none")) :
              p \in {v, Unset}, f \in Flaw}
InTwo   == {<<h1, h2, h3>>}
=============================================================================
