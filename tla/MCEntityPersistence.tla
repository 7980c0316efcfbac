------------------------ MODULE MCEntityPersistence ------------------------
(* Small instances of EntityPersistence: an eager and a lazy field.        *)
EXTENDS EntityPersistence, TLC

CONSTANTS k1, k2, a, h1, c1, c2

Symmetry == Permutations({k1, k2}) \cup Permutations({c1, c2})

(* Bounds: two calls overlap while there is one row at most; if both are   *)
(* saves, whatever is held or in flight is of the key of that row.         *)
OneRow == \A j, k \in Key : table[j] # None /\ table[k] # None => j = k

OneKey(k) ==
  /\ \A j \in Key : table[j] # None => j = k
  /\ \A c \in Call : call[c].key = k
  /\ \A h \in Live : inst[h].key = k /\ \A f \in Field : inst[h].val[f] \in Cipher => inst[h].val[f].key = k

Bounded ==
  (\A c \in Call : call[c] # None) =>
     OneRow /\ ((\A c \in Call : call[c].op = "save") => \E k \in Key : OneKey(k))
=============================================================================
