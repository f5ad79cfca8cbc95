----------------------------- MODULE FiniteMap -----------------------------
(***************************************************************************)
(* What hmap promises its callers: a finite map from keys to values.       *)
(***************************************************************************)
CONSTANTS Keys, Values, Absent

VARIABLE map         \* the value of each key, or Absent

Init == map = [k \in Keys |-> Absent]

Insert(k, v) == map' = [map EXCEPT ![k] = v]

Delete(k) == map[k] # Absent /\ map' = [map EXCEPT ![k] = Absent]

Clear == map' = [k \in Keys |-> Absent]

Next ==
    \/ \E k \in Keys, v \in Values : Insert(k, v)
    \/ \E k \in Keys : Delete(k)
    \/ Clear

Spec == Init /\ [][Next]_map
=============================================================================
