------------------------------ MODULE OrderedMap ------------------------------
(***************************************************************************)
(* What the stable maps of the library promise: a finite map from keys to  *)
(* values, with the results of the operations.  A map is a function whose  *)
(* domain is the set of the keys present.  RepLog is built from two such   *)
(* maps.                                                                   *)
(***************************************************************************)

CONSTANT NoValue   \* the Option::None of a lookup

EmptyMap == [k \in {} |-> NoValue]

MapInsert(m, k, v) ==
  [x \in DOMAIN m \cup {k} |-> IF x = k THEN v ELSE m[x]]

MapRemove(m, k) == [x \in DOMAIN m \ {k} |-> m[x]]

MapGet(m, k) == IF k \in DOMAIN m THEN m[k] ELSE NoValue

(* m is a map with keys in K and values in V. *)
IsMap(m, K, V) == DOMAIN m \subseteq K /\ m \in [DOMAIN m -> V]

===============================================================================
