------------------------------- MODULE JsMap -------------------------------
(***************************************************************************)
(* A JavaScript Map as used through an immer draft (App.tsx:48-96): a      *)
(* sequence of [key, value] entries in insertion order.  Map.set on a key  *)
(* already present replaces its value and keeps its position; a new key    *)
(* goes to the end; Map.delete of an absent key does nothing.  Iteration   *)
(* (forEach, for..of) visits the entries in this order.                    *)
(***************************************************************************)
EXTENDS Naturals, Sequences

EmptyMap == <<>>

Keys(m) == {m[i].key : i \in DOMAIN m}

Values(m) == {m[i].value : i \in DOMAIN m}

MapHas(m, k) == k \in Keys(m)

MapSet(m, k, v) ==
    IF MapHas(m, k)
      THEN [i \in DOMAIN m |-> IF m[i].key = k THEN [key |-> k, value |-> v] ELSE m[i]]
      ELSE Append(m, [key |-> k, value |-> v])

MapDelete(m, k) == SelectSeq(m, LAMBDA e : e.key # k)

(* The contents of a map, forgetting the insertion order.                 *)
AsFunction(m) == [k \in Keys(m) |-> CHOOSE v \in Values(m) : [key |-> k, value |-> v] \in {m[i] : i \in DOMAIN m}]

(* Its values in iteration order.                                         *)
ValueSeq(m) == [i \in DOMAIN m |-> m[i].value]
=============================================================================
