----------------------------- MODULE AbstractMap -----------------------------
(***************************************************************************)
(* What a map promises: putting a value at a key changes what the map      *)
(* holds at that key, and nothing else.                                    *)
(***************************************************************************)
CONSTANTS MapKeys, MapValues

VARIABLE map    \* a function from the keys that have a value

MapPutAt(k, v) == map' = [q \in DOMAIN map \cup {k} |-> IF q = k THEN v ELSE map[q]]

MapPut == \E k \in MapKeys, v \in MapValues : MapPutAt(k, v)

MapSpec == map = << >> /\ [][MapPut]_map
==============================================================================
