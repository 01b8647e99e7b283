------------------------------- MODULE SafeMap -------------------------------
(***************************************************************************)
(* What the threads that share a SafeHashMap rely on                       *)
(* (data_structures/safe_hash_map.h): a map whose operations come one      *)
(* after the other, except that clear empties it a part at a time.         *)
(***************************************************************************)

CONSTANTS
  Key, Value,
  Parts,   \* the sets of keys that clear removes together
  NotFound \* the answer of a find without success

VARIABLES
  map, \* the keys that are there -> their values
  out  \* the answer of the last find

Init == map = <<>> /\ out = NotFound

Find(k) ==
  /\ out' = IF k \in DOMAIN map THEN map[k] ELSE NotFound
  /\ UNCHANGED map

Remove(keys) ==
  /\ map' = [k \in DOMAIN map \ keys |-> map[k]]
  /\ UNCHANGED out

Insert(k, v) ==
  /\ map' = [j \in DOMAIN map \cup {k} |-> IF j = k THEN v ELSE map[j]]
  /\ UNCHANGED out

Next ==
  \/ \E k \in Key : Find(k) \/ Remove({k}) \/ \E v \in Value : Insert(k, v)
  \/ \E keys \in Parts : Remove(keys)

Spec == Init /\ [][Next]_<<map, out>>
=============================================================================
