--------------------------- MODULE WriteOnceCache ---------------------------
(***************************************************************************)
(* What the tool-cache promises the scripts that share it: a store of     *)
(* keys, each missing until one write fills it, after which it never      *)
(* changes.  Whatever the first write leaves there, a complete or a       *)
(* half-written entry, is what every later run sees.                      *)
(***************************************************************************)
CONSTANTS
    Keys,      \* the entries whose existence a script tests
    Values,    \* what a write can leave in an entry
    Missing    \* the content of an entry not yet written

VARIABLE cache

Init == cache = [k \in Keys |-> Missing]

(* A write to an entry that is still missing. *)
Fill(k, v) ==
    /\ cache[k] = Missing
    /\ cache' = [cache EXCEPT ![k] = v]

Next == \E k \in Keys, v \in Values : Fill(k, v)

Spec == Init /\ [][Next]_cache
=============================================================================
