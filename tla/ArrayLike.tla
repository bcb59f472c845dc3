----------------------------- MODULE ArrayLike -----------------------------
(***************************************************************************)
(* What README.md ("PHP arrays") promises of a PHP array in JavaScript: an *)
(* array-like Map.  It has entries under integers and under strings, and a *)
(* length that follows the integer keys and cuts them off when it is       *)
(* written.  LastKey is the greatest key, which has no length above it.    *)
(***************************************************************************)
EXTENDS Integers

CONSTANTS Key, LastKey, Content

VARIABLES map, len
vars == <<map, len>>

Init == map \in [{} -> Content] /\ len = 0

\* An entry is written; the length is then above its key.
Put(k, x) ==
  /\ map' = [j \in DOMAIN map \cup {k} |-> IF j = k THEN x ELSE map[j]]
  /\ len' = IF k \in Int /\ k >= len THEN IF k = LastKey THEN k ELSE k + 1 ELSE len

\* An entry is removed: nothing is renumbered.
Delete(k) ==
  /\ map' = [j \in DOMAIN map \ {k} |-> map[j]]
  /\ len' = len

\* The length is written: no integer key is left at or above it.
SetLength(n) ==
  /\ map' = [j \in {k \in DOMAIN map : k \in Int => k < n \/ k = LastKey} |-> map[j]]
  /\ len' = n

\* Any client: the step tells what was written.
Next ==
  \/ \E k \in DOMAIN map' \cap Key : map'[k] \in Content /\ Put(k, map'[k])
  \/ \E k \in DOMAIN map : Delete(k)
  \/ len' \in 0 .. LastKey /\ SetLength(len')

Spec == Init /\ [][Next]_vars
=============================================================================
