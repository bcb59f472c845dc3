------------------------------ MODULE PhpArray ------------------------------
(***************************************************************************)
(* A PHP array that JavaScript holds a wrapper of, with both sides using   *)
(* it: node_php_phpobject_class.cc, the operations PhpObject sends and the *)
(* ArrayInPhp methods that serve them, over the hash table of PHP 5.6.     *)
(*                                                                         *)
(* Each operation of JavaScript is one synchronous message, served in one  *)
(* go by the thread of PHP; the script does what it likes between two of   *)
(* them.  Array.prototype.push, README.md's own example, makes three.      *)
(***************************************************************************)
EXTENDS Values, Functions, FiniteSets

CONSTANTS
  StrKey,     \* the keys that are strings, but not the decimal form of a long
  UsedKeys,   \* the keys, lengths and values that the callers choose from,
  UsedLengths,
  JsUses,
  PhpUses,    \* those of the script for each key
  AsLong,     \* convert_to_long() of the values it has to interpret
  MaxElems,   \* bound: the entries of the array
  None

Key == Long \cup StrKey
Push == [at : 0 .. UIntMax, old : SUBSET Key, put : BOOLEAN]

ASSUME PhpArrayAssumption ==
  /\ UIntMax <= LongMax /\ UIntMax + 1 \in Double
  /\ StrKey \cap Int = {}
  /\ UsedKeys \subseteq Key /\ JsUses \cup UsedLengths \subseteq JsValue /\ PhpUses \in [Key -> SUBSET ZVal]
  /\ AsLong \in [Odd \cup Str \cup Buffer \cup Array \cup Other -> Long]
  /\ None \notin Push

VARIABLES
  elems,  \* the hash table: a function from the keys present
  next,   \* nNextFreeElement
  push    \* a push in progress: where it puts its element, and the keys there were
vars == <<elems, next, push>>

Init == elems = [k \in {} |-> Tag("null", Null)] /\ next = 0 /\ push = None

-----------------------------------------------------------------------------
(* The hash table of zend_symtable: a decimal string is the integer key.   *)

\* The counter that $a[] takes its key from; it sticks at the greatest long.
After(k) == IF k = LongMax THEN LongMax ELSE k + 1

Update(k, z) ==
  /\ Cardinality(DOMAIN elems \cup {k}) <= MaxElems
  /\ elems' = [j \in DOMAIN elems \cup {k} |-> IF j = k THEN z ELSE elems[j]]
  /\ next' = IF k \in Long /\ k >= next THEN After(k) ELSE next

Remove(keys) == elems' = Restrict(elems, DOMAIN elems \ keys)

-----------------------------------------------------------------------------
(* JavaScript.                                                              *)

\* The names that are an index of an array to V8; PropertyNamed serves the others.
Index == 0 .. UIntMax - 1

\* arr[k] = v.  A number that is no index is a name like any other, and what is
\* set under it is dropped ("Lie").
SetProperty(k, v) == IF k \in Index THEN Update(k, Sent(v)) ELSE UNCHANGED <<elems, next>>

\* arr.set(k, v), for every key.
MapSet(k, v) == Update(k, Sent(v))

\* delete arr[k], arr.delete(k).
DeleteProperty(k) == IF k \in Index THEN Remove({k}) /\ next' = next ELSE UNCHANGED <<elems, next>>
MapDelete(k) == Remove({k}) /\ next' = next

\* convert_to_long(): the doubles that are no long lose their high bits.
Wrapped(d) == ((d + LongMax + 1) % (2 * LongMax + 2)) - LongMax - 1
ToLong(z) ==
  CASE z.type = "long" -> z.v
    [] z.type = "null" -> 0
    [] z.type = "double" /\ z.v \in Int -> Wrapped(z.v)
    [] OTHER -> AsLong[z.v]

\* Mutation: "number of items" instead of "maximum index in hash".
LengthCounts == Tag("number", IntToJs(Cardinality(DOMAIN elems)))
\* arr.length: what the counter says, whatever the entries.
Length == Tag("number", IntToJs(next))

\* Mutation: the loop starts after the new length.
CutOffLate(nlen, olen) == nlen + 1 .. olen - 1
\* The keys that the loop from the new length to the old one deletes.
CutOff(nlen, olen) == nlen .. olen - 1

\* Mutation: the length is written, and no element deleted.
SetLengthOnly(v) == next' = (IF ToLong(Sent(v)) >= 0 THEN ToLong(Sent(v)) ELSE next) /\ UNCHANGED elems
\* arr.length = v (ArraySize): a negative number changes nothing.
SetLength(v) ==
  LET nlen == ToLong(Sent(v))
  IN IF nlen >= 0
     THEN Remove(CutOff(nlen, next)) /\ next' = nlen
     ELSE UNCHANGED <<elems, next>>

JsOperation ==
  /\ \/ \E k \in UsedKeys, v \in JsUses : SetProperty(k, v) \/ MapSet(k, v)
     \/ \E k \in UsedKeys : DeleteProperty(k) \/ MapDelete(k)
     \/ \E v \in UsedLengths : SetLength(v)
  /\ UNCHANGED push

\* Array.prototype.push.call(arr, v), up to the first length that is no index:
\* it reads the length, ...
PushBegin ==
  /\ push = None /\ next <= UIntMax
  /\ push' = [at |-> Length.v, old |-> DOMAIN elems, put |-> FALSE]
  /\ UNCHANGED <<elems, next>>
\* ... sets the element there ...
PushSet(v) ==
  /\ push # None /\ ~push.put
  /\ SetProperty(push.at, v)
  /\ push' = [push EXCEPT !.put = TRUE]
\* ... and writes the length it has now.
PushLength ==
  /\ push # None /\ push.put
  /\ SetLength(Tag("number", push.at + 1))
  /\ push' = None

-----------------------------------------------------------------------------
(* The script.                                                              *)

\* $a[] = z fails when the greatest key is taken.
Append(z) ==
  /\ next \notin DOMAIN elems
  /\ Update(next, z)
PhpOperation ==
  /\ \/ \E z \in PhpUses[next] : Append(z)
     \/ \E k \in UsedKeys : \E z \in PhpUses[k] : Update(k, z)
     \/ \E k \in UsedKeys : MapDelete(k)
  /\ UNCHANGED push

Next == \/ JsOperation \/ PhpOperation
        \/ PushBegin \/ (\E v \in JsUses : PushSet(v)) \/ PushLength

Spec == Init /\ [][Next]_vars

-----------------------------------------------------------------------------
(* Properties.                                                              *)

TypeOK ==
  /\ DOMAIN elems \in SUBSET Key /\ \A k \in DOMAIN elems : elems[k] \in ZVal
  /\ next \in 0 .. LongMax
  /\ push \in Push \cup {None}

\* "Length property is maximum index in hash": every integer key is below
\* the length, which code that treats the array as array-like relies on, however
\* both sides and the writes to nNextFreeElement alternate.  Only the greatest
\* long, above which there is no length, is allowed to be at it.
KeysBelowLength == \A k \in DOMAIN elems \cap Long : k < next \/ k = LongMax

\* An element that was there when a push began is not cut off by the length the
\* push writes, whatever the script did to the array in between (README.md,
\* Js\ByRef: Array.prototype.push.call(arr, 4)).
PushSparesOld ==
  [][push # None /\ push' = None => DOMAIN elems \cap push.old \subseteq DOMAIN elems']_vars

\* What PHP gets back for an element that JavaScript has read and sends again:
\* the same zval, or what the conversions make of it.
Returned(z, c) ==
  \/ c = z
  \/ z.type = "long" /\ z.v \notin IntRange
  \/ z.type = "double" /\ z.v \in IntRange
  \/ z.type = "string" /\ z.v \notin Utf8
  \/ z.type = "buffer" /\ Alike(c, z)
  \/ z.type = "array" /\ c = Tag("array", Named[z.v])
  \/ z.type \in {"wait", "resource"} /\ c = Tag("null", Null)

\* JavaScript copies an element, of this array or to another: it reads back what
\* it wrote, a buffer with the same bytes, unless the element is a string that is
\* not UTF-8 ("decoded as UTF8 to form a JavaScript string, which is then
\* re-encoded", README.md).  PHP finds the zval it had stored, but for a long of
\* more than 32 bits, a double that is a number of 32 bits, such a string, a buffer
\* and an array (copies), a Js\Wait and a resource (null).
CopiedBack ==
  \A k \in DOMAIN elems :
    LET z == elems[k]
        c == Sent(Read(z))
    IN /\ Returned(z, c)
       /\ Alike(Read(c), Read(z)) \/ (z.type = "string" /\ z.v \notin Utf8)

\* The array is an array-like Map of the values that JavaScript reads, with the
\* keys and the length in step, through every operation of both sides.
A == INSTANCE ArrayLike WITH LastKey <- LongMax, Content <- JsValue,
       map <- [k \in DOMAIN elems |-> Read(elems[k])], len <- next
ArrayLikeSpec == A!Spec
=============================================================================
