--------------------------- MODULE PhpArrayProofs ---------------------------
(***************************************************************************)
(* Proofs about Values and PhpArray, for every width of the integers of    *)
(* both languages, every set of doubles that contains those of 32 bits,    *)
(* and arrays of any size.                                                 *)
(***************************************************************************)
EXTENDS PhpArray, TLAPS

LEMMA Widths ==
  /\ IntMin \in Int /\ UIntMax \in Nat /\ IntRange \subseteq Int /\ Long \subseteq Int
  /\ IntRange \subseteq Double /\ Double \subseteq Int /\ LongMax \in Nat /\ LongMax \in Long
BY ValuesAssumption, SMT DEF IntMin, UIntMax, IntRange, Long

\* Each kind of value of JavaScript, as it arrives in PHP.
LEMMA SentCases ==
  /\ \A n \in IntRange : Sent(Tag("number", n)) = Tag(IF n \in Long THEN "long" ELSE "double", n)
  /\ \A d \in (Double \cup Odd) \ IntRange : Sent(Tag("number", d)) = Tag("double", d)
  /\ \A t \in Text : Sent(Tag("string", t)) = Tag("string", Encode[t])
  /\ \A b \in Buffer : Sent(Tag("buffer", b)) = Tag("buffer", Made[Bytes[b]])
  /\ \A a : Sent(Tag("array", a)) = Tag("array", a)
  /\ \A o : Sent(Tag("other", o)) = Tag("other", o)
  /\ Sent(Tag("null", Null)) = Tag("null", Null)
  /\ Sent(Tag("undefined", Null)) = Tag("null", Null)
<1>1. ASSUME NEW n \in IntRange
      PROVE  Sent(Tag("number", n)) = Tag(IF n \in Long THEN "long" ELSE "double", n)
  <2>1. FromJs(Tag("number", n)) = Tag("Int", n)
    BY DEF FromJs, Tag
  <2> QED BY <2>1 DEF Sent, ToPhp, Tag
<1>2. ASSUME NEW d \in (Double \cup Odd) \ IntRange PROVE Sent(Tag("number", d)) = Tag("double", d)
  <2>1. FromJs(Tag("number", d)) = Tag("Double", d)
    BY DEF FromJs, Tag
  <2> QED BY <2>1 DEF Sent, ToPhp, Tag
<1>3. ASSUME NEW t \in Text PROVE Sent(Tag("string", t)) = Tag("string", Encode[t])
  <2>1. FromJs(Tag("string", t)) = Tag("Str", Encode[t])
    BY DEF FromJs, Tag
  <2> QED BY <2>1 DEF Sent, ToPhp, Tag
<1>4. ASSUME NEW b \in Buffer PROVE Sent(Tag("buffer", b)) = Tag("buffer", Made[Bytes[b]])
  <2>1. FromJs(Tag("buffer", b)) = Tag("Buf", Bytes[b])
    BY DEF FromJs, Tag
  <2> QED BY <2>1 DEF Sent, ToPhp, Tag
<1>5. ASSUME NEW a, NEW t \in {"array", "other"} PROVE Sent(Tag(t, a)) = Tag(t, a)
  <2>1. FromJs(Tag(t, a)) = Tag(t, a)
    BY DEF FromJs, Tag
  <2> QED BY <2>1 DEF Sent, ToPhp, Tag
<1>6. ASSUME NEW t \in {"null", "undefined"} PROVE Sent(Tag(t, Null)) = Tag("null", Null)
  <2>1. FromJs(Tag(t, Null)) = Tag("Null", Null)
    BY DEF FromJs, Tag
  <2> QED BY <2>1 DEF Sent, ToPhp, Tag
<1> QED BY <1>1, <1>2, <1>3, <1>4, <1>5, <1>6

\* Each kind of value of PHP, as JavaScript reads it.
LEMMA ReadCases ==
  /\ \A n \in Long : Read(Tag("long", n)) = Tag("number", IF n \in IntRange THEN n ELSE Rounded[n])
  /\ \A d : Read(Tag("double", d)) = Tag("number", d)
  /\ \A s \in Str : Read(Tag("string", s)) = Tag("string", Decode[s])
  /\ \A b \in Buffer : Read(Tag("buffer", b)) = Tag("buffer", Made[Bytes[b]])
  /\ \A a \in Array : Read(Tag("array", a)) = Tag("array", Named[a])
  /\ \A o : Read(Tag("other", o)) = Tag("other", o)
  /\ \A t \in {"null", "wait", "resource"} : Read(Tag(t, Null)) = Tag("null", Null)
<1>1. ASSUME NEW n \in Long
      PROVE  Read(Tag("long", n)) = Tag("number", IF n \in IntRange THEN n ELSE Rounded[n])
  <2>1. FromPhp(Tag("long", n)) = IF n \in IntRange THEN Tag("Int", n) ELSE Tag("Double", Rounded[n])
    BY DEF FromPhp, Tag
  <2> QED BY <2>1 DEF Read, ToJs, IntToJs, Tag
<1>2. ASSUME NEW d PROVE Read(Tag("double", d)) = Tag("number", d)
  <2>1. FromPhp(Tag("double", d)) = Tag("Double", d)
    BY DEF FromPhp, Tag
  <2> QED BY <2>1 DEF Read, ToJs, Tag
<1>3. ASSUME NEW s \in Str PROVE Read(Tag("string", s)) = Tag("string", Decode[s])
  <2>1. FromPhp(Tag("string", s)) = Tag("Str", s)
    BY DEF FromPhp, Tag
  <2> QED BY <2>1 DEF Read, ToJs, Tag
<1>4. ASSUME NEW b \in Buffer PROVE Read(Tag("buffer", b)) = Tag("buffer", Made[Bytes[b]])
  <2>1. FromPhp(Tag("buffer", b)) = Tag("Buf", Bytes[b])
    BY DEF FromPhp, Tag
  <2> QED BY <2>1 DEF Read, ToJs, Tag
<1>5. ASSUME NEW a \in Array PROVE Read(Tag("array", a)) = Tag("array", Named[a])
  <2>1. FromPhp(Tag("array", a)) = Tag("array", Named[a])
    BY DEF FromPhp, Tag
  <2> QED BY <2>1 DEF Read, ToJs, Tag
<1>6. ASSUME NEW o PROVE Read(Tag("other", o)) = Tag("other", o)
  <2>1. FromPhp(Tag("other", o)) = Tag("other", o)
    BY DEF FromPhp, Tag
  <2> QED BY <2>1 DEF Read, ToJs, Tag
<1>7. ASSUME NEW t \in {"null", "wait", "resource"} PROVE Read(Tag(t, Null)) = Tag("null", Null)
  <2>1. FromPhp(Tag(t, Null)) \in {Tag("Null", Null), Tag("Wait", Null)}
    BY DEF FromPhp, Tag
  <2> QED BY <2>1 DEF Read, ToJs, Tag
<1> QED BY <1>1, <1>2, <1>3, <1>4, <1>5, <1>6, <1>7

LEMMA ZValCases ==
  ASSUME NEW z \in ZVal
  PROVE  \/ \E n \in Long : z = Tag("long", n)
         \/ \E d \in Double \cup Odd : z = Tag("double", d)
         \/ \E s \in Str : z = Tag("string", s)
         \/ \E b \in Buffer : z = Tag("buffer", b)
         \/ \E a \in Array : z = Tag("array", a)
         \/ \E o \in Other : z = Tag("other", o)
         \/ \E t \in {"null", "wait", "resource"} : z = Tag(t, Null)
BY DEF ZVal, Tagged, Tag

LEMMA JsCases ==
  ASSUME NEW v \in JsValue
  PROVE  \/ \E n \in IntRange : v = Tag("number", n)
         \/ \E d \in (Double \cup Odd) \ IntRange : v = Tag("number", d)
         \/ \E t \in Text : v = Tag("string", t)
         \/ \E b \in Buffer : v = Tag("buffer", b)
         \/ \E a \in Array : v = Tag("array", a) /\ Named[a] = a
         \/ \E o \in Other : v = Tag("other", o)
         \/ v = Tag("null", Null)
         \/ v = Tag("undefined", Null)
BY DEF JsValue, Tagged, Tag

LEMMA TagTypes ==
  /\ \A n \in Long : Tag("long", n) \in ZVal
  /\ \A d \in Double \cup Odd : Tag("double", d) \in ZVal /\ Tag("number", d) \in JsValue
  /\ \A s \in Str : Tag("string", s) \in ZVal
  /\ \A t \in Text : Tag("string", t) \in JsValue
  /\ \A b \in Buffer : Tag("buffer", b) \in ZVal /\ Tag("buffer", b) \in JsValue
  /\ \A a \in Array : Tag("array", a) \in ZVal /\ (Named[a] = a => Tag("array", a) \in JsValue)
  /\ \A o \in Other : Tag("other", o) \in ZVal /\ Tag("other", o) \in JsValue
  /\ Tag("null", Null) \in ZVal /\ Tag("null", Null) \in JsValue
BY DEF ZVal, JsValue, Tagged, Tag

LEMMA SentIsZVal == ASSUME NEW v \in JsValue PROVE Sent(v) \in ZVal
<1>1. \A t \in Text : Encode[t] \in Str
  BY ValuesAssumption
<1>2. \A b \in Buffer : Made[Bytes[b]] \in Buffer
  BY ValuesAssumption
<1>3. \A n \in IntRange : Tag(IF n \in Long THEN "long" ELSE "double", n) \in ZVal
  BY TagTypes, Widths
<1> QED BY JsCases, SentCases, TagTypes, <1>1, <1>2, <1>3

LEMMA ReadIsJsValue == ASSUME NEW z \in ZVal PROVE Read(z) \in JsValue
<1>1. \A n \in Long : Tag("number", IF n \in IntRange THEN n ELSE Rounded[n]) \in JsValue
  BY TagTypes, Widths, ValuesAssumption
<1>2. \A s \in Str : Decode[s] \in Text
  BY ValuesAssumption
<1>3. \A b \in Buffer : Made[Bytes[b]] \in Buffer
  BY ValuesAssumption
<1>4. \A a \in Array : Named[a] \in Array /\ Named[Named[a]] = Named[a]
  BY ValuesAssumption
<1> QED BY ZValCases, ReadCases, TagTypes, <1>1, <1>2, <1>3, <1>4

\* A buffer made of the bytes of one, and one made of its bytes in turn.
LEMMA CopiesOfBuffers ==
  ASSUME NEW b \in Buffer
  PROVE  /\ Made[Bytes[b]] \in Buffer
         /\ Bytes[Made[Bytes[b]]] = Bytes[b]
BY ValuesAssumption

\* What JavaScript sends and reads back (values.h:504-536, 223-390): numbers of
\* every width, booleans, objects and wrappers of arrays are the same; a string is
\* the same if no surrogate in it stands alone; a buffer is another with the same
\* bytes; undefined has become null.
THEOREM RoundTrip ==
  ASSUME NEW v \in JsValue
  PROVE  /\ v.type \in {"number", "array", "other", "null"} => Read(Sent(v)) = v
         /\ v.type = "string" /\ v.v \in Unicode => Read(Sent(v)) = v
         /\ v.type = "buffer" => Alike(Read(Sent(v)), v)
         /\ v.type = "undefined" => Read(Sent(v)) = Tag("null", Null)
<1>1. ASSUME NEW n \in IntRange, v = Tag("number", n) PROVE Read(Sent(v)) = v
  BY <1>1, SentCases, ReadCases
<1>2. ASSUME NEW d \in (Double \cup Odd) \ IntRange, v = Tag("number", d) PROVE Read(Sent(v)) = v
  BY <1>2, SentCases, ReadCases
<1>3. ASSUME NEW t \in Text, v = Tag("string", t), t \in Unicode PROVE Read(Sent(v)) = v
  <2>1. Encode[t] \in Str /\ Decode[Encode[t]] = t
    BY <1>3, ValuesAssumption
  <2> QED BY <1>3, <2>1, SentCases, ReadCases
<1>4. ASSUME NEW b \in Buffer, v = Tag("buffer", b) PROVE Alike(Read(Sent(v)), v)
  <2>1. Read(Sent(v)) = Tag("buffer", Made[Bytes[Made[Bytes[b]]]])
    BY <1>4, CopiesOfBuffers, SentCases, ReadCases
  <2> QED BY <1>4, <2>1, CopiesOfBuffers DEF Alike, Tag
<1>5. ASSUME NEW a \in Array, v = Tag("array", a), Named[a] = a PROVE Read(Sent(v)) = v
  BY <1>5, SentCases, ReadCases
<1>6. ASSUME NEW o \in Other, v = Tag("other", o) PROVE Read(Sent(v)) = v
  BY <1>6, SentCases, ReadCases
<1>7. Read(Sent(Tag("null", Null))) = Tag("null", Null) /\ Read(Sent(Tag("undefined", Null))) = Tag("null", Null)
  BY SentCases, ReadCases
<1> QED BY <1>1, <1>2, <1>3, <1>4, <1>5, <1>6, <1>7, JsCases DEF Tag

-----------------------------------------------------------------------------
(* The table.                                                               *)

\* A push knows the keys there were, and they are below the place it read.
OldBelow == push # None => \A k \in push.old \cap Long : k < push.at \/ k = LongMax

IInv == TypeOK /\ KeysBelowLength /\ OldBelow

LEMMA KeyTypes ==
  /\ \A k \in Key : k \in Int <=> k \in Long
  /\ Long \subseteq Key /\ 0 \in Long /\ Index \subseteq Long /\ 0 .. LongMax \subseteq Long
  /\ UIntMax \in 0 .. LongMax /\ UIntMax + 1 \in Int
BY PhpArrayAssumption, Widths, SMT DEF Key, Long, Index

\* The length after the place of a push.
LEMMA AfterPlace ==
  ASSUME NEW n \in 0 .. UIntMax
  PROVE  n + 1 \in IntRange \cup {UIntMax + 1} /\ n + 1 \in 0 .. LongMax + 1
<1>1. IntMax \in Nat /\ LongMax \in Nat
  BY ValuesAssumption
<1> QED BY <1>1, KeyTypes, SMT DEF IntRange, IntMin, UIntMax

\* The table after an entry is written.
LEMMA UpdateFacts ==
  ASSUME TypeOK, KeysBelowLength, NEW k \in Key, NEW z \in ZVal, Update(k, z)
  PROVE  /\ DOMAIN elems' = DOMAIN elems \cup {k}
         /\ \A j \in DOMAIN elems' : elems'[j] = IF j = k THEN z ELSE elems[j]
         /\ next' = (IF k \in Long /\ k >= next THEN After(k) ELSE next)
         /\ next' \in 0 .. LongMax /\ next <= next'
         /\ KeysBelowLength'
<1>1. /\ DOMAIN elems' = DOMAIN elems \cup {k}
      /\ \A j \in DOMAIN elems' : elems'[j] = IF j = k THEN z ELSE elems[j]
      /\ next' = (IF k \in Long /\ k >= next THEN After(k) ELSE next)
  BY DEF Update
<1>2. next' \in 0 .. LongMax /\ next <= next' /\ (k \in Long => k < next' \/ k = LongMax)
  BY <1>1, Widths, SMT DEF After, TypeOK, Long
<1>3. ASSUME NEW j \in DOMAIN elems', j \in Long PROVE j < next' \/ j = LongMax
  <2>1. CASE j = k
    BY <1>2, <1>3, <2>1
  <2>2. CASE j \in DOMAIN elems
    <3>1. j < next \/ j = LongMax
      BY <1>3, <2>2 DEF KeysBelowLength
    <3> QED BY <1>2, <1>3, <3>1, Widths, SMT DEF TypeOK
  <2> QED BY <1>1, <2>1, <2>2
<1>4. KeysBelowLength'
  BY <1>3 DEF KeysBelowLength
<1> QED BY <1>1, <1>2, <1>4

\* The table after entries are removed.
LEMMA RemoveFacts ==
  ASSUME NEW keys, Remove(keys)
  PROVE  /\ DOMAIN elems' = DOMAIN elems \ keys
         /\ \A j \in DOMAIN elems' : elems'[j] = elems[j]
BY DEF Remove, Restrict

\* The kinds that convert_to_long is called with.
LEMMA SentKinds ==
  ASSUME NEW v \in JsValue
  PROVE  Sent(v).type \in {"long", "double", "string", "buffer", "array", "other", "null"}
<1>1. \A t, x : Tag(t, x).type = t
  BY DEF Tag
<1> QED BY <1>1, JsCases, SentCases

LEMMA ToLongIsLong == ASSUME NEW v \in JsValue PROVE ToLong(Sent(v)) \in Long
<1> DEFINE z == Sent(v)
<1>0. z \in ZVal /\ z.type \notin {"wait", "resource"}
  <2>1. z.type \in {"long", "double", "string", "buffer", "array", "other", "null"}
    BY SentKinds
  <2> QED BY <2>1, SentIsZVal
<1> HIDE DEF z
<1>1. ASSUME NEW n \in Long, z = Tag("long", n) PROVE ToLong(z) \in Long
  BY <1>1 DEF ToLong, Tag
<1>2. ASSUME NEW d \in Double \cup Odd, z = Tag("double", d) PROVE ToLong(z) \in Long
  <2>1. CASE d \in Int
    <3>1. ToLong(z) = Wrapped(d)
      BY <1>2, <2>1 DEF ToLong, Tag
    <3>2. LongMax \in Nat
      BY Widths
    <3>3. (d + LongMax + 1) % (2 * LongMax + 2) \in 0 .. 2 * LongMax + 1
      BY <2>1, <3>2, SMT
    <3>4. Wrapped(d) \in Long
      BY <3>2, <3>3, SMT DEF Wrapped, Long
    <3> QED BY <3>1, <3>4
  <2>2. CASE d \notin Int
    <3>1. d \in Odd
      BY <2>2, Widths
    <3>2. ToLong(z) = AsLong[d]
      BY <1>2, <2>2 DEF ToLong, Tag
    <3> QED BY <3>1, <3>2, PhpArrayAssumption
  <2> QED BY <2>1, <2>2
<1>3. ASSUME NEW x \in Str \cup Buffer \cup Array \cup Other, NEW t \in {"string", "buffer", "array", "other"},
             z = Tag(t, x)
      PROVE  ToLong(z) \in Long
  <2>1. ToLong(z) = AsLong[x]
    BY <1>3 DEF ToLong, Tag
  <2> QED BY <2>1, PhpArrayAssumption
<1>4. ASSUME NEW t \in {"null", "wait", "resource"}, z = Tag(t, Null) PROVE ToLong(z) \in Long
  <2>1. z = Tag("null", Null)
    BY <1>0, <1>4 DEF Tag
  <2> QED BY <2>1, KeyTypes DEF ToLong, Tag
<1>5. ToLong(z) \in Long
  BY <1>0, <1>1, <1>2, <1>3, <1>4, ZValCases
<1> QED BY <1>5 DEF z

\* The table after the length is written.
LEMMA SetLengthFacts ==
  ASSUME TypeOK, KeysBelowLength, NEW v \in JsValue, SetLength(v)
  PROVE  \/ UNCHANGED <<elems, next>>
         \/ /\ next' = ToLong(Sent(v)) /\ next' \in 0 .. LongMax
            /\ DOMAIN elems' = {k \in DOMAIN elems : k \in Int => k < next' \/ k = LongMax}
            /\ \A j \in DOMAIN elems' : elems'[j] = elems[j]
            /\ KeysBelowLength'
<1> DEFINE n == ToLong(Sent(v))
<1>1. n \in Long
  BY ToLongIsLong
<1>2. CASE ~(n >= 0)
  BY <1>2 DEF SetLength
<1>3. CASE n >= 0
  <2>1. Remove(CutOff(n, next)) /\ next' = n
    BY <1>3 DEF SetLength
  <2>2. n \in 0 .. LongMax
    BY <1>1, <1>3, Widths, SMT DEF Long
  <2>3. DOMAIN elems' = DOMAIN elems \ CutOff(n, next) /\ \A j \in DOMAIN elems' : elems'[j] = elems[j]
    BY <2>1, RemoveFacts
  <2>4. ASSUME NEW k \in DOMAIN elems
        PROVE  k \notin CutOff(n, next) <=> (k \in Int => k < n \/ k = LongMax)
    <3>1. k \in Key
      BY DEF TypeOK
    <3>2. CASE k \in Long
      <4>1. k < next \/ k = LongMax
        BY <3>2 DEF KeysBelowLength
      <4> QED BY <3>2, <4>1, <2>2, Widths, SMT DEF CutOff, TypeOK, Long
    <3>3. CASE k \notin Long
      <4>1. k \notin Int
        BY <3>1, <3>3, KeyTypes
      <4> QED BY <4>1, <2>2, Widths, SMT DEF CutOff, TypeOK
    <3> QED BY <3>2, <3>3
  <2>5. DOMAIN elems' = {k \in DOMAIN elems : k \in Int => k < n \/ k = LongMax}
    BY <2>3, <2>4
  <2>6. KeysBelowLength'
    BY <2>1, <2>5, KeyTypes DEF KeysBelowLength
  <2> QED BY <2>1, <2>2, <2>3, <2>5, <2>6
<1> QED BY <1>2, <1>3

-----------------------------------------------------------------------------
(* The steps.                                                               *)

\* Every operation, of either side, as one of three changes of the table.
Written == \E k \in Key, z \in ZVal : Update(k, z)
Removed == \E k \in Key : Remove({k}) /\ next' = next
Resized == \E v \in JsValue : SetLength(v)
Changed == Written \/ Removed \/ Resized \/ UNCHANGED <<elems, next>>

LEMMA SetPropertyChanges ==
  ASSUME NEW k, NEW v \in JsValue, SetProperty(k, v) PROVE Written \/ UNCHANGED <<elems, next>>
<1>1. CASE k \in Index
  BY <1>1, KeyTypes, SentIsZVal DEF SetProperty, Written
<1>2. CASE k \notin Index
  BY <1>2 DEF SetProperty
<1> QED BY <1>1, <1>2

LEMMA PushTypes ==
  ASSUME TypeOK, push # None
  PROVE  push.at \in 0 .. UIntMax /\ push.old \in SUBSET Key /\ push.put \in BOOLEAN
BY DEF TypeOK, Push

LEMMA StepChanges == ASSUME TypeOK, Next PROVE Changed
<1> USE PhpArrayAssumption
<1>1. CASE JsOperation
  <2>1. ASSUME NEW k \in UsedKeys, NEW v \in JsUses, SetProperty(k, v) \/ MapSet(k, v) PROVE Changed
    BY <2>1, SetPropertyChanges, SentIsZVal DEF MapSet, Changed, Written
  <2>2. ASSUME NEW k \in UsedKeys, DeleteProperty(k) \/ MapDelete(k) PROVE Changed
    BY <2>2 DEF DeleteProperty, MapDelete, Changed, Removed
  <2>3. ASSUME NEW v \in UsedLengths, SetLength(v) PROVE Changed
    BY <2>3 DEF Changed, Resized
  <2> QED BY <1>1, <2>1, <2>2, <2>3 DEF JsOperation
<1>2. CASE PhpOperation
  <2>1. ASSUME NEW z \in PhpUses[next], Append(z) PROVE Changed
    <3>1. next \in Key
      BY KeyTypes DEF TypeOK
    <3>2. z \in ZVal
      BY <3>1
    <3> QED BY <2>1, <3>1, <3>2 DEF Append, Changed, Written
  <2>2. ASSUME NEW k \in UsedKeys, NEW z \in PhpUses[k], Update(k, z) PROVE Changed
    <3>1. k \in Key /\ z \in ZVal
      OBVIOUS
    <3> QED BY <2>2, <3>1 DEF Changed, Written
  <2>3. ASSUME NEW k \in UsedKeys, MapDelete(k) PROVE Changed
    BY <2>3 DEF MapDelete, Changed, Removed
  <2> QED BY <1>2, <2>1, <2>2, <2>3 DEF PhpOperation
<1>3. CASE PushBegin
  BY <1>3 DEF PushBegin, Changed
<1>4. ASSUME NEW v \in JsUses, PushSet(v) PROVE Changed
  BY <1>4, SetPropertyChanges DEF PushSet, Changed
<1>5. CASE PushLength
  <2>1. push # None /\ SetLength(Tag("number", push.at + 1))
    BY <1>5 DEF PushLength
  <2>2. Tag("number", push.at + 1) \in JsValue
    <3>1. push.at \in 0 .. UIntMax
      BY <2>1, PushTypes
    <3>2. push.at + 1 \in IntRange \cup {UIntMax + 1}
      BY <3>1, AfterPlace
    <3> QED BY <3>2, Widths, PhpArrayAssumption, TagTypes
  <2> QED BY <2>1, <2>2 DEF Changed, Resized
<1> QED BY <1>1, <1>2, <1>3, <1>4, <1>5 DEF Next

\* What a change leaves of the types and of the bound on the keys.
LEMMA ChangeKeeps ==
  ASSUME TypeOK, KeysBelowLength, Changed
  PROVE  /\ DOMAIN elems' \in SUBSET Key /\ \A k \in DOMAIN elems' : elems'[k] \in ZVal
         /\ next' \in 0 .. LongMax
         /\ KeysBelowLength'
<1>1. ASSUME NEW k \in Key, NEW z \in ZVal, Update(k, z)
      PROVE  /\ DOMAIN elems' \in SUBSET Key /\ \A j \in DOMAIN elems' : elems'[j] \in ZVal
             /\ next' \in 0 .. LongMax /\ KeysBelowLength'
  <2>1. /\ DOMAIN elems' = DOMAIN elems \cup {k}
        /\ \A j \in DOMAIN elems' : elems'[j] = IF j = k THEN z ELSE elems[j]
        /\ next' \in 0 .. LongMax /\ KeysBelowLength'
    BY <1>1, UpdateFacts
  <2>2. ASSUME NEW j \in DOMAIN elems' PROVE elems'[j] \in ZVal
    BY <1>1, <2>1, <2>2 DEF TypeOK
  <2> QED BY <2>1, <2>2 DEF TypeOK
<1>2. ASSUME NEW k \in Key, Remove({k}), next' = next
      PROVE  /\ DOMAIN elems' \in SUBSET Key /\ \A j \in DOMAIN elems' : elems'[j] \in ZVal
             /\ next' \in 0 .. LongMax /\ KeysBelowLength'
  BY <1>2, RemoveFacts DEF TypeOK, KeysBelowLength
<1>3. ASSUME UNCHANGED <<elems, next>>
      PROVE  /\ DOMAIN elems' \in SUBSET Key /\ \A j \in DOMAIN elems' : elems'[j] \in ZVal
             /\ next' \in 0 .. LongMax /\ KeysBelowLength'
  BY <1>3 DEF TypeOK, KeysBelowLength
<1>4. ASSUME NEW v \in JsValue, SetLength(v)
      PROVE  /\ DOMAIN elems' \in SUBSET Key /\ \A j \in DOMAIN elems' : elems'[j] \in ZVal
             /\ next' \in 0 .. LongMax /\ KeysBelowLength'
  BY <1>3, <1>4, SetLengthFacts DEF TypeOK
<1> QED BY <1>1, <1>2, <1>3, <1>4 DEF Changed, Written, Removed, Resized

\* The push keeps what it read.
LEMMA PushKeeps ==
  ASSUME IInv, Next
  PROVE  /\ push' \in Push \cup {None}
         /\ OldBelow'
<1> USE DEF IInv
<1>1. CASE UNCHANGED push
  BY <1>1 DEF TypeOK, OldBelow
<1>2. CASE PushBegin
  <2>1. next \in 0 .. UIntMax
    BY <1>2, Widths, SMT DEF PushBegin, TypeOK
  <2>2. next \in IntRange
    BY <2>1, ValuesAssumption, SMT DEF IntRange, IntMin, UIntMax
  <2>3. Length.v = next
    BY <2>2 DEF Length, IntToJs, Tag
  <2>4. push' = [at |-> next, old |-> DOMAIN elems, put |-> FALSE]
    BY <1>2, <2>3 DEF PushBegin
  <2> QED BY <2>1, <2>4 DEF TypeOK, OldBelow, KeysBelowLength, Push
<1>3. ASSUME NEW v \in JsUses, PushSet(v)
      PROVE  /\ push' \in Push \cup {None}
             /\ OldBelow'
  <2>1. push # None /\ push' = [push EXCEPT !.put = TRUE]
    BY <1>3 DEF PushSet
  <2>2. push \in Push
    BY <2>1 DEF TypeOK
  <2>3. push' \in Push
    BY <2>1, <2>2 DEF Push
  <2>4. push'.at = push.at /\ push'.old = push.old
    BY <2>1, <2>2 DEF Push
  <2> QED BY <2>1, <2>3, <2>4 DEF OldBelow
<1>4. CASE PushLength
  BY <1>4 DEF PushLength, OldBelow
<1> QED BY <1>1, <1>2, <1>3, <1>4 DEF Next, JsOperation, PhpOperation

\* Types, keys below the length, and a push above what it found: through every
\* interleaving of the operations of JavaScript and PHP.
THEOREM Invariance == Spec => []IInv
<1>1. Init => IInv
  <2>1. ASSUME Init PROVE DOMAIN elems = {} /\ next = 0 /\ push = None
    BY <2>1 DEF Init
  <2> QED BY <2>1, Widths, SMT DEF IInv, TypeOK, KeysBelowLength, OldBelow
<1>2. IInv /\ [Next]_vars => IInv'
  <2> SUFFICES ASSUME IInv, [Next]_vars PROVE IInv' OBVIOUS
  <2>1. CASE Next
    BY <2>1, StepChanges, ChangeKeeps, PushKeeps DEF IInv, TypeOK
  <2>2. CASE UNCHANGED vars
    BY <2>2 DEF vars, IInv, TypeOK, KeysBelowLength, OldBelow
  <2> QED BY <2>1, <2>2
<1> QED BY <1>1, <1>2, PTL DEF Spec

\* The table, the counter and the push keep their types.
THEOREM ArrayTypes == Spec => []TypeOK
BY Invariance, PTL DEF IInv

\* Every integer key is below the length that JavaScript reads, for any
\* interleaving of any operations of both sides.
THEOREM LengthAboveKeys == Spec => []KeysBelowLength
BY Invariance, PTL DEF IInv

\* What a push found is not cut off by its end.
THEOREM OldSpared == Spec => PushSparesOld
<1>1. ASSUME IInv, Next, push # None, push' = None
      PROVE  DOMAIN elems \cap push.old \subseteq DOMAIN elems'
  <2>1. PushLength
    <3>1. ASSUME NEW v \in JsUses, PushSet(v) PROVE FALSE
      <4>1. push \in Push /\ push' = [push EXCEPT !.put = TRUE]
        BY <1>1, <3>1 DEF PushSet, IInv, TypeOK
      <4>2. push' \in Push
        BY <4>1 DEF Push
      <4> QED BY <1>1, <4>2, PhpArrayAssumption
    <3> QED BY <1>1, <3>1 DEF Next, JsOperation, PhpOperation, PushBegin
  <2>2. SetLength(Tag("number", push.at + 1))
    BY <2>1 DEF PushLength
  <2>3. push.at \in 0 .. UIntMax /\ push.old \in SUBSET Key
    BY <1>1, PushTypes DEF IInv
  <2>4. Tag("number", push.at + 1) \in JsValue
    <3>1. push.at + 1 \in IntRange \cup {UIntMax + 1}
      BY <2>3, AfterPlace
    <3> QED BY <3>1, PhpArrayAssumption, Widths, TagTypes
  <2>5. CASE UNCHANGED <<elems, next>>
    BY <2>5
  <2>6. CASE /\ next' = ToLong(Sent(Tag("number", push.at + 1))) /\ next' \in 0 .. LongMax
             /\ DOMAIN elems' = {k \in DOMAIN elems : k \in Int => k < next' \/ k = LongMax}
    <3> DEFINE n == push.at + 1
    <3>1. n \in Double /\ n \in 0 .. LongMax + 1
      <4>1. n \in IntRange \cup {UIntMax + 1} /\ n \in 0 .. LongMax + 1
        BY <2>3, AfterPlace
      <4> QED BY <4>1, Widths, PhpArrayAssumption
    <3>2. next' = n \/ next' = Wrapped(n)
      <4>1. Sent(Tag("number", n)) = Tag("long", n) \/ Sent(Tag("number", n)) = Tag("double", n)
        BY <3>1, SentCases
      <4>2. n \in Int
        BY <3>1, Widths
      <4> HIDE DEF n
      <4> QED BY <2>6, <4>1, <4>2 DEF ToLong, Tag, n
    <3>3. next' = n
      <4>1. \A a, b \in Nat : a < b => a % b = a
        BY SMT
      <4>2. \A b \in Nat : b > 0 => b % b = 0
        BY SMT
      <4>3. CASE n = LongMax + 1
        <5>1. n + LongMax + 1 = 2 * LongMax + 2 /\ 2 * LongMax + 2 \in Nat /\ 2 * LongMax + 2 > 0
          BY <4>3, Widths, SMT
        <5>2. Wrapped(n) = -LongMax - 1
          BY <5>1, <4>2, Widths, SMT DEF Wrapped
        <5> QED BY <5>2, <3>2, <2>6, Widths, SMT
      <4>4. CASE n # LongMax + 1
        <5>1. /\ n + LongMax + 1 \in Nat /\ 2 * LongMax + 2 \in Nat
              /\ n + LongMax + 1 < 2 * LongMax + 2
          BY <4>4, <3>1, Widths, SMT
        <5>2. (n + LongMax + 1) % (2 * LongMax + 2) = n + LongMax + 1
          BY <5>1, <4>1
        <5>3. Wrapped(n) = n
          BY <5>1, <5>2, <3>1, Widths, SMT DEF Wrapped
        <5> QED BY <5>3, <3>2
      <4> QED BY <4>3, <4>4
    <3>4. next' > push.at /\ next' \in Int
      BY <3>3, <2>3, Widths, SMT
    <3>5. ASSUME NEW k \in DOMAIN elems \cap push.old PROVE k \in DOMAIN elems'
      <4>1. k \in Int => k \in Long
        BY <2>3, KeyTypes
      <4>2. k \in Int => k < push.at \/ k = LongMax
        BY <1>1, <4>1 DEF IInv, OldBelow
      <4> QED BY <2>3, <2>6, <3>4, <4>2, Widths, SMT
    <3> QED BY <3>5
  <2> QED BY <1>1, <2>2, <2>4, <2>5, <2>6, SetLengthFacts DEF IInv
<1>2. IInv /\ [Next]_vars => (push # None /\ push' = None => DOMAIN elems \cap push.old \subseteq DOMAIN elems') \/ UNCHANGED vars
  BY <1>1 DEF vars
<1> QED BY <1>2, Invariance, PTL DEF Spec, PushSparesOld

-----------------------------------------------------------------------------
(* What an element is to both languages.                                    *)

\* What PHP gets back, kind by kind.
LEMMA ReturnedCases ==
  ASSUME NEW z \in ZVal
  PROVE  Returned(z, Sent(Read(z)))
<1> DEFINE c == Sent(Read(z))
<1>0. ASSUME NEW t, NEW x, z = Tag(t, x) PROVE z.type = t /\ z.v = x
  BY <1>0 DEF Tag
<1>1. ASSUME NEW n \in Long, z = Tag("long", n) PROVE c = z \/ (z.type = "long" /\ z.v \notin IntRange)
  <2>1. CASE n \in IntRange
    BY <1>1, <2>1, ReadCases, SentCases
  <2>2. CASE n \notin IntRange
    BY <1>0, <1>1, <2>2
  <2> QED BY <2>1, <2>2
<1>2. ASSUME NEW d \in Double \cup Odd, z = Tag("double", d)
      PROVE  c = z \/ (z.type = "double" /\ z.v \in IntRange)
  <2>1. CASE d \in IntRange
    BY <1>0, <1>2, <2>1
  <2>2. CASE d \notin IntRange
    BY <1>2, <2>2, ReadCases, SentCases
  <2> QED BY <2>1, <2>2
<1>3. ASSUME NEW s \in Str, z = Tag("string", s) PROVE c = z \/ (z.type = "string" /\ z.v \notin Utf8)
  <2>1. CASE s \in Utf8
    <3>1. Decode[s] \in Text /\ Encode[Decode[s]] = s
      BY <2>1, ValuesAssumption
    <3> QED BY <1>3, <3>1, ReadCases, SentCases
  <2>2. CASE s \notin Utf8
    BY <1>0, <1>3, <2>2
  <2> QED BY <2>1, <2>2
<1>4. ASSUME NEW b \in Buffer, z = Tag("buffer", b) PROVE z.type = "buffer" /\ Alike(c, z)
  <2>1. c = Tag("buffer", Made[Bytes[Made[Bytes[b]]]])
    BY <1>4, CopiesOfBuffers, ReadCases, SentCases
  <2>2. Bytes[Made[Bytes[Made[Bytes[b]]]]] = Bytes[b]
    BY CopiesOfBuffers
  <2> QED BY <1>4, <2>1, <2>2 DEF Alike, Tag
<1>5. ASSUME NEW a \in Array, z = Tag("array", a) PROVE z.type = "array" /\ c = Tag("array", Named[z.v])
  BY <1>0, <1>5, ReadCases, SentCases
<1>6. ASSUME NEW o \in Other, z = Tag("other", o) PROVE c = z
  BY <1>6, ReadCases, SentCases
<1>7. ASSUME NEW t \in {"null", "wait", "resource"}, z = Tag(t, Null)
      PROVE  c = z \/ (z.type \in {"wait", "resource"} /\ c = Tag("null", Null))
  <2>1. c = Tag("null", Null)
    BY <1>7, ReadCases, SentCases
  <2> QED BY <1>0, <1>7, <2>1
<1> HIDE DEF c
<1>8. Returned(z, c)
  BY <1>1, <1>2, <1>3, <1>4, <1>5, <1>6, <1>7, ZValCases DEF Returned
<1> QED BY <1>8 DEF c

\* What JavaScript reads of its own copy: RoundTrip, and for a string that is
\* UTF-8 what it read before.
LEMMA ReadAgain ==
  ASSUME NEW z \in ZVal, ~(z.type = "string" /\ z.v \notin Utf8)
  PROVE  Alike(Read(Sent(Read(z))), Read(z))
<1>1. Read(z) \in JsValue
  BY ReadIsJsValue
<1>2. ASSUME NEW s \in Str, z = Tag("string", s) PROVE Read(Sent(Read(z))) = Read(z)
  <2>1. s \in Utf8
    BY <1>2 DEF Tag
  <2>2. Decode[s] \in Text /\ Encode[Decode[s]] = s
    BY <2>1, ValuesAssumption
  <2> QED BY <1>2, <2>2, ReadCases, SentCases
<1>3. ASSUME ~\E s \in Str : z = Tag("string", s)
      PROVE  Read(z).type \in {"number", "buffer", "array", "other", "null"}
  <2>1. \A t, x : Tag(t, x).type = t
    BY DEF Tag
  <2> QED BY <1>3, <2>1, ReadCases, ZValCases
<1>4. CASE \E s \in Str : z = Tag("string", s)
  BY <1>2, <1>4 DEF Alike
<1>5. CASE ~\E s \in Str : z = Tag("string", s)
  BY <1>1, <1>3, <1>5, RoundTrip DEF Alike
<1> QED BY <1>4, <1>5

\* An element that JavaScript copies stays what it was to JavaScript, unless it is
\* a string that is not UTF-8, and to PHP but for the kinds that Returned names.
THEOREM CopiesAgree == Spec => []CopiedBack
<1>1. TypeOK => CopiedBack
  BY ReturnedCases, ReadAgain DEF TypeOK, CopiedBack
<1> QED BY <1>1, ArrayTypes, PTL

\* Every step writes an entry, removes one, resizes the array-like Map of
\* README.md, or leaves it as it is.
THEOREM ArrayIsArrayLike == Spec => ArrayLikeSpec
<1> DEFINE map == [k \in DOMAIN elems |-> Read(elems[k])]
<1>1. Init => A!Init
  BY DEF Init, A!Init
<1>2. ASSUME IInv, [Next]_vars PROVE [A!Next]_A!vars
  <2> SUFFICES ASSUME Changed PROVE [A!Next]_A!vars
    BY <1>2, StepChanges DEF IInv, vars, Changed
  <2>0. TypeOK /\ KeysBelowLength
    BY <1>2 DEF IInv
  <2>1. CASE UNCHANGED <<elems, next>>
    BY <2>1 DEF A!vars
  <2>2. ASSUME NEW k \in Key, NEW z \in ZVal, Update(k, z) PROVE A!Next
    <3>1. /\ DOMAIN elems' = DOMAIN elems \cup {k}
          /\ \A j \in DOMAIN elems' : elems'[j] = IF j = k THEN z ELSE elems[j]
          /\ next' = (IF k \in Long /\ k >= next THEN After(k) ELSE next)
      BY <2>0, <2>2, UpdateFacts
    <3>2. map' = [j \in DOMAIN map \cup {k} |-> IF j = k THEN Read(z) ELSE map[j]]
      BY <3>1
    <3>3. next' = IF k \in Int /\ k >= next THEN IF k = LongMax THEN k ELSE k + 1 ELSE next
      BY <3>1, KeyTypes DEF After
    <3>4. k \in DOMAIN map' /\ map'[k] = Read(z) /\ Read(z) \in JsValue
      BY <3>1, <3>2, ReadIsJsValue
    <3>5. A!Put(k, map'[k])
      BY <3>2, <3>3, <3>4 DEF A!Put
    <3> QED BY <3>4, <3>5 DEF A!Next
  <2>3. ASSUME NEW k \in Key, Remove({k}), next' = next PROVE [A!Next]_A!vars
    <3>1. DOMAIN elems' = DOMAIN elems \ {k} /\ \A j \in DOMAIN elems' : elems'[j] = elems[j]
      BY <2>3, RemoveFacts
    <3>2. map' = [j \in DOMAIN map \ {k} |-> map[j]]
      BY <3>1
    <3>3. CASE k \in DOMAIN map
      BY <2>3, <3>2, <3>3 DEF A!Next, A!Delete
    <3>4. CASE k \notin DOMAIN map
      <4>1. map' = map
        BY <3>2, <3>4
      <4> QED BY <2>3, <4>1 DEF A!vars
    <3> QED BY <3>3, <3>4
  <2>4. ASSUME NEW v \in JsValue, SetLength(v), ~ UNCHANGED <<elems, next>> PROVE A!Next
    <3>1. /\ next' \in 0 .. LongMax
          /\ DOMAIN elems' = {k \in DOMAIN elems : k \in Int => k < next' \/ k = LongMax}
          /\ \A j \in DOMAIN elems' : elems'[j] = elems[j]
      BY <2>0, <2>4, SetLengthFacts
    <3>2. map' = [j \in {k \in DOMAIN map : k \in Int => k < next' \/ k = LongMax} |-> map[j]]
      BY <3>1
    <3> QED BY <3>1, <3>2 DEF A!Next, A!SetLength
  <2> QED BY <2>1, <2>2, <2>3, <2>4 DEF Changed, Written, Removed, Resized
<1> QED BY <1>1, <1>2, Invariance, PTL DEF Spec, ArrayLikeSpec, A!Spec
=============================================================================
