------------------------------- MODULE Values -------------------------------
(***************************************************************************)
(* What becomes of a value that crosses between the two languages          *)
(* (values.h).  Numbers change their representation four times on the way  *)
(* there and back: a JavaScript number is an int32, a uint32 or a double,  *)
(* a Value is an Int or a Double, a number of PHP is a long or a double.   *)
(* A string is decoded and encoded as UTF-8, of a buffer only the bytes    *)
(* cross, an array is copied before it gets a name, and a Js\Wait and a    *)
(* resource of PHP are null in JavaScript.                                 *)
(***************************************************************************)
EXTENDS Integers

CONSTANTS
  LongMax,  \* std::numeric_limits<long>::max()
  IntMax,   \* std::numeric_limits<int32_t>::max()
  Double,   \* the integers that are doubles
  Rounded,  \* static_cast<double> of a long: the nearest of them
  Odd,      \* the doubles that are not integers: fractions, NaN, -0, infinities
  Str,      \* strings of PHP and contents of buffers: bytes
  Text,     \* strings of JavaScript
  Utf8,     \* the strings of PHP that are UTF-8
  Unicode,  \* the strings of JavaScript in which no surrogate stands alone
  Decode,   \* Nan::New(data, length)
  Encode,   \* Nan::Utf8String
  Buffer,   \* buffers of either language
  Bytes,    \* what they hold
  Made,     \* a new one that holds given bytes; one is not told from the next
  Array,    \* arrays of PHP
  Named,    \* that of which the wrapper of an array is one: a copy, unless it has a name
  Other,    \* booleans, and the objects that have an id in ObjectMapper
  Null      \* the content of a value that has none

IntMin == -IntMax - 1
UIntMax == 2 * IntMax + 1
Long == -LongMax - 1 .. LongMax
IntRange == IntMin .. UIntMax

Abs(n) == IF n < 0 THEN -n ELSE n

ASSUME ValuesAssumption ==
  /\ IntMax \in Nat /\ LongMax \in Nat /\ IntMax <= LongMax
  /\ IntRange \subseteq Double /\ Double \subseteq Int /\ Odd \cap Int = {}
  /\ Rounded \in [Long -> Double]
  /\ \A n \in Long, d \in Double : Abs(n - Rounded[n]) <= Abs(n - d)
  /\ Decode \in [Str -> Text] /\ Utf8 \subseteq Str /\ \A s \in Utf8 : Encode[Decode[s]] = s
  /\ Encode \in [Text -> Str] /\ Unicode \subseteq Text
  /\ \A t \in Unicode : Decode[Encode[t]] = t
  /\ Bytes \in [Buffer -> Str] /\ Made \in [Str -> Buffer] /\ \A s \in Str : Bytes[Made[s]] = s
  /\ Named \in [Array -> Array] /\ \A a \in Array : Named[Named[a]] = Named[a]

Tag(t, v) == [type |-> t, v |-> v]
Tagged(types, values) == [type : types, v : values]

\* In JavaScript an array of PHP is a wrapper.
JsValue ==
  Tagged({"number"}, Double \cup Odd) \cup Tagged({"string"}, Text) \cup Tagged({"buffer"}, Buffer)
  \cup Tagged({"array"}, {a \in Array : Named[a] = a}) \cup Tagged({"other"}, Other)
  \cup Tagged({"null", "undefined"}, {Null})
Value ==
  Tagged({"Int"}, Long \cup IntRange) \cup Tagged({"Double"}, Double \cup Odd)
  \cup Tagged({"Str", "Buf"}, Str) \cup Tagged({"array"}, Array) \cup Tagged({"other"}, Other)
  \cup Tagged({"Null", "Wait"}, {Null})
ZVal ==
  Tagged({"long"}, Long) \cup Tagged({"double"}, Double \cup Odd) \cup Tagged({"string"}, Str)
  \cup Tagged({"buffer"}, Buffer) \cup Tagged({"array"}, Array) \cup Tagged({"other"}, Other)
  \cup Tagged({"null", "wait", "resource"}, {Null})

-----------------------------------------------------------------------------
\* Value::Set(JsObjectMapper*): IsInt32 || IsUint32 or IsNumber, strings,
\* buffers, and what has an id.
FromJs(v) ==
  CASE v.type = "number" -> Tag(IF v.v \in IntRange THEN "Int" ELSE "Double", v.v)
    [] v.type = "string" -> Tag("Str", Encode[v.v])
    [] v.type = "buffer" -> Tag("Buf", Bytes[v.v])
    [] v.type \in {"array", "other"} -> v
    [] v.type \in {"null", "undefined"} -> Tag("Null", Null)

\* Value::ToPhp; Int::ToPhp returns a double where a long is too short.
ToPhp(x) ==
  CASE x.type = "Int" -> Tag(IF x.v \in Long THEN "long" ELSE "double", x.v)
    [] x.type = "Double" -> Tag("double", x.v)
    [] x.type = "Str" -> Tag("string", x.v)
    [] x.type = "Buf" -> Tag("buffer", Made[x.v])
    [] x.type \in {"array", "other"} -> x
    [] x.type = "Wait" -> Tag("wait", Null)
    [] x.type = "Null" -> Tag("null", Null)

\* Value::Set(PhpObjectMapper*): a long is an Int while a number of 32 bits holds it.
FromPhp(z) ==
  CASE z.type = "long" -> IF z.v \in IntRange THEN Tag("Int", z.v) ELSE Tag("Double", Rounded[z.v])
    [] z.type = "double" -> Tag("Double", z.v)
    [] z.type = "string" -> Tag("Str", z.v)
    [] z.type = "buffer" -> Tag("Buf", Bytes[z.v])
    [] z.type = "array" -> Tag("array", Named[z.v])
    [] z.type = "other" -> z
    [] z.type = "wait" -> Tag("Wait", Null)
    [] z.type \in {"null", "resource"} -> Tag("Null", Null)

\* Mutation: the unsigned case is forgotten.
IntToJsSigned(n) == IF n > IntMax /\ n <= UIntMax THEN n - 2 * (IntMax + 1)
                    ELSE IF n \in Long THEN Rounded[n] ELSE n
\* Int::ToJs: uint32_t, int32_t or double.
IntToJs(n) == IF n \in IntRange THEN n ELSE Rounded[n]

\* Value::ToJs.
ToJs(x) ==
  CASE x.type = "Int" -> Tag("number", IntToJs(x.v))
    [] x.type = "Double" -> Tag("number", x.v)
    [] x.type = "Str" -> Tag("string", Decode[x.v])
    [] x.type = "Buf" -> Tag("buffer", Made[x.v])
    [] x.type \in {"array", "other"} -> x
    [] x.type \in {"Null", "Wait"} -> Tag("null", Null)

\* A value of JavaScript as PHP gets it, a value of PHP as JavaScript reads it.
Sent(v) == ToPhp(FromJs(v))
Read(z) == ToJs(FromPhp(z))

\* The same value, or two buffers with the same bytes.
Alike(x, y) == x = y \/ (x.type = "buffer" /\ y.type = "buffer" /\ Bytes[x.v] = Bytes[y.v])
=============================================================================
