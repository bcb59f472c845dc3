----------------------------- MODULE MCPhpArray -----------------------------
(* An instance of PhpArray with longs of 4 bits and integers of 2; a string *)
(* that is not UTF-8, and the one that it is decoded and encoded to; a      *)
(* buffer and its copies; an array and its named copy.                      *)
EXTENDS PhpArray

CONSTANTS s, nan, utf8, latin1, text, buf, copy, copy8, arr, named, obj

MCStrKey == {s}
MCOdd == {nan}
\* Doubles with a significand of 2 bits.
MCDouble == {-12, -8, -6, -4, -3, -2, -1, 0, 1, 2, 3, 4, 6, 8, 12}
MCRounded == [n \in Long |-> IF n \in MCDouble THEN n ELSE n + 1]
MCStr == {utf8, latin1}
MCUtf8 == {utf8}
MCText == {text}
MCDecode == [x \in MCStr |-> text]
MCEncode == [t \in MCText |-> utf8]
MCBuffer == {buf, copy, copy8}
MCBytes == [b \in MCBuffer |-> IF b = copy8 THEN utf8 ELSE latin1]
MCMade == [x \in MCStr |-> IF x = utf8 THEN copy8 ELSE copy]
MCArray == {arr, named}
MCOther == {obj}
MCNamed == [a \in MCArray |-> named]
MCAsLong == [v \in {nan, obj} \cup MCStr \cup MCBuffer \cup MCArray |-> IF v = utf8 THEN 2 ELSE 0]
MCKeys == {1, 7, s}
MCLengths == Tagged({"number"}, {-1, 1, 6, 12, nan}) \cup {Tag("string", text)}
MCJsUses == {Tag("number", 3)}
\* For the keys and the length a number will do; under one key there is
\* everything else.
MCPhpUses == [k \in Key |-> {Tag("long", 5)} \cup IF k # s THEN {} ELSE
  {Tag("double", 1), Tag("string", utf8), Tag("string", latin1), Tag("buffer", buf),
   Tag("array", arr), Tag("other", obj), Tag("wait", Null), Tag("resource", Null)}]
=============================================================================
