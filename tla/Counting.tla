------------------------------ MODULE Counting ------------------------------
(***************************************************************************)
(* How often a sequence holds an element of a set, and how that changes    *)
(* with the operations on queues.                                          *)
(***************************************************************************)
EXTENDS Integers, Sequences, FiniteSets, Functions, SequenceTheorems, FiniteSetTheorems, TLAPS

Occurrences(s, T) == {i \in 1 .. Len(s) : s[i] \in T}
Count(s, T) == Cardinality(Occurrences(s, T))

LEMMA CountType ==
  ASSUME NEW S, NEW s \in Seq(S), NEW T
  PROVE  IsFiniteSet(Occurrences(s, T)) /\ Count(s, T) \in Nat
<1>1. IsFiniteSet(1 .. Len(s))
  <2>1. Len(s) \in Int
    OBVIOUS
  <2> QED BY <2>1, FS_Interval
<1>2. Occurrences(s, T) \in SUBSET (1 .. Len(s))
  BY DEF Occurrences
<1> QED BY <1>1, <1>2, FS_Subset, FS_CardinalityType DEF Count

LEMMA CountEmpty ==
  ASSUME NEW T
  PROVE  Count(<<>>, T) = 0
<1>1. Occurrences(<<>>, T) = {}
  BY DEF Occurrences
<1> QED BY <1>1, FS_EmptySet DEF Count

LEMMA CountAppend ==
  ASSUME NEW S, NEW s \in Seq(S), NEW e \in S, NEW T
  PROVE  Count(Append(s, e), T) = Count(s, T) + (IF e \in T THEN 1 ELSE 0)
<1> DEFINE n == Len(s) + 1
<1>1. /\ n \in Nat /\ Len(Append(s, e)) = n /\ Append(s, e)[n] = e
      /\ \A i \in 1 .. Len(s) : Append(s, e)[i] = s[i]
      /\ 1 .. n = (1 .. Len(s)) \cup {n} /\ n \notin 1 .. Len(s)
  OBVIOUS
<1>2. n \notin Occurrences(s, T)
  BY <1>1 DEF Occurrences
<1> HIDE DEF n
<1>3. CASE e \in T
  <2>1. Occurrences(Append(s, e), T) = Occurrences(s, T) \cup {n}
    BY <1>1, <1>3 DEF Occurrences
  <2> QED BY <1>2, <1>3, <2>1, CountType, FS_AddElement DEF Count
<1>4. CASE e \notin T
  <2>1. Occurrences(Append(s, e), T) = Occurrences(s, T)
    BY <1>1, <1>4 DEF Occurrences
  <2> QED BY <1>4, <2>1, CountType DEF Count
<1> QED BY <1>3, <1>4

LEMMA CountOne ==
  ASSUME NEW S, NEW e \in S, NEW T
  PROVE  Count(<<e>>, T) = IF e \in T THEN 1 ELSE 0
<1>1. <<>> \in Seq(S) /\ Append(<<>>, e) = <<e>>
  OBVIOUS
<1>2. Count(Append(<<>>, e), T) = Count(<<>>, T) + (IF e \in T THEN 1 ELSE 0)
  BY <1>1, CountAppend
<1> QED BY <1>1, <1>2, CountEmpty

\* A set of positions moved by k has as many of them.
LEMMA ShiftedSet ==
  ASSUME NEW A \in SUBSET Int, IsFiniteSet(A), NEW k \in Int, NEW B,
         B = {i + k : i \in A}
  PROVE  IsFiniteSet(B) /\ Cardinality(B) = Cardinality(A)
<1> DEFINE f == [i \in A |-> i + k]
<1>1. f \in Injection(A, B)
  <2>1. f \in [A -> B]
    OBVIOUS
  <2>2. \A a, b \in A : f[a] = f[b] => a = b
    OBVIOUS
  <2> HIDE DEF f
  <2>3. DOMAIN f = A
    BY <2>1
  <2> QED BY <2>1, <2>2, <2>3 DEF Injection, IsInjective
<1>2. f \in Surjection(A, B)
  BY DEF Surjection
<1>3. ExistsBijection(A, B)
  BY <1>1, <1>2 DEF ExistsBijection, Bijection
<1> QED BY <1>3, FS_Bijection

LEMMA CountConcat ==
  ASSUME NEW S, NEW s \in Seq(S), NEW t \in Seq(S), NEW T
  PROVE  Count(s \o t, T) = Count(s, T) + Count(t, T)
<1> DEFINE n == Len(s)
           moved == {i + n : i \in Occurrences(t, T)}
<1>1. /\ n \in Nat /\ Len(t) \in Nat /\ Len(s \o t) = n + Len(t)
      /\ \A i \in 1 .. n : (s \o t)[i] = s[i]
      /\ \A i \in 1 .. Len(t) : (s \o t)[i + n] = t[i]
  OBVIOUS
<1>2. IsFiniteSet(moved) /\ Cardinality(moved) = Count(t, T)
  <2>1. IsFiniteSet(Occurrences(t, T))
    BY CountType
  <2>2. Occurrences(t, T) \in SUBSET Int
    BY DEF Occurrences
  <2> DEFINE B == moved
  <2>3. B = {i + n : i \in Occurrences(t, T)}
    OBVIOUS
  <2>5. n \in Int
    BY <1>1
  <2> HIDE DEF moved, n, B
  <2>4. IsFiniteSet(B) /\ Cardinality(B) = Cardinality(Occurrences(t, T))
    BY <2>1, <2>2, <2>3, <2>5, ShiftedSet
  <2> QED BY <2>4 DEF B, Count
<1> HIDE DEF n
<1>3. Occurrences(s \o t, T) = Occurrences(s, T) \cup moved
  <2>1. ASSUME NEW i \in Occurrences(s \o t, T)
        PROVE  i \in Occurrences(s, T) \cup moved
    <3>1. i \in 1 .. n + Len(t) /\ (s \o t)[i] \in T
      BY <1>1 DEF Occurrences
    <3>2. CASE i \in 1 .. n
      BY <1>1, <3>1, <3>2 DEF Occurrences, n
    <3>3. CASE i \notin 1 .. n
      <4>1. i - n \in 1 .. Len(t) /\ (i - n) + n = i
        BY <1>1, <3>1, <3>3
      <4>2. i - n \in Occurrences(t, T)
        BY <1>1, <3>1, <4>1 DEF Occurrences
      <4> QED BY <4>1, <4>2
    <3> QED BY <3>2, <3>3
  <2>2. Occurrences(s, T) \subseteq Occurrences(s \o t, T)
    BY <1>1 DEF Occurrences, n
  <2>3. moved \subseteq Occurrences(s \o t, T)
    BY <1>1 DEF Occurrences
  <2> QED BY <2>1, <2>2, <2>3
<1>4. Occurrences(s, T) \cap moved = {}
  BY <1>1 DEF Occurrences, n
<1>5. IsFiniteSet(Occurrences(s, T)) /\ Count(s, T) \in Nat /\ Count(t, T) \in Nat
  BY CountType
<1> HIDE DEF moved
<1>6. Cardinality(Occurrences(s, T) \cup moved)
        = Cardinality(Occurrences(s, T)) + Cardinality(moved) - Cardinality(Occurrences(s, T) \cap moved)
  BY <1>2, <1>5, FS_Union
<1>7. Cardinality(Occurrences(s, T) \cap moved) = 0
  BY <1>4, FS_EmptySet
<1>8. Count(s \o t, T) = Cardinality(Occurrences(s, T)) + Cardinality(moved)
                        - Cardinality(Occurrences(s, T) \cap moved)
  BY <1>3, <1>6 DEF Count
<1>9. Cardinality(Occurrences(s, T)) = Count(s, T)
  BY DEF Count
<1> QED BY <1>2, <1>5, <1>7, <1>8, <1>9

LEMMA CountBetween ==
  ASSUME NEW S, NEW s \in Seq(S), NEW e \in S, NEW t \in Seq(S), NEW T
  PROVE  Count(s \o <<e>> \o t, T) = Count(s, T) + (IF e \in T THEN 1 ELSE 0) + Count(t, T)
<1>1. s \o <<e>> = Append(s, e) /\ Append(s, e) \in Seq(S)
  OBVIOUS
<1>2. Count(Append(s, e) \o t, T) = Count(Append(s, e), T) + Count(t, T)
  <2>1. PICK longer \in Seq(S) : longer = Append(s, e)
    BY <1>1
  <2>2. Count(longer \o t, T) = Count(longer, T) + Count(t, T)
    BY CountConcat
  <2> QED BY <2>1, <2>2
<1>3. Count(Append(s, e), T) = Count(s, T) + (IF e \in T THEN 1 ELSE 0)
  BY CountAppend
<1> QED BY <1>1, <1>2, <1>3

LEMMA CountTail ==
  ASSUME NEW S, NEW s \in Seq(S), s # <<>>, NEW T
  PROVE  Count(s, T) = Count(Tail(s), T) + (IF Head(s) \in T THEN 1 ELSE 0)
<1>1. Tail(s) \in Seq(S) /\ Head(s) \in S
  OBVIOUS
<1>2. s = Append(<<>>, Head(s)) \o Tail(s)
  OBVIOUS
<1>3. Append(<<>>, Head(s)) \in Seq(S) /\ <<>> \in Seq(S)
  BY <1>1
<1>4. Count(<<>>, T) = 0
  BY CountEmpty
<1>5. Count(Append(<<>>, Head(s)), T) = Count(<<>>, T) + (IF Head(s) \in T THEN 1 ELSE 0)
  BY <1>1, <1>3, CountAppend
<1>6. Count(Append(<<>>, Head(s)) \o Tail(s), T) = Count(Append(<<>>, Head(s)), T) + Count(Tail(s), T)
  BY <1>1, <1>3, CountConcat
<1>7. Count(Tail(s), T) \in Nat
  BY <1>1, CountType
<1>8. Count(s, T) = Count(Append(<<>>, Head(s)), T) + Count(Tail(s), T)
  BY <1>2, <1>6
<1> QED BY <1>4, <1>5, <1>7, <1>8
=============================================================================
