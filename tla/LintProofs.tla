----------------------------- MODULE LintProofs -----------------------------
(***************************************************************************)
(* What is proved about the parts of cpplint.py that keep state: the       *)
(* stack of blocks under conditional code (LintNesting), the order of the  *)
(* includes (LintIncludes) and the sizes of functions (LintReports); and   *)
(* about the program's own run, which drives them over the files in order: *)
(* what it reports, which filters are in force and what NOLINT hides.      *)
(***************************************************************************)
EXTENDS Cpplint, SequenceTheorems, WellFoundedInduction, TLAPS

\* A sequence without its last element.
LEMMA FrontOfSeq ==
  ASSUME NEW S, NEW s \in Seq(S), s # <<>>
  PROVE  /\ SubSeq(s, 1, Len(s) - 1) \in Seq(S)
         /\ Len(SubSeq(s, 1, Len(s) - 1)) = Len(s) - 1
         /\ \A i \in 1 .. Len(s) - 1 : SubSeq(s, 1, Len(s) - 1)[i] = s[i]
<1> DEFINE n == Len(s) - 1
<1>1. n \in Nat /\ n <= Len(s)
  BY EmptySeq
<1> HIDE DEF n
<1>2. SubSeq(s, 1, n) \in Seq(S) /\ Len(SubSeq(s, 1, n)) = n
  BY <1>1
<1>3. \A i \in 1 .. n : SubSeq(s, 1, n)[i] = s[i]
  BY <1>1
<1> QED BY <1>2, <1>3 DEF n

\* What was in a sequence stays where it was.
LEMMA AppendAt ==
  ASSUME NEW S, NEW s \in Seq(S), NEW e \in S, NEW i \in 1 .. Len(s)
  PROVE  Append(s, e)[i] = s[i]
  OBVIOUS

(***************************************************************************)
(* Types.                                                                  *)
(***************************************************************************)

LEMMA NewBlockType ==
  ASSUME NEW kind \in {"class", "namespace", "extern", "block"}, NEW open \in BOOLEAN,
         NEW asm \in {"no", "inside", "end", "block"}, NEW n \in Nat
  PROVE  NewBlock(kind, open, asm, n) \in Block
  BY DEF NewBlock, Block

LEMMA TopType ==
  ASSUME NEW s \in Seq(Block), s # <<>>
  PROVE  /\ Len(s) \in DOMAIN s /\ Top(s) \in Block
         /\ Pop(s) \in Seq(Block)
  BY DEF Top, Pop

LEMMA CountedType ==
  ASSUME NEW s \in Seq(Block), NEW code \in Code
  PROVE  Counted(s, code) \in Seq(Block)
<1>1. CASE s = <<>>
  BY <1>1 DEF Counted
<1>2. CASE s # <<>>
  <2> DEFINE top == Top(s)
             paren == top.paren + code.paren
             asm == IF top.asm \in {"no", "end"}
                      THEN IF code.paren # 0 /\ paren = 1 /\ code.asm THEN "inside" ELSE "no"
                      ELSE IF top.asm = "inside" /\ paren = 0 THEN "end" ELSE top.asm
             new == [top EXCEPT !.paren = paren, !.asm = asm]
  <2>1. top \in Block /\ Len(s) \in DOMAIN s
    BY <1>2, TopType
  <2>2. paren \in Int /\ asm \in {"no", "inside", "end", "block"}
    BY <2>1 DEF Block, Code
  <2>3. new \in Block
    <3> HIDE DEF top, paren, asm
    <3> QED BY <2>1, <2>2 DEF Block
  <2>4. Counted(s, code) = [s EXCEPT ![Len(s)] = new]
    BY <1>2 DEF Counted
  <2> HIDE DEF new
  <2> QED BY <2>1, <2>3, <2>4
<1> QED BY <1>1, <1>2

LEMMA HeadedType ==
  ASSUME NEW s \in Seq(Block), NEW code \in Code, NEW n \in Nat
  PROVE  Headed(s, code, n) \in Seq(Block)
<1> DEFINE spaced == IF code.namespace = "no" THEN s
                     ELSE Append(s, NewBlock("namespace", code.namespace = "open", "no", n))
<1>1. /\ NewBlock("namespace", code.namespace = "open", "no", n) \in Block
      /\ NewBlock("class", FALSE, "no", n) \in Block
  BY NewBlockType
<1>2. \A t \in Seq(Block), b \in Block : Append(t, b) \in Seq(Block)
  OBVIOUS
<1>3. spaced \in Seq(Block)
  BY <1>1, <1>2
<1>4. Headed(s, code, n) = IF code.class /\ (spaced = <<>> \/ Top(spaced).paren = 0)
                             THEN Append(spaced, NewBlock("class", FALSE, "no", n)) ELSE spaced
  BY DEF Headed
<1> HIDE DEF spaced
<1> QED BY <1>1, <1>2, <1>3, <1>4

LEMMA ConsumedType ==
  ASSUME NEW s \in Seq(Block), NEW token \in Token, NEW n \in Nat
  PROVE  Consumed(s, token, n) \in Seq(Block)
<1>1. CASE s = <<>>
  <2>1. \A b \in Block : Append(s, b) \in Seq(Block)
    OBVIOUS
  <2> QED BY <1>1, <2>1, NewBlockType DEF Consumed, SeenOpenBrace
<1>2. CASE s # <<>>
  <2>1. Len(s) \in DOMAIN s /\ Top(s) \in Block /\ Pop(s) \in Seq(Block)
    BY <1>2, TopType
  <2>2. [Top(s) EXCEPT !.open = TRUE] \in Block
    BY <2>1 DEF Block
  <2>3. [s EXCEPT ![Len(s)] = [Top(s) EXCEPT !.open = TRUE]] \in Seq(Block)
    BY <2>1, <2>2
  <2>4. \A b \in Block : Append(s, b) \in Seq(Block)
    OBVIOUS
  <2> QED BY <2>1, <2>3, <2>4, NewBlockType DEF Consumed
<1> QED BY <1>1, <1>2

LEMMA AfterCodeType ==
  ASSUME NEW s \in Seq(Block), NEW code \in Code, NEW n \in Nat
  PROVE  AfterCode(s, code, n) \in Seq(Block)
<1>1. Headed(Counted(s, code), code, n) \in Seq(Block)
  BY CountedType, HeadedType
<1>2. code.tokens[1] \in Token /\ code.tokens[2] \in Token
  BY DEF Code
<1> QED BY <1>1, <1>2, ConsumedType DEF AfterCode

(***************************************************************************)
(* One line, for a stack s and the copies pp that are kept of it.          *)
(***************************************************************************)
SkippingIn(pp) == {i \in DOMAIN pp : pp[i].seen_else}

Least(i, S) == i \in S /\ \A j \in S : i <= j

\* The outermost #else that is open exists.
OutermostIn(pp) == SkippingIn(pp) # {} => \E i : Least(i, SkippingIn(pp))

KeptIn(s, pp) ==
  IF SkippingIn(pp) = {} THEN s
  ELSE pp[CHOOSE i \in SkippingIn(pp) : \A j \in SkippingIn(pp) : i <= j].stack_before_else

LEMMA KeptOutermost ==
  ASSUME NEW s, NEW pp \in Seq(Info), NEW i, Least(i, SkippingIn(pp))
  PROVE  KeptIn(s, pp) = pp[i].stack_before_else
<1> DEFINE S == SkippingIn(pp)
<1>1. S \subseteq Nat
  BY DEF SkippingIn
<1>2. \A k \in S : (\A j \in S : k <= j) => k = i
  BY <1>1 DEF Least
<1>3. (CHOOSE k \in S : \A j \in S : k <= j) = i
  <2> HIDE DEF S
  <2>1. \E k \in S : \A j \in S : k <= j
    BY DEF Least, S
  <2> QED BY <1>2, <2>1
<1> QED BY <1>3 DEF KeptIn, Least

\* Without #else, the stack itself counts.
LEMMA KeptNone ==
  ASSUME NEW s, NEW pp, SkippingIn(pp) = {}
  PROVE  KeptIn(s, pp) = s
  BY DEF KeptIn

\* A directive without #if leaves both alone; #if adds a copy that is not in use.
LEMMA AfterIf ==
  ASSUME NEW pp \in Seq(Info), NEW info \in Info, ~info.seen_else
  PROVE  LET new == Append(pp, info)
         IN  SkippingIn(new) = SkippingIn(pp)
  BY DEF SkippingIn

LEMMA AfterEndif ==
  ASSUME NEW pp \in Seq(Info), pp # <<>>
  PROVE  /\ Pop(pp) \in Seq(Info)
         /\ \A i \in DOMAIN Pop(pp) : Pop(pp)[i] = pp[i]
         /\ SkippingIn(Pop(pp)) = SkippingIn(pp) \ {Len(pp)}
<1>1. /\ Pop(pp) \in Seq(Info) /\ Len(Pop(pp)) = Len(pp) - 1
      /\ \A i \in 1 .. Len(pp) - 1 : Pop(pp)[i] = pp[i]
  BY FrontOfSeq DEF Pop
<1>2. DOMAIN Pop(pp) = DOMAIN pp \ {Len(pp)}
  <2>1. DOMAIN Pop(pp) = 1 .. Len(pp) - 1 /\ DOMAIN pp = 1 .. Len(pp) /\ Len(pp) \in Nat
    BY <1>1
  <2> QED BY <2>1
<1> QED BY <1>1, <1>2 DEF SkippingIn

LEMMA AfterElse ==
  ASSUME NEW pp \in Seq(Info), pp # <<>>, NEW info \in Info, info.seen_else
  PROVE  LET new == [pp EXCEPT ![Len(pp)] = info]
         IN  /\ new \in Seq(Info)
             /\ \A i \in DOMAIN pp \ {Len(pp)} : new[i] = pp[i]
             /\ new[Len(pp)] = info
             /\ SkippingIn(new) = SkippingIn(pp) \cup {Len(pp)}
  BY DEF SkippingIn

(***************************************************************************)
(* The refinement.                                                         *)
(***************************************************************************)
SeenElse(pp) == [i \in DOMAIN pp |-> pp[i].seen_else]

LEMMA SeenElseIsSeq ==
  ASSUME NEW pp \in Seq(Info)
  PROVE  SeenElse(pp) \in Seq(BOOLEAN) /\ Len(SeenElse(pp)) = Len(pp)
<1>1. Len(pp) \in Nat /\ DOMAIN pp = 1 .. Len(pp)
  BY LenProperties
<1>2. \A i \in DOMAIN pp : pp[i] \in Info
  BY <1>1, ElementOfSeq
<1>3. SeenElse(pp) \in [1 .. Len(pp) -> BOOLEAN]
  <2>1. \A i \in DOMAIN pp : pp[i].seen_else \in BOOLEAN
    BY <1>2 DEF Info
  <2> QED BY <1>1, <2>1 DEF SeenElse
<1>4. SeenElse(pp) \in Seq(BOOLEAN)
  BY <1>1, <1>3, SeqDef
<1>5. DOMAIN SeenElse(pp) = 1 .. Len(pp) /\ DOMAIN SeenElse(pp) = 1 .. Len(SeenElse(pp))
      /\ Len(SeenElse(pp)) \in Nat
  BY <1>3, <1>4, LenProperties
<1> QED BY <1>1, <1>4, <1>5

LEMMA SeenElseAt ==
  ASSUME NEW pp \in Seq(Info), NEW i \in DOMAIN pp
  PROVE  SeenElse(pp)[i] = pp[i].seen_else
  BY DEF SeenElse

\* What is true after every line.
IInv == NestingTypes /\ OutermostIn(pp_stack)

LEMMA SameCode ==
  ASSUME NEW s, NEW code, NEW n
  PROVE  TrueBranches!AfterCode(s, code, n) = AfterCode(s, code, n)
<1>1. ASSUME NEW t, NEW c
      PROVE  TrueBranches!Counted(t, c) = Counted(t, c)
  BY Zenon DEF TrueBranches!Counted, TrueBranches!Top, Counted, Top
<1>2. ASSUME NEW t, NEW c, NEW m
      PROVE  TrueBranches!Headed(t, c, m) = Headed(t, c, m)
  BY Zenon DEF TrueBranches!Headed, TrueBranches!NewBlock, TrueBranches!Top, Headed, NewBlock, Top
<1>3. ASSUME NEW t, NEW token, NEW m
      PROVE  TrueBranches!Consumed(t, token, m) = Consumed(t, token, m)
  BY Zenon DEF TrueBranches!Consumed, TrueBranches!NewBlock, TrueBranches!Top, TrueBranches!Pop,
               TrueBranches!SeenOpenBrace, Consumed, NewBlock, Top, Pop, SeenOpenBrace
<1> QED BY <1>1, <1>2, <1>3, Zenon DEF TrueBranches!AfterCode, AfterCode

LEMMA CountsIfNone ==
  ASSUME NEW pp \in Seq(Info)
  PROVE  TrueBranches!Counts(SeenElse(pp)) <=> SkippingIn(pp) = {}
  BY DEF TrueBranches!Counts, SeenElse, SkippingIn, Info

\* What one line does to the copies, in terms of the conditions that are open.
LEMMA LineOfCode ==
  ASSUME IInv, NEW l \in Line, Update(l), line' = line + 1
  PROVE  /\ IInv'
         /\ SeenElse(pp_stack)' = TrueBranches!Conditions(l.directive)
         /\ KeptIn(stack', pp_stack') =
              IF SkippingIn(pp_stack') = {} THEN AfterCode(KeptIn(stack, pp_stack), l.code, line)
              ELSE KeptIn(stack, pp_stack)
<1> DEFINE d == l.directive
           pp == pp_stack
           skipped == SeenElse(pp_stack)
<1>1. /\ d \in {"none", "if", "else", "endif"} /\ l.code \in Code
      /\ stack \in Seq(Block) /\ pp \in Seq(Info) /\ line \in Nat /\ OutermostIn(pp)
  BY LineAssumption DEF IInv, NestingTypes
<1>2. /\ pp_stack' = Pushed(d) /\ stack' = AfterCode(Restored(d), l.code, line)
  BY DEF Update
<1>3. TrueBranches!Conditions(d) =
        IF d = "if" THEN Append(skipped, FALSE)
        ELSE IF d = "none" \/ skipped = <<>> THEN skipped
        ELSE IF d = "else" THEN [skipped EXCEPT ![Len(skipped)] = TRUE]
        ELSE SubSeq(skipped, 1, Len(skipped) - 1)
  BY DEF TrueBranches!Conditions, SeenElse
<1>4. skipped \in Seq(BOOLEAN) /\ Len(skipped) = Len(pp) /\ (skipped = <<>> <=> pp = <<>>)
  BY <1>1, SeenElseIsSeq, EmptySeq
<1>5. ASSUME Restored(d) = stack, pp_stack' \in Seq(Info),
             SkippingIn(pp_stack') = SkippingIn(pp),
             \A i \in SkippingIn(pp) : pp_stack'[i] = pp[i]
      PROVE  /\ IInv'
             /\ KeptIn(stack', pp_stack') =
                  IF SkippingIn(pp_stack') = {} THEN AfterCode(KeptIn(stack, pp), l.code, line)
                  ELSE KeptIn(stack, pp)
  <2>1. NestingTypes'
    BY <1>1, <1>2, <1>5, AfterCodeType DEF NestingTypes
  <2>2. OutermostIn(pp_stack')
    BY <1>1, <1>5 DEF OutermostIn
  <2>3. CASE SkippingIn(pp) = {}
    BY <1>2, <1>5, <2>1, <2>2, <2>3, KeptNone DEF IInv
  <2>4. CASE SkippingIn(pp) # {}
    <3>1. PICK i : Least(i, SkippingIn(pp))
      BY <1>1, <2>4 DEF OutermostIn
    <3>2. KeptIn(stack, pp) = pp[i].stack_before_else
      BY <1>1, <3>1, KeptOutermost
    <3>3. KeptIn(stack', pp_stack') = pp_stack'[i].stack_before_else
      BY <1>5, <3>1, KeptOutermost
    <3> QED BY <1>5, <2>1, <2>2, <2>4, <3>1, <3>2, <3>3 DEF IInv, Least
  <2> QED BY <2>3, <2>4
<1>6. CASE d = "none" \/ (pp = <<>> /\ d # "if")
  <2>1. pp_stack' = pp /\ Restored(d) = stack
    BY <1>1, <1>2, <1>6 DEF Pushed, Restored
  <2>2. SeenElse(pp_stack)' = TrueBranches!Conditions(d)
    BY <1>3, <1>4, <1>6, <2>1 DEF SeenElse
  <2> QED BY <1>1, <1>5, <2>1, <2>2
<1>7. CASE d = "if"
  <2> DEFINE info == [stack_before_if |-> stack, stack_before_else |-> <<>>, seen_else |-> FALSE]
  <2>1. pp_stack' = Append(pp, info) /\ Restored(d) = stack
    BY <1>2, <1>7 DEF Pushed, Restored
  <2>2. info \in Info /\ info.seen_else = FALSE
    <3>1. <<>> \in Seq(Block)
      OBVIOUS
    <3> QED BY <1>1, <3>1 DEF Info
  <2> HIDE DEF info
  <2>3. pp_stack' \in Seq(Info) /\ SkippingIn(pp_stack') = SkippingIn(pp)
    BY <1>1, <2>1, <2>2, AfterIf
  <2>4. \A i \in SkippingIn(pp) : pp_stack'[i] = pp[i]
    BY <1>1, <2>1, <2>2 DEF SkippingIn
  <2>5. SeenElse(pp_stack)' = TrueBranches!Conditions(d)
    <3>1. TrueBranches!Conditions(d) = Append(skipped, FALSE)
      BY <1>3, <1>7
    <3>2. Append(skipped, FALSE) \in Seq(BOOLEAN) /\ Append(pp, info) \in Seq(Info)
          /\ Len(Append(pp, info)) = Len(Append(skipped, FALSE))
      BY <1>1, <1>4, <2>2, AppendProperties
    <3>3. SeenElse(Append(pp, info)) \in Seq(BOOLEAN)
          /\ Len(SeenElse(Append(pp, info))) = Len(Append(skipped, FALSE))
      BY <3>2, SeenElseIsSeq
    <3>4. ASSUME NEW i \in 1 .. Len(Append(skipped, FALSE))
          PROVE  SeenElse(Append(pp, info))[i] = Append(skipped, FALSE)[i]
      <4>1. SeenElse(Append(pp, info))[i] = Append(pp, info)[i].seen_else
        BY <3>2, SeenElseAt, LenProperties
      <4> HIDE DEF skipped
      <4>2. i \in 1 .. Len(pp) \/ i = Len(pp) + 1
        BY <1>1, <1>4, <3>2
      <4>4. CASE i \in 1 .. Len(pp)
        <5>1. Append(pp, info)[i] = pp[i]
          BY <1>1, <4>4, <2>2, AppendAt
        <5>2. Append(skipped, FALSE)[i] = skipped[i]
          <6>1. FALSE \in BOOLEAN /\ i \in 1 .. Len(skipped)
            BY <1>4, <4>4
          <6> QED BY <1>4, <6>1, AppendAt, Zenon
        <5>3. SeenElse(pp)[i] = pp[i].seen_else
          BY <1>1, <4>4, SeenElseAt, LenProperties
        <5> QED BY <4>1, <5>1, <5>2, <5>3, Zenon DEF skipped
      <4>5. CASE i = Len(pp) + 1
        <5>1. Append(pp, info)[i] = info /\ Append(skipped, FALSE)[i] = FALSE
          BY <1>1, <1>4, <4>5, <2>2, AppendProperties
        <5> QED BY <4>1, <5>1, <2>2
      <4> QED BY <4>2, <4>4, <4>5
    <3> HIDE DEF skipped
    <3>5. SeenElse(Append(pp, info)) = Append(skipped, FALSE)
      BY <3>2, <3>3, <3>4, SeqEqual
    <3> QED BY <2>1, <3>1, <3>5
  <2> QED BY <1>5, <2>1, <2>3, <2>4, <2>5
<1>8. CASE d = "else" /\ pp # <<>>
  <2> DEFINE last == pp[Len(pp)]
             info == OnElse(last)
  <2>1. /\ pp_stack' = [pp EXCEPT ![Len(pp)] = info]
        /\ Len(pp) \in DOMAIN pp /\ last \in Info
    BY <1>1, <1>2, <1>8 DEF Pushed, Top
  <2>2. info \in Info /\ info.seen_else
        /\ info.stack_before_else = IF last.seen_else THEN last.stack_before_else ELSE stack
    BY <1>1, <2>1 DEF OnElse, Info
  <2>3. Restored(d) \in Seq(Block)
    BY <1>1, <1>8, <2>1 DEF Restored, Top, Info
  <2> HIDE DEF info
  <2>4. /\ pp_stack' \in Seq(Info)
        /\ \A i \in DOMAIN pp \ {Len(pp)} : pp_stack'[i] = pp[i]
        /\ pp_stack'[Len(pp)] = info
        /\ SkippingIn(pp_stack') = SkippingIn(pp) \cup {Len(pp)}
    BY <1>1, <1>8, <2>1, <2>2, AfterElse
  <2>5. NestingTypes'
    BY <1>1, <1>2, <2>3, <2>4, AfterCodeType DEF NestingTypes
  <2>6. \A i \in DOMAIN pp : i <= Len(pp) /\ i \in Nat
    BY <1>1
  <2>7. /\ IInv' /\ KeptIn(stack', pp_stack') = KeptIn(stack, pp)
    <3>1. CASE SkippingIn(pp) = {}
      <4>1. Least(Len(pp), SkippingIn(pp_stack'))
        BY <2>4, <3>1, <2>6, <2>1 DEF Least
      <4>2. ~last.seen_else
        BY <2>1, <3>1 DEF SkippingIn
      <4>3. KeptIn(stack', pp_stack') = stack
        BY <2>2, <2>4, <4>1, <4>2, KeptOutermost
      <4> QED BY <2>5, <3>1, <4>1, <4>3, KeptNone DEF IInv, OutermostIn
    <3>2. CASE SkippingIn(pp) # {}
      <4>1. PICK i : Least(i, SkippingIn(pp))
        BY <1>1, <3>2 DEF OutermostIn
      <4>2. Least(i, SkippingIn(pp_stack'))
        BY <2>4, <2>6, <4>1 DEF Least, SkippingIn
      <4>3. pp_stack'[i].stack_before_else = pp[i].stack_before_else
        BY <2>2, <2>4, <4>1 DEF Least, SkippingIn
      <4> QED BY <1>1, <2>4, <2>5, <4>1, <4>2, <4>3, KeptOutermost DEF IInv, OutermostIn
    <3> QED BY <3>1, <3>2
  <2>8. SeenElse(pp_stack)' = TrueBranches!Conditions(d)
    <3>1. TrueBranches!Conditions(d) = [skipped EXCEPT ![Len(pp)] = TRUE]
      BY <1>3, <1>4, <1>8
    <3>2. DOMAIN pp_stack' = DOMAIN pp
      BY <2>1
    <3>3. \A i \in DOMAIN pp : pp_stack'[i].seen_else = IF i = Len(pp) THEN TRUE ELSE pp[i].seen_else
      BY <2>2, <2>4, <1>1 DEF Info
    <3> QED BY <2>1, <3>1, <3>2, <3>3 DEF SeenElse
  <2> QED BY <2>4, <2>7, <2>8
<1>9. CASE d = "endif" /\ pp # <<>>
  <2> DEFINE last == pp[Len(pp)]
  <2>1. pp_stack' = Pop(pp) /\ Len(pp) \in DOMAIN pp /\ last \in Info
    BY <1>1, <1>2, <1>9 DEF Pushed
  <2>2. /\ pp_stack' \in Seq(Info)
        /\ \A i \in DOMAIN pp_stack' : pp_stack'[i] = pp[i]
        /\ SkippingIn(pp_stack') = SkippingIn(pp) \ {Len(pp)}
    BY <1>1, <1>9, <2>1, AfterEndif
  <2>3. SeenElse(pp_stack)' = TrueBranches!Conditions(d)
    <3>1. TrueBranches!Conditions(d) = SubSeq(skipped, 1, Len(skipped) - 1)
      BY <1>3, <1>4, <1>9
    <3>2. /\ SubSeq(skipped, 1, Len(skipped) - 1) \in Seq(BOOLEAN)
          /\ Len(SubSeq(skipped, 1, Len(skipped) - 1)) = Len(pp) - 1
          /\ \A i \in 1 .. Len(pp) - 1 : SubSeq(skipped, 1, Len(skipped) - 1)[i] = skipped[i]
      BY <1>4, <1>9, FrontOfSeq
    <3>3. Len(pp_stack') = Len(pp) - 1 /\ Len(pp) \in Nat
      BY <1>1, <1>9, <2>1, FrontOfSeq, LenProperties DEF Pop
    <3>4. SeenElse(pp_stack') \in Seq(BOOLEAN) /\ Len(SeenElse(pp_stack')) = Len(pp) - 1
      BY <2>2, <3>3, SeenElseIsSeq
    <3>5. ASSUME NEW i \in 1 .. Len(pp) - 1
          PROVE  SeenElse(pp_stack')[i] = skipped[i]
      <4>1. i \in DOMAIN pp_stack' /\ i \in DOMAIN pp
        BY <1>1, <2>2, <3>3, LenProperties
      <4>2. pp_stack'[i] = pp[i]
        BY <2>2, <4>1
      <4> QED BY <1>1, <2>2, <4>1, <4>2, SeenElseAt
    <3> HIDE DEF skipped
    <3>6. SeenElse(pp_stack') = SubSeq(skipped, 1, Len(skipped) - 1)
      BY <3>2, <3>4, <3>5, SeqEqual
    <3> QED BY <3>1, <3>6
  <2>4. CASE ~last.seen_else
    <3>1. Restored(d) = stack /\ Len(pp) \notin SkippingIn(pp)
      BY <1>9, <2>4 DEF Restored, Top, SkippingIn
    <3>2. SkippingIn(pp_stack') = SkippingIn(pp)
      BY <2>2, <3>1
    <3>3. \A i \in SkippingIn(pp) : pp_stack'[i] = pp[i]
      BY <2>2, <3>2 DEF SkippingIn
    <3> QED BY <1>5, <2>2, <2>3, <3>1, <3>2, <3>3
  <2>5. CASE last.seen_else
    <3>1. Restored(d) = last.stack_before_else /\ last.stack_before_else \in Seq(Block)
      BY <1>9, <2>1, <2>5 DEF Restored, Top, Info
    <3>2. NestingTypes'
      <4>1. Restored(d) \in Seq(Block)
        BY <3>1
      <4> HIDE DEF last
      <4> QED BY <1>1, <1>2, <2>2, <4>1, AfterCodeType DEF NestingTypes
    <3>3. Len(pp) \in SkippingIn(pp) /\ \A i \in DOMAIN pp : i \in Nat /\ i <= Len(pp)
      BY <1>1, <2>1, <2>5 DEF SkippingIn
    <3>4. PICK i : Least(i, SkippingIn(pp))
      BY <1>1, <3>3 DEF OutermostIn
    <3>5. KeptIn(stack, pp) = pp[i].stack_before_else
      BY <1>1, <3>4, KeptOutermost
    <3>6. CASE SkippingIn(pp_stack') = {}
      <4>1. i = Len(pp)
        BY <2>2, <3>4, <3>6 DEF Least
      <4> QED BY <1>2, <2>3, <3>1, <3>2, <3>5, <3>6, <4>1, KeptNone DEF IInv, OutermostIn
    <3>7. CASE SkippingIn(pp_stack') # {}
      <4>1. PICK j \in SkippingIn(pp_stack') : TRUE
        BY <3>7
      <4>2. i # Len(pp)
        BY <2>2, <3>3, <3>4, <4>1 DEF Least, SkippingIn
      <4>3. Least(i, SkippingIn(pp_stack'))
        BY <2>2, <3>4, <4>2 DEF Least
      <4>4. pp_stack'[i] = pp[i]
        BY <2>2, <4>3 DEF Least, SkippingIn
      <4>5. KeptIn(stack', pp_stack') = pp_stack'[i].stack_before_else
        BY <2>2, <4>3, KeptOutermost
      <4> QED BY <2>3, <3>2, <3>5, <3>7, <4>3, <4>4, <4>5 DEF IInv, OutermostIn
    <3> QED BY <3>6, <3>7
  <2> QED BY <2>4, <2>5
<1> QED BY <1>1, <1>6, <1>7, <1>8, <1>9

LEMMA KeptDefinition == Kept = KeptIn(stack, pp_stack)
  BY DEF Kept, KeptIn, Skipping, SkippingIn

LEMMA EmptyNesting ==
  /\ SkippingIn(<<>>) = {} /\ SeenElse(<<>>) = <<>>
  /\ <<>> \in Seq(Block) /\ <<>> \in Seq(Info)
  BY DEF SkippingIn, SeenElse

Step ==
  \/ \E l \in Line : Update(l) /\ line' = line + 1
  \/ NewNesting /\ line' = 1

LEMMA InvariantInit == NestingInit /\ line = 1 => IInv
  BY EmptyNesting DEF NestingInit, IInv, NestingTypes, OutermostIn

LEMMA InvariantStep ==
  ASSUME IInv, [Step]_<<nesting, line>>
  PROVE  IInv'
<1>1. ASSUME NEW l \in Line, Update(l), line' = line + 1
      PROVE  IInv'
  BY <1>1, LineOfCode
<1>2. CASE NewNesting /\ line' = 1
  BY <1>2, EmptyNesting DEF NewNesting, IInv, NestingTypes, OutermostIn
<1>3. CASE UNCHANGED <<nesting, line>>
  BY <1>3 DEF nesting, IInv, NestingTypes
<1> QED BY <1>1, <1>2, <1>3 DEF Step

\* The stack of a file and the copies made of it at each #if and #else keep
\* their types: what UpdatePreprocessor restores is a stack.
THEOREM NestingTypesHold == Nesting => []NestingTypes
<1>1. IInv => NestingTypes
  BY DEF IInv
<1> QED BY <1>1, InvariantInit, InvariantStep, PTL DEF Nesting, Step

\* However conditional code nests, the linter's blocks are those of the true
\* branches: UpdatePreprocessor implements what its comments promise.
THEOREM NestingRefinesTrueBranch == Nesting => TrueBranchSpec
<1>1. NestingInit /\ line = 1 => TrueBranches!Init
  <2> SUFFICES ASSUME NestingInit, line = 1 PROVE TrueBranches!Init
    OBVIOUS
  <2>1. Kept = <<>> /\ SeenElse(pp_stack) = <<>>
    BY EmptyNesting, KeptDefinition, KeptNone DEF NestingInit
  <2> QED BY <2>1 DEF TrueBranches!Init, SeenElse
<1>2. IInv /\ [Step]_<<nesting, line>> =>
        [TrueBranches!Next]_<<Kept, [i \in DOMAIN pp_stack |-> pp_stack[i].seen_else], line>>
  <2> SUFFICES ASSUME IInv, [Step]_<<nesting, line>>
               PROVE  [TrueBranches!Next]_<<Kept, SeenElse(pp_stack), line>>
    BY DEF SeenElse
  <2>1. Kept' = KeptIn(stack', pp_stack')
    BY DEF Kept, KeptIn, Skipping, SkippingIn
  <2>2. ASSUME NEW l \in Line, Update(l), line' = line + 1
        PROVE  TrueBranches!Read(l)
    <3>1. SeenElse(pp_stack)' = TrueBranches!Conditions(l.directive)
      BY <2>2, LineOfCode
    <3>2. Kept' = IF SkippingIn(pp_stack') = {} THEN AfterCode(Kept, l.code, line) ELSE Kept
      BY <2>1, <2>2, LineOfCode, KeptDefinition
    <3>3. pp_stack' \in Seq(Info)
      BY InvariantStep DEF IInv, NestingTypes
    <3>4. TrueBranches!Counts(SeenElse(pp_stack')) <=> SkippingIn(pp_stack') = {}
      BY <3>3, CountsIfNone
    <3> QED BY <2>2, <3>1, <3>2, <3>4, SameCode DEF TrueBranches!Read, SeenElse
  <2>3. CASE NewNesting /\ line' = 1
    <3>1. Kept' = <<>> /\ SeenElse(pp_stack') = <<>>
      BY <2>1, <2>3, EmptyNesting, KeptNone DEF NewNesting
    <3> QED BY <2>3, <3>1 DEF TrueBranches!NewFile, TrueBranches!Next, SeenElse
  <2>4. CASE UNCHANGED <<nesting, line>>
    BY <2>4 DEF nesting, Kept, Skipping, SeenElse
  <2> QED BY <2>2, <2>3, <2>4 DEF Step, TrueBranches!Next
<1>3. Nesting => []IInv
  BY InvariantInit, InvariantStep, PTL DEF Nesting, Step
<1> QED BY <1>1, <1>2, <1>3, PTL DEF Nesting, Step, TrueBranchSpec, TrueBranches!Spec

-----------------------------------------------------------------------------
(***************************************************************************)
(* The section and the types of the headers since the order began.         *)
(***************************************************************************)
LateIn(s, k) ==
  \/ s[k] = "other"
  \/ s[k] \in Mine /\ \E j \in 1 .. k - 1 : s[j] \notin Mine

\* The section says which groups there were: its own is the last of them.
SectionOf(s) ==
  /\ section = OTHER_H <=> \E k \in DOMAIN s : LateIn(s, k)
  /\ section \in {CPP, OTHER_H} <=> \E k \in DOMAIN s : s[k] = "cpp" \/ LateIn(s, k)
  /\ section \in {INITIAL, MY_H} <=> \A k \in DOMAIN s : s[k] \in Mine

Faulty(s, k) ==
  \/ s[k] = "c" /\ \E j \in 1 .. k - 1 : (s[j] = "cpp" \/ LateIn(s, j))
  \/ s[k] = "cpp" /\ \E j \in 1 .. k - 1 : LateIn(s, j)

OrderInv ==
  /\ seen \in Seq(HeaderType)
  /\ section \in {INITIAL, MY_H, C, CPP, OTHER_H}
  /\ SectionOf(seen)
  /\ flagged = {k \in DOMAIN seen : Faulty(seen, k)}

\* The groups of the comment, as far as they tell who comes after whom.
LEMMA Groups ==
  ASSUME seen \in Seq(HeaderType), NEW k \in DOMAIN seen
  PROVE  /\ seen[k] = "c" => Group(k) = 2
         /\ seen[k] = "cpp" => Group(k) = 3
         /\ Group(k) > 2 <=> seen[k] = "cpp" \/ LateIn(seen, k)
         /\ Group(k) > 3 <=> LateIn(seen, k)
<1> DEFINE first == \A j \in 1 .. k - 1 : seen[j] \in Mine
<1>1. seen[k] \in HeaderType
  OBVIOUS
<1>2. LateIn(seen, k) <=> seen[k] = "other" \/ (seen[k] \in Mine /\ ~first)
  BY DEF LateIn
<1>3. Group(k) = CASE seen[k] \in Mine /\ first -> 1
                   [] seen[k] = "c" -> 2
                   [] seen[k] = "cpp" -> 3
                   [] seen[k] = "likely my" /\ ~first -> 4
                   [] OTHER -> 5
  BY DEF Group
<1> HIDE DEF first
<1>4. CASE seen[k] = "c"
  BY <1>2, <1>3, <1>4 DEF Mine
<1>5. CASE seen[k] = "cpp"
  BY <1>2, <1>3, <1>5 DEF Mine
<1>6. CASE seen[k] = "other"
  BY <1>2, <1>3, <1>6 DEF Mine
<1>7. CASE seen[k] \in Mine
  <2>1. first => Group(k) = 1
    BY <1>3, <1>7 DEF Mine
  <2>2. ~first => Group(k) \in {4, 5}
    BY <1>3, <1>7 DEF Mine
  <2>3. seen[k] # "c" /\ seen[k] # "cpp" /\ seen[k] # "other"
    BY <1>7 DEF Mine
  <2>4. CASE first
    BY <1>2, <2>1, <2>3, <2>4
  <2> QED BY <1>2, <1>7, <2>2, <2>3, <2>4
<1> QED BY <1>1, <1>4, <1>5, <1>6, <1>7 DEF HeaderType, Mine

LEMMA OrderInvGivesOrder == OrderInv => OrderErrors
<1> SUFFICES ASSUME OrderInv PROVE OrderErrors
  OBVIOUS
<1>1. seen \in Seq(HeaderType) /\ flagged = {k \in DOMAIN seen : Faulty(seen, k)}
  BY DEF OrderInv
<1>2. ASSUME NEW k \in DOMAIN seen
      PROVE  Faulty(seen, k) <=> seen[k] \in {"c", "cpp"} /\ AfterHigher(k)
  <2>1. \A j \in 1 .. k - 1 : j \in DOMAIN seen
    BY <1>1
  <2>2. CASE seen[k] = "c"
    BY <1>1, <2>1, <2>2, Groups DEF Faulty, AfterHigher
  <2>3. CASE seen[k] = "cpp"
    BY <1>1, <2>1, <2>3, Groups DEF Faulty, AfterHigher
  <2> QED BY <2>2, <2>3 DEF Faulty
<1> QED BY <1>1, <1>2 DEF OrderErrors

LEMMA ClassifiedType == \A i \in Include : ClassifyInclude(i) \in HeaderType
  BY DEF ClassifyInclude, HeaderType

\* A header more leaves the ones before it as they were.
LEMMA OneMore ==
  ASSUME NEW s \in Seq(HeaderType), NEW type \in HeaderType
  PROVE  LET t == Append(s, type)
             n == Len(s) + 1
         IN  /\ t \in Seq(HeaderType) /\ n \in Nat \ {0} /\ n \notin DOMAIN s
             /\ DOMAIN t = DOMAIN s \cup {n} /\ DOMAIN s = 1 .. n - 1
             /\ t[n] = type
             /\ \A k \in DOMAIN s : t[k] = s[k] /\ (LateIn(t, k) <=> LateIn(s, k))
             /\ \A k \in DOMAIN s : Faulty(t, k) <=> Faulty(s, k)
             /\ LateIn(t, n) <=> type = "other" \/ (type \in Mine /\ \E j \in DOMAIN s : s[j] \notin Mine)
<1> DEFINE t == Append(s, type)
           n == Len(s) + 1
<1>1. /\ t \in Seq(HeaderType) /\ n \in Nat \ {0} /\ n \notin DOMAIN s
      /\ DOMAIN t = DOMAIN s \cup {n} /\ DOMAIN s = 1 .. n - 1 /\ t[n] = type
      /\ \A k \in DOMAIN s : t[k] = s[k]
  OBVIOUS
<1>2. \A k \in DOMAIN s, j \in 1 .. n : j \in 1 .. k - 1 => j \in DOMAIN s
  BY <1>1
<1>3. \A k \in DOMAIN s : 1 .. k - 1 \subseteq DOMAIN s
  BY <1>1
<1> HIDE DEF t, n
<1>4. \A k \in DOMAIN s : LateIn(t, k) <=> LateIn(s, k)
  BY <1>1, <1>3 DEF LateIn
<1>5. \A k \in DOMAIN s : Faulty(t, k) <=> Faulty(s, k)
  BY <1>1, <1>3, <1>4 DEF Faulty
<1>6. LateIn(t, n) <=> type = "other" \/ (type \in Mine /\ \E j \in DOMAIN s : s[j] \notin Mine)
  BY <1>1 DEF LateIn
<1> QED BY <1>1, <1>4, <1>5, <1>6 DEF t, n

LEMMA StepOfInclude ==
  ASSUME OrderInv, NEW i \in Include, NEW n \in Nat, CheckIncludeLine(i, n)
  PROVE  OrderInv'
<1> DEFINE type == ClassifyInclude(i)
           k == Len(seen) + 1
<1>1. CASE ~Fresh(i)
  BY <1>1 DEF CheckIncludeLine, includes, OrderInv, SectionOf
<1>2. CASE Fresh(i)
  <2>1. /\ section' = NextSection(type) /\ seen' = Append(seen, type)
        /\ flagged' = flagged \cup (IF OutOfOrder(type) THEN {k} ELSE {})
    BY <1>2 DEF CheckIncludeLine
  <2>2. type \in HeaderType /\ seen \in Seq(HeaderType)
    BY ClassifiedType DEF OrderInv
  <2> HIDE DEF type
  <2>3. /\ seen' \in Seq(HeaderType) /\ k \in Nat \ {0} /\ k \notin DOMAIN seen
        /\ DOMAIN seen' = DOMAIN seen \cup {k} /\ DOMAIN seen = 1 .. k - 1
        /\ seen'[k] = type
        /\ \A j \in DOMAIN seen : seen'[j] = seen[j] /\ (LateIn(seen', j) <=> LateIn(seen, j))
        /\ \A j \in DOMAIN seen : Faulty(seen', j) <=> Faulty(seen, j)
        /\ LateIn(seen', k) <=> type = "other" \/ (type \in Mine /\ \E j \in DOMAIN seen : seen[j] \notin Mine)
    BY <2>1, <2>2, OneMore
  <2> HIDE DEF k
  <2>4. section' \in {INITIAL, MY_H, C, CPP, OTHER_H}
    BY <2>1 DEF OrderInv, NextSection, INITIAL, MY_H, C, CPP, OTHER_H
  <2>5. /\ section \in {INITIAL, MY_H, C, CPP, OTHER_H}
        /\ section = OTHER_H <=> \E j \in DOMAIN seen : LateIn(seen, j)
        /\ section \in {CPP, OTHER_H} <=> \E j \in DOMAIN seen : seen[j] = "cpp" \/ LateIn(seen, j)
        /\ section \in {INITIAL, MY_H} <=> \A j \in DOMAIN seen : seen[j] \in Mine
    BY DEF OrderInv, SectionOf
  <2>6. /\ type = "c" => type \notin Mine
        /\ type = "cpp" => type \notin Mine /\ type # "other"
        /\ type = "other" => type \notin Mine /\ type # "cpp"
        /\ type \in Mine => type # "cpp" /\ type # "other" /\ type # "c"
        /\ type \in Mine <=> type \in {"likely my", "possible my"}
        /\ type \in {"c", "cpp", "other"} \/ type \in Mine
    BY <2>2 DEF HeaderType, Mine
  <2>7. SectionOf(seen)'
    <3> DEFINE late == type = "other" \/ (type \in {"likely my", "possible my"}
                                            /\ section \notin {INITIAL, MY_H})
    <3>9. LateIn(seen', k) <=> late
      BY <2>3, <2>5, <2>6
    <3>7. /\ section' = NextSection(type) /\ section \in {INITIAL, MY_H, C, CPP, OTHER_H}
          /\ type \in HeaderType
      BY <2>1, <2>2, <2>5
    <3>8. /\ section' = OTHER_H <=> section = OTHER_H \/ late
          /\ section' \in {CPP, OTHER_H} <=> section \in {CPP, OTHER_H} \/ type = "cpp" \/ late
          /\ section' \in {INITIAL, MY_H} <=>
                section \in {INITIAL, MY_H} /\ type \in {"likely my", "possible my"}
      <4>1. CASE type = "c"
        BY <3>7, <4>1 DEF NextSection, INITIAL, MY_H, C, CPP, OTHER_H
      <4>2. CASE type = "cpp"
        BY <3>7, <4>2 DEF NextSection, INITIAL, MY_H, C, CPP, OTHER_H
      <4>3. CASE type \in {"likely my", "possible my"}
        <5>1. section' = IF section <= MY_H THEN MY_H ELSE OTHER_H
          BY <3>7, <4>3 DEF NextSection
        <5>2. section <= MY_H <=> section \in {INITIAL, MY_H}
          BY <3>7 DEF INITIAL, MY_H, C, CPP, OTHER_H
        <5>4. type # "other" /\ type # "cpp" /\ (late <=> section \notin {INITIAL, MY_H})
          BY <4>3
        <5>5. section \notin {INITIAL, MY_H} => section' = OTHER_H
          BY <5>1, <5>2
        <5>6. section \in {INITIAL, MY_H} => section' = MY_H
          BY <5>1, <5>2
        <5>3. section \in Nat /\ section' \in Nat
          BY <3>7, <5>1 DEF INITIAL, MY_H, C, CPP, OTHER_H
        <5>7. CASE section \in {INITIAL, MY_H}
          <6>1. ~late
            BY <5>4, <5>7
          <6>3. section' = MY_H
            BY <5>6, <5>7
          <6>2. section \notin {CPP, OTHER_H} /\ section' \notin {CPP, OTHER_H}
            BY <5>3, <5>7, <6>3 DEF INITIAL, MY_H, C, CPP, OTHER_H
          <6> HIDE DEF late
          <6> QED BY <4>3, <5>4, <5>7, <6>1, <6>2, <6>3, Zenon
        <5>8. CASE section \notin {INITIAL, MY_H}
          <6>1. late
            BY <5>4, <5>8
          <6>3. section' = OTHER_H
            BY <5>5, <5>8
          <6>2. section' \notin {INITIAL, MY_H} /\ section' \in {CPP, OTHER_H}
            BY <5>3, <6>3 DEF INITIAL, MY_H, C, CPP, OTHER_H
          <6> HIDE DEF late
          <6> QED BY <4>3, <5>4, <5>8, <6>1, <6>2, <6>3, Zenon
        <5> QED BY <5>7, <5>8
      <4>4. CASE type = "other"
        BY <3>7, <4>4 DEF NextSection, INITIAL, MY_H, C, CPP, OTHER_H
      <4> QED BY <3>7, <4>1, <4>2, <4>3, <4>4 DEF HeaderType
    <3> HIDE DEF late
    <3>1. section' = OTHER_H <=> section = OTHER_H \/ LateIn(seen', k)
      BY <3>9, <3>8
    <3>2. section' \in {CPP, OTHER_H} <=> section \in {CPP, OTHER_H} \/ type = "cpp" \/ LateIn(seen', k)
      BY <3>9, <3>8
    <3>3. section' \in {INITIAL, MY_H} <=> section \in {INITIAL, MY_H} /\ type \in Mine
      BY <2>6, <3>8
    <3>4. (\E j \in DOMAIN seen' : LateIn(seen', j)) <=> section' = OTHER_H
      BY <2>3, <2>5, <3>1
    <3>5. (\E j \in DOMAIN seen' : seen'[j] = "cpp" \/ LateIn(seen', j)) <=> section' \in {CPP, OTHER_H}
      BY <2>3, <2>5, <3>2
    <3>6. (\A j \in DOMAIN seen' : seen'[j] \in Mine) <=> section' \in {INITIAL, MY_H}
      BY <2>3, <2>5, <3>3
    <3> QED BY <3>4, <3>5, <3>6 DEF SectionOf, LateIn, INITIAL, MY_H, C, CPP, OTHER_H, Mine
  <2>8. Faulty(seen', k) <=> OutOfOrder(type)
    <3>1. (\E j \in 1 .. k - 1 : LateIn(seen', j)) <=> section = OTHER_H
      BY <2>3, <2>5
    <3>2. (\E j \in 1 .. k - 1 : seen'[j] = "cpp" \/ LateIn(seen', j)) <=> section \in {CPP, OTHER_H}
      BY <2>3, <2>5
    <3>3. Faulty(seen', k) <=> \/ type = "c" /\ section \in {CPP, OTHER_H}
                               \/ type = "cpp" /\ section = OTHER_H
      BY <2>3, <3>1, <3>2 DEF Faulty
    <3> QED BY <2>5, <3>3 DEF OutOfOrder, INITIAL, MY_H, C, CPP, OTHER_H
  <2>9. flagged' = {j \in DOMAIN seen' : Faulty(seen', j)}
    <3>1. flagged = {j \in DOMAIN seen : Faulty(seen, j)}
      BY DEF OrderInv
    <3> QED BY <2>1, <2>3, <2>8, <3>1
  <2> QED BY <2>3, <2>4, <2>7, <2>9 DEF OrderInv, Faulty, LateIn, Mine
<1> QED BY <1>1, <1>2

LEMMA StepOfReset ==
  ASSUME section' = INITIAL, seen' = <<>>, flagged' = {}
  PROVE  OrderInv'
  BY DEF OrderInv, SectionOf, INITIAL, MY_H, C, CPP, OTHER_H, Faulty, LateIn

\* A header is reported out of order exactly when one of a later group came
\* before it since the last directive: CheckNextIncludeOrder forgets nothing
\* that the reports need, and an error hides none that follows.
THEOREM OrderIsExact == Includes => []OrderErrors
<1>1. IncludesInit => OrderInv
  BY DEF IncludesInit, OrderInv, SectionOf, INITIAL, MY_H, C, CPP, OTHER_H, Faulty, LateIn
<1>2. ASSUME OrderInv,
             [\/ \E i \in Include, n \in Nat : CheckIncludeLine(i, n)
              \/ \E d \in {"if", "else", "endif"} : ResetSection(d)
              \/ NewIncludes]_includes
      PROVE  OrderInv'
  <2>1. ASSUME NEW i \in Include, NEW n \in Nat, CheckIncludeLine(i, n)
        PROVE  OrderInv'
    BY <1>2, <2>1, StepOfInclude
  <2>2. ASSUME NEW d \in {"if", "else", "endif"}, ResetSection(d)
        PROVE  OrderInv'
    BY <2>2, StepOfReset DEF ResetSection
  <2>3. CASE NewIncludes
    BY <2>3, StepOfReset DEF NewIncludes
  <2>4. CASE UNCHANGED includes
    BY <1>2, <2>4 DEF OrderInv, SectionOf, includes
  <2> QED BY <1>2, <2>1, <2>2, <2>3, <2>4
<1> QED BY <1>1, <1>2, OrderInvGivesOrder, PTL DEF Includes

(***************************************************************************)
(* The size of functions.                                                  *)
(***************************************************************************)
LEMMA Quotient ==
  ASSUME NEW lines \in Nat, NEW base \in Nat \ {0}, NEW k \in Nat, lines > base * k
  PROVE  lines \div base \in Nat /\ lines \div base >= k
<1> DEFINE q == lines \div base
<1>1. q \in Nat /\ lines < base * (q + 1)
  OBVIOUS
<1> HIDE DEF q
<1>2. ASSUME q < k PROVE FALSE
  <2>1. q + 1 \in Nat /\ q + 1 <= k
    BY <1>1, <1>2
  <2>2. base * (q + 1) <= base * k
    BY <2>1
  <2> QED BY <1>1, <2>1, <2>2
<1> QED BY <1>1, <1>2 DEF q

\* An error about the size of a function is never lost to the verbosity: a
\* function longer than _FunctionState.Check allows at a level of verbosity is
\* reported with at least that confidence, which _ShouldPrintError asks for.
THEOREM LongFunctionsPrinted ==
  ASSUME NEW lines \in Nat, NEW base \in Nat \ {0}, NEW v \in 0 .. 5,
         lines > Trigger(base, v)
  PROVE  ErrorLevel(lines, base) >= v
<1>1. PICK k \in {1, 2, 4, 8, 16, 32} :
         /\ Trigger(base, v) = base * k
         /\ v = 0 => k = 1
         /\ v = 1 => k = 2
         /\ v = 2 => k = 4
         /\ v = 3 => k = 8
         /\ v = 4 => k = 16
         /\ v = 5 => k = 32
  BY DEF Trigger
<1>2. lines \div base \in Nat /\ lines \div base >= k
  BY <1>1, Quotient
<1> QED BY <1>1, <1>2 DEF ErrorLevel

-----------------------------------------------------------------------------
(***************************************************************************)
(* The program.  What its steps make of files and lines.                   *)
(***************************************************************************)
Sources == UNION {Range(a.files) : a \in Arguments}

Reading == pc \in {"opened", "reading", "read"}

\* A file is under way while it is the first of those that are left.
Driven ==
  /\ pc \in {"arguments", "between", "opened", "reading", "read", "done"}
  /\ todo \in Seq(Sources)
  /\ Reading => todo # <<>>
  /\ line \in Nat \ {0}

LEMMA SourceLines ==
  ASSUME NEW f \in Sources
  PROVE  f.lines \in Seq(Line)
  BY ArgumentsAssumption DEF Sources

LEMMA FilesType ==
  ASSUME NEW a \in Arguments
  PROVE  a.files \in Seq(Sources)
<1>1. a.files \in Seq(Range(a.files)) /\ Range(a.files) \subseteq Sources
  BY ArgumentsAssumption DEF Sources
<1>2. PICK files : files = a.files
  OBVIOUS
<1>3. PICK S : S = Range(a.files)
  OBVIOUS
<1>4. files \in Seq(S) /\ S \subseteq Sources
  BY <1>1, <1>2, <1>3
<1> QED BY <1>2, <1>4

\* A line is blank or what was written there.
LEMMA CleanedType ==
  ASSUME NEW lines \in Seq(Line)
  PROVE  Cleaned(lines) \in Seq(Line) /\ Len(Cleaned(lines)) = Len(lines)
<1> DEFINE open == InComment(lines)
           last == IF Unclosed(lines) = 0 THEN Len(lines) ELSE Unclosed(lines) - 1
<1>1. Cleaned(lines) = [i \in DOMAIN lines |->
                          IF i <= last /\ (open[i] \/ open[i - 1]) THEN Blank ELSE lines[i]]
  BY DEF Cleaned
<1> HIDE DEF open, last
<1>2. DOMAIN lines = 1 .. Len(lines) /\ Len(lines) \in Nat
      /\ \A i \in DOMAIN lines : lines[i] \in Line
  OBVIOUS
<1>3. Cleaned(lines) \in [1 .. Len(lines) -> Line]
  BY <1>1, <1>2, ArgumentsAssumption
<1> QED BY <1>2, <1>3

LEMMA LinesType ==
  ASSUME Driven, Reading
  PROVE  /\ Head(todo) \in Sources /\ Tail(todo) \in Seq(Sources)
         /\ Lines \in Seq(Line)
<1>1. Head(todo) \in Sources /\ Tail(todo) \in Seq(Sources)
  BY DEF Driven
<1> QED BY <1>1, SourceLines, CleanedType DEF Lines

LEMMA DrivenInit == Init => Driven
  BY DEF Init, Driven, Reading

LEMMA DrivenStep ==
  ASSUME Driven, [Next]_vars
  PROVE  Driven'
<1>1. ASSUME NEW a \in Arguments, ParseArguments(a)
      PROVE  Driven'
  BY <1>1, FilesType DEF ParseArguments, parsing, Driven, Reading
<1>2. CASE SkipFile
  <2>1. todo # <<>> /\ todo' = Tail(todo) /\ pc = "between"
        /\ UNCHANGED <<pc, line>>
    BY <1>2 DEF SkipFile, parsing
  <2> QED BY <2>1 DEF Driven, Reading
<1>3. CASE OpenFile
  BY <1>3 DEF OpenFile, parsing, Driven, Reading
<1>4. CASE Prescan
  BY <1>4 DEF Prescan, Driven, Reading
<1>5. CASE ProcessLine
  <2>1. pc = "reading" /\ line' = line + 1 /\ UNCHANGED <<pc, todo>>
    BY <1>5 DEF ProcessLine, driver
  <2> QED BY <2>1 DEF Driven, Reading
<1>6. CASE EndFileData
  BY <1>6 DEF EndFileData, Driven, Reading
<1>7. CASE EndFile
  <2>1. pc = "read" /\ pc' = "between" /\ todo' = Tail(todo) /\ line' = 1
    BY <1>7 DEF EndFile
  <2>2. Tail(todo) \in Seq(Sources)
    BY <2>1, LinesType DEF Reading
  <2> QED BY <2>1, <2>2 DEF Driven, Reading
<1>8. CASE Finish
  BY <1>8 DEF Finish, parsing, Driven, Reading
<1>9. CASE UNCHANGED vars
  BY <1>9 DEF vars, driver, Driven, Reading
<1> QED BY <1>1, <1>2, <1>3, <1>4, <1>5, <1>6, <1>7, <1>8, <1>9 DEF Next

LEMMA AlwaysDriven == Spec => []Driven
  BY DrivenInit, DrivenStep, PTL DEF Spec

(***************************************************************************)
(* Blocks and includes: a line that is read is a step of NestingState and  *)
(* one of _IncludeState, the end of a file makes new ones, and nothing     *)
(* else touches them.                                                      *)
(***************************************************************************)
LEMMA LineRead ==
  ASSUME Driven, ProcessLine
  PROVE  \E l \in Line : /\ Update(l) /\ line' = line + 1
                         /\ CheckLanguage(l) \/ UNCHANGED includes
<1>1. Lines[line] \in Line
  <2>1. pc = "reading" /\ line <= Len(Lines)
    BY DEF ProcessLine
  <2>2. Lines \in Seq(Line) /\ line \in Nat \ {0}
    BY <2>1, LinesType DEF Driven, Reading
  <2> QED BY <2>1, <2>2
<1>2. Update(Lines[line]) /\ line' = line + 1
  BY DEF ProcessLine
<1>3. CheckLanguage(Lines[line]) \/ UNCHANGED includes
  BY DEF ProcessLine
<1> QED BY <1>1, <1>2, <1>3

LEMMA ElsewhereUntouched ==
  ASSUME [Next]_vars
  PROVE  \/ ProcessLine
         \/ EndFile
         \/ UNCHANGED <<nesting, line, includes>>
  BY DEF Next, vars, ParseArguments, SkipFile, OpenFile, Prescan, EndFileData, Finish, parsing

LEMMA BlocksStep ==
  ASSUME Driven, [Next]_vars
  PROVE  [Step]_<<nesting, line>>
<1>1. CASE ProcessLine
  BY <1>1, LineRead DEF Step
<1>2. CASE EndFile
  BY <1>2 DEF EndFile, Step
<1> QED BY <1>1, <1>2, ElsewhereUntouched

IncludeStep ==
  \/ \E i \in Include, n \in Nat : CheckIncludeLine(i, n)
  \/ \E d \in {"if", "else", "endif"} : ResetSection(d)
  \/ NewIncludes

LEMMA IncludesStep ==
  ASSUME Driven, [Next]_vars
  PROVE  [IncludeStep]_includes
<1>1. CASE ProcessLine
  <2>1. PICK l \in Line : CheckLanguage(l) \/ UNCHANGED includes
    BY <1>1, LineRead
  <2>2. l.directive \in {"none", "if", "else", "endif"} /\ l.include \in Include \cup {None}
    BY LineAssumption, ArgumentsAssumption
  <2>3. line \in Nat
    BY DEF Driven
  <2>4. CASE l.include # None /\ CheckLanguage(l)
    BY <2>2, <2>3, <2>4 DEF CheckLanguage, IncludeStep
  <2>5. CASE l.include = None /\ CheckLanguage(l)
    BY <2>2, <2>5 DEF CheckLanguage, IncludeStep
  <2> QED BY <2>1, <2>4, <2>5
<1>2. CASE EndFile
  BY <1>2 DEF EndFile, IncludeStep
<1> QED BY <1>1, <1>2, ElsewhereUntouched

\* A run of the linter, over any number of files, reads blocks as NestingState
\* is meant to be used: no step of the program around it changes the stack or
\* skips a line, and a new file begins with a new state.
THEOREM RunReadsBlocks == Spec => Nesting
<1>1. Init => NestingInit /\ line = 1
  BY DEF Init
<1>2. Driven /\ [Next]_vars => [Step]_<<nesting, line>>
  BY BlocksStep
<1> QED BY <1>1, <1>2, AlwaysDriven, PTL DEF Spec, Nesting, Step

\* The blocks the linter reports on are those of the true branches of
\* conditional code, in every file of a run and from whatever was in it.
THEOREM RunFollowsTrueBranches == Spec => TrueBranchSpec
  BY RunReadsBlocks, NestingRefinesTrueBranch, PTL

\* A run of the linter keeps its includes as _IncludeState is meant to be used.
THEOREM RunReadsIncludes == Spec => Includes
<1>1. Init => IncludesInit
  BY DEF Init
<1>2. Driven /\ [Next]_vars => [IncludeStep]_includes
  BY IncludesStep
<1> QED BY <1>1, <1>2, AlwaysDriven, PTL DEF Spec, Includes, IncludeStep

\* In every file of a run, a header is reported out of order exactly when one
\* of a later group came before it since the last directive.
THEOREM RunReportsOrder == Spec => []OrderErrors
  BY RunReadsIncludes, OrderIsExact, PTL

(***************************************************************************)
(* Filters.  While a file is read, its own are at the end of the list and  *)
(* those of the command line are in the backup that EndFile restores.      *)
(***************************************************************************)
FiltersKept == FiltersOfOneFile /\ (Reading => filters_backup = flags)

LEMMA FiltersStep ==
  ASSUME Driven, FiltersKept, [Next]_vars
  PROVE  FiltersKept'
<1> USE DEF FiltersKept, FiltersOfOneFile, Reading
<1>1. ASSUME NEW a \in Arguments, ParseArguments(a)
      PROVE  FiltersKept'
  BY <1>1 DEF ParseArguments
<1>2. CASE SkipFile
  BY <1>2 DEF SkipFile
<1>3. CASE OpenFile
  <2>1. /\ pc = "between" /\ pc' = "opened" /\ UNCHANGED <<todo, flags>>
        /\ filters_backup' = filters /\ filters' = filters \o ConfigFilters(Head(todo))
    BY <1>3 DEF OpenFile
  <2>2. ConfigFilters(Head(todo))' = ConfigFilters(Head(todo))
    BY <2>1
  <2> QED BY <2>1, <2>2
<1>4. ASSUME pc \in {"opened", "reading", "read"}, pc' \in {"opened", "reading", "read"},
             UNCHANGED <<todo, flags, filters, filters_backup>>
      PROVE  FiltersKept'
  <2>1. ConfigFilters(Head(todo))' = ConfigFilters(Head(todo))
    BY <1>4
  <2> QED BY <1>4, <2>1
<1>5. CASE Prescan
  BY <1>4, <1>5 DEF Prescan, settings
<1>6. CASE ProcessLine
  BY <1>4, <1>6 DEF ProcessLine, driver, settings
<1>7. CASE EndFileData
  BY <1>4, <1>7 DEF EndFileData, settings
<1>8. CASE EndFile
  BY <1>8 DEF EndFile
<1>9. CASE Finish
  BY <1>9 DEF Finish
<1>10. CASE UNCHANGED vars
  <2>1. UNCHANGED <<pc, todo, flags, filters, filters_backup>>
    BY <1>10 DEF vars, driver, reports, settings
  <2>2. CASE pc \in {"opened", "reading", "read"}
    BY <1>4, <2>1, <2>2
  <2>3. CASE pc \notin {"opened", "reading", "read"}
    BY <2>1, <2>3
  <2> QED BY <2>2, <2>3
<1> QED BY <1>1, <1>2, <1>3, <1>5, <1>6, <1>7, <1>8, <1>9, <1>10 DEF Next

\* A file is checked with the filters of the command line and those of its own
\* CPPLINT.cfg, in this order, whatever the files before it asked for and
\* whether they could be read, were excluded or were no C++: ProcessFile
\* restores them on every way out of a file that added some.
THEOREM FiltersStayInTheirFile == Spec => []FiltersOfOneFile
<1>1. Init => FiltersKept
  BY DEF Init, FiltersKept, FiltersOfOneFile, Reading
<1>2. Driven /\ FiltersKept /\ [Next]_vars => FiltersKept'
  BY FiltersStep
<1>3. FiltersKept => FiltersOfOneFile
  BY DEF FiltersKept
<1> QED BY <1>1, <1>2, <1>3, AlwaysDriven, PTL DEF Spec

(***************************************************************************)
(* NOLINT.                                                                 *)
(***************************************************************************)

\* A suppression that a line of the text asks for.
AskedFor(p, lines) == \E i \in DOMAIN lines : p \in Suppressing(lines[i].nolint, i)

LEMMA LeastExists ==
  ASSUME NEW S \in SUBSET Nat, S # {}
  PROVE  \E n \in S : \A m \in S : n <= m
<1>1. PICK R : R = OpToRel(<, Nat)
  OBVIOUS
<1>2. IsWellFoundedOn(R, Nat)
  BY <1>1, NatLessThanWellFounded
<1>3. \A x, y \in Nat : x < y => <<x, y>> \in R
  BY <1>1 DEF OpToRel
<1>4. PICK n \in S : \A m \in S : <<m, n>> \notin R
  BY <1>2, WFMin
<1>5. \A m \in S : m \in Nat /\ n \in Nat /\ ~(m < n)
  BY <1>3, <1>4
<1> QED BY <1>4, <1>5

LEMMA MinInSet ==
  ASSUME NEW S \in SUBSET Nat, S # {}
  PROVE  Min(S) \in S /\ \A m \in S : Min(S) <= m
<1>1. \E n \in S : \A m \in S : n <= m
  BY LeastExists
<1> QED BY <1>1 DEF Min

LEMMA MaxInSet ==
  ASSUME NEW n \in Nat, NEW S \in SUBSET (0 .. n), S # {}
  PROVE  Max(S) \in S /\ \A m \in S : Max(S) >= m
<1> DEFINE T == {k \in Nat : n - k \in S}
<1>1. PICK m \in S : TRUE
  OBVIOUS
<1>2. n - m \in T
  BY <1>1
<1>3. PICK k \in T : \A j \in T : k <= j
  BY <1>2, LeastExists
<1>4. ASSUME NEW i \in S
      PROVE  n - k >= i
  <2>1. n - i \in T /\ i \in 0 .. n
    OBVIOUS
  <2>2. k <= n - i
    BY <1>3, <2>1
  <2> QED BY <1>3, <2>1, <2>2
<1>5. n - k \in S /\ \A i \in S : n - k >= i
  BY <1>3, <1>4
<1> QED BY <1>5 DEF Max

LEMMA GuardFound ==
  ASSUME NEW lines \in Seq(Line), NEW word
  PROVE  /\ FirstOf(word, lines) # 0 => FirstOf(word, lines) \in DOMAIN lines
         /\ LastEndif(lines) # 0 => LastEndif(lines) \in DOMAIN lines
<1>1. DOMAIN lines = 1 .. Len(lines) /\ Len(lines) \in Nat
  OBVIOUS
<1>2. \A S \in SUBSET DOMAIN lines : S # {} => Min(S) \in S
  BY <1>1, MinInSet
<1>3. \A S \in SUBSET DOMAIN lines : S # {} => Max(S) \in S
  <2>1. \A S \in SUBSET DOMAIN lines : S \in SUBSET (0 .. Len(lines))
    BY <1>1
  <2> QED BY <1>1, <2>1, MaxInSet
<1>4. {i \in DOMAIN lines : lines[i].word = word} \in SUBSET DOMAIN lines
      /\ {i \in DOMAIN lines : lines[i].word = "#endif"} \in SUBSET DOMAIN lines
  OBVIOUS
<1>5. FirstOf(word, lines) # 0 => FirstOf(word, lines) \in DOMAIN lines
  BY <1>2, <1>4 DEF FirstOf
<1>6. LastEndif(lines) # 0 => LastEndif(lines) \in DOMAIN lines
  BY <1>3, <1>4 DEF LastEndif
<1> QED BY <1>5, <1>6

\* What is suppressed from the start comes from comments on lines of the guard.
LEMMA GuardAsks ==
  ASSUME NEW lines \in Seq(Line), NEW p \in GuardChecked(lines).supp
  PROVE  AskedFor(p, lines)
<1> DEFINE ifndef == FirstOf("#ifndef", lines)
           define == FirstOf("#define", lines)
           endif  == LastEndif(lines)
           read   == (IF lines[ifndef].guard = "right" THEN {} ELSE {ifndef}) \cup ({endif} \ {0})
           supp   == UNION {Suppressing(lines[i].nolint, i) : i \in read}
<1>1. ifndef # 0 /\ p \in supp
  BY DEF GuardChecked
<1>2. read \subseteq DOMAIN lines
  BY <1>1, GuardFound
<1> QED BY <1>1, <1>2 DEF AskedFor

\* The line of an error and its category, hidden because a line asks for it.
HiddenIn(h, lines) ==
  \E i \in DOMAIN lines :
    \E p \in Suppressing(lines[i].nolint, i) : p[2] = h[1] /\ p[1] \in {"all", h[2]}

\* What a file's lines have asked for is all that is in force while it is read.
NolintOfFile ==
  /\ pc \notin {"reading", "read"} => hidden = {}
  /\ pc \in {"reading", "read"} =>
       /\ \A p \in suppressions : AskedFor(p, Lines)
       /\ \A h \in hidden : HiddenIn(h, Lines)

LEMMA HidesWhatIsAsked ==
  ASSUME NEW errors, NEW supp, NEW lines, \A p \in supp : AskedFor(p, lines),
         NEW h \in Hides(errors, supp)
  PROVE  HiddenIn(h, lines)
<1>1. PICK e \in errors : Suppressed(e, supp) /\ h = <<e[1], e[2]>>
  BY DEF Hides
<1>2. PICK p \in supp : p = <<e[2], e[1]>> \/ p = <<"all", e[1]>>
  BY <1>1 DEF Suppressed
<1>3. p[2] = h[1] /\ p[1] \in {"all", h[2]}
  BY <1>1, <1>2
<1>4. PICK i \in DOMAIN lines : p \in Suppressing(lines[i].nolint, i)
  BY DEF AskedFor
<1> QED BY <1>3, <1>4 DEF HiddenIn

LEMMA NolintPrescan ==
  ASSUME Driven, NolintOfFile, Prescan
  PROVE  NolintOfFile'
<1>1. /\ pc = "opened" /\ pc' = "reading" /\ UNCHANGED todo
      /\ \/ suppressions' = GuardChecked(Lines).supp
         \/ suppressions' = {}
      /\ \E errors : hidden' = Hides(errors, suppressions')
  BY DEF Prescan
<1>2. Lines' = Lines
  BY <1>1 DEF Lines
<1>3. Lines \in Seq(Line)
  BY <1>1, LinesType DEF Reading
<1>4. \A p \in suppressions' : AskedFor(p, Lines)
  BY <1>1, <1>3, GuardAsks
<1>5. \A h \in hidden' : HiddenIn(h, Lines)
  BY <1>1, <1>4, HidesWhatIsAsked
<1>6. pc' \in {"reading", "read"}
  BY <1>1
<1> QED BY <1>2, <1>4, <1>5, <1>6 DEF NolintOfFile

\* Errors are reported, with suppressions of lines that were read.
LEMMA NolintReport ==
  ASSUME NolintOfFile, pc \in {"reading", "read"}, pc' \in {"reading", "read"}, UNCHANGED todo,
         \A p \in suppressions' : AskedFor(p, Lines),
         NEW errors, hidden' = hidden \cup Hides(errors, suppressions')
  PROVE  NolintOfFile'
<1>1. Lines' = Lines
  BY DEF Lines
<1>2. \A h \in Hides(errors, suppressions') : HiddenIn(h, Lines)
  BY HidesWhatIsAsked
<1>3. \A h \in hidden' : HiddenIn(h, Lines)
  BY <1>2 DEF NolintOfFile
<1> QED BY <1>1, <1>3 DEF NolintOfFile

LEMMA NolintLine ==
  ASSUME Driven, NolintOfFile, ProcessLine
  PROVE  NolintOfFile'
<1>1. /\ pc = "reading" /\ line <= Len(Lines) /\ UNCHANGED <<pc, todo>>
      /\ suppressions' = suppressions \cup Suppressing(Lines[line].nolint, line)
      /\ \E errors : Error(errors, suppressions')
  BY DEF ProcessLine, driver
<1>2. PICK errors : hidden' = hidden \cup Hides(errors, suppressions')
  BY <1>1 DEF Error
<1>3. line \in DOMAIN Lines
  <2>1. Lines \in Seq(Line) /\ line \in Nat \ {0}
    BY <1>1, LinesType DEF Driven, Reading
  <2> QED BY <1>1, <2>1
<1>4. \A p \in suppressions' : AskedFor(p, Lines)
  <2>1. \A p \in suppressions : AskedFor(p, Lines)
    BY <1>1 DEF NolintOfFile
  <2>2. \A p \in Suppressing(Lines[line].nolint, line) : AskedFor(p, Lines)
    BY <1>3 DEF AskedFor
  <2> QED BY <1>1, <2>1, <2>2
<1>5. pc \in {"reading", "read"} /\ pc' \in {"reading", "read"} /\ UNCHANGED todo
  BY <1>1
<1> QED BY <1>2, <1>4, <1>5, NolintReport

LEMMA NolintStep ==
  ASSUME Driven, NolintOfFile, [Next]_vars
  PROVE  NolintOfFile'
<1>1. ASSUME pc \notin {"reading", "read"}, pc' \notin {"reading", "read"}, UNCHANGED hidden
      PROVE  NolintOfFile'
  BY <1>1 DEF NolintOfFile
<1>2. ASSUME NEW a \in Arguments, pc = "arguments", ParseArguments(a)
      PROVE  NolintOfFile'
  BY <1>1, <1>2 DEF ParseArguments, parsing
<1>3. CASE SkipFile
  BY <1>1, <1>3 DEF SkipFile, parsing
<1>4. CASE OpenFile
  BY <1>1, <1>4 DEF OpenFile, parsing
<1>5. CASE Finish
  BY <1>1, <1>5 DEF Finish, reports
<1>6. CASE EndFileData
  <2>1. /\ pc = "reading" /\ pc' = "read" /\ UNCHANGED <<todo, suppressions>>
        /\ hidden' = hidden \cup Hides(FinalErrors(Head(todo)), suppressions)
    BY <1>6 DEF EndFileData, Error
  <2>2. PICK errors : errors = FinalErrors(Head(todo))
    OBVIOUS
  <2>3. \A p \in suppressions' : AskedFor(p, Lines)
    BY <2>1 DEF NolintOfFile
  <2>4. hidden' = hidden \cup Hides(errors, suppressions')
    BY <2>1, <2>2
  <2>5. pc \in {"reading", "read"} /\ pc' \in {"reading", "read"} /\ UNCHANGED todo
    BY <2>1
  <2> QED BY <2>3, <2>4, <2>5, NolintReport
<1>7. CASE EndFile
  BY <1>7 DEF EndFile, NolintOfFile
<1>8. CASE UNCHANGED vars
  <2>1. UNCHANGED <<pc, todo, suppressions, hidden>>
    BY <1>8 DEF vars, driver, reports
  <2>2. Lines' = Lines
    BY <2>1 DEF Lines
  <2> QED BY <2>1, <2>2 DEF NolintOfFile
<1> QED BY <1>2, <1>3, <1>4, <1>5, <1>6, <1>7, <1>8, NolintPrescan, NolintLine DEF Next

\* An error of a file is hidden only by a NOLINT comment of the same file for
\* its category or for all, on its line or on the line before: the suppressions
\* of one file are gone before the next is read, and those that the header
\* guard is read ahead for come from lines of the file too.
THEOREM HiddenByNolintOnly == Spec => []HiddenByItsLine
<1>1. Init => NolintOfFile
  BY DEF Init, NolintOfFile
<1>2. Driven /\ NolintOfFile /\ [Next]_vars => NolintOfFile'
  BY NolintStep
<1>3. NolintOfFile => HiddenByItsLine
  BY DEF NolintOfFile, HiddenByItsLine, HiddenIn
<1> QED BY <1>1, <1>2, <1>3, AlwaysDriven, PTL DEF Spec
=============================================================================
