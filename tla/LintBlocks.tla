----------------------------- MODULE LintBlocks -----------------------------
(***************************************************************************)
(* The stack of open blocks that the linter of the build, cpplint.py,      *)
(* keeps of a C++ file, and what one line of code does to it.              *)
(*                                                                         *)
(* A line is what the regular expressions of NestingState.Update find in   *)
(* it: its parentheses, the head of a namespace or of a class, and its     *)
(* braces, semicolons and closing parentheses.  A line with more than one  *)
(* head, or more than two tokens, acts as several lines.                   *)
(***************************************************************************)
EXTENDS Integers, Sequences

CONSTANT LongNamespace  \* 10: a namespace that needs a comment at its end

ASSUME LongNamespaceAssumption == LongNamespace \in Nat

\* _ClassInfo, _NamespaceInfo, _ExternCInfo and the _BlockInfo of the rest.
Block == [kind  : {"class", "namespace", "extern", "block"},
          open  : BOOLEAN,                           \* seen_open_brace
          paren : Int,                               \* open_parentheses
          asm   : {"no", "inside", "end", "block"},  \* inline_asm
          start : Nat]                               \* starting_linenum

Token == {"none", "{", "extern {", "asm {", ";", ")", "}"}

Code == [paren     : Int,                      \* its ( minus its )
         asm       : BOOLEAN,                  \* it begins as assembly does
         namespace : {"no", "head", "open"},   \* its brace too, if "open"
         class     : BOOLEAN,                  \* and not a template argument
         tokens    : Token \X Token,
         comment   : {"none", "right", "wrong"}]  \* "namespace x" after a }

NewBlock(kind, open, asm, n) ==
  [kind |-> kind, open |-> open, paren |-> 0, asm |-> asm, start |-> n]

Top(stack) == stack[Len(stack)]
Pop(stack) == SubSeq(stack, 1, Len(stack) - 1)

SeenOpenBrace(stack) == stack = <<>> \/ Top(stack).open
InAsmBlock(stack) == stack # <<>> /\ Top(stack).asm # "no"
InNamespaceBody(stack) == stack # <<>> /\ Top(stack).kind = "namespace"

\* The parentheses of the line, and the assembly they may begin or end.
Counted(stack, code) ==
  LET top   == Top(stack)
      paren == top.paren + code.paren
      asm   == IF top.asm \in {"no", "end"}
                 THEN IF code.paren # 0 /\ paren = 1 /\ code.asm THEN "inside" ELSE "no"
                 ELSE IF top.asm = "inside" /\ paren = 0 THEN "end" ELSE top.asm
  IN  IF stack = <<>> THEN stack
      ELSE [stack EXCEPT ![Len(stack)] = [top EXCEPT !.paren = paren, !.asm = asm]]

\* The heads of a namespace and of a class.
Headed(stack, code, n) ==
  LET spaced == IF code.namespace = "no" THEN stack
                ELSE Append(stack, NewBlock("namespace", code.namespace = "open", "no", n))
  IN  IF code.class /\ (spaced = <<>> \/ Top(spaced).paren = 0)
        THEN Append(spaced, NewBlock("class", FALSE, "no", n))
        ELSE spaced

\* One brace, semicolon or closing parenthesis.
Consumed(stack, token, n) ==
  IF token \in {"{", "extern {", "asm {"} THEN
    IF ~SeenOpenBrace(stack)
      THEN [stack EXCEPT ![Len(stack)] = [Top(stack) EXCEPT !.open = TRUE]]
      ELSE Append(stack,
             NewBlock(IF token = "extern {" THEN "extern" ELSE "block", TRUE,
                      IF token = "asm {" THEN "block" ELSE "no", n))
  ELSE IF token \in {";", ")"} THEN
    IF SeenOpenBrace(stack) THEN stack ELSE Pop(stack)
  ELSE IF token = "}" /\ stack # <<>> THEN Pop(stack)
  ELSE stack

\* NestingState.Update but for the preprocessor: the stack after the line n.
AfterCode(stack, code, n) ==
  Consumed(Consumed(Headed(Counted(stack, code), code, n), code.tokens[1], n),
           code.tokens[2], n)

\* _NamespaceInfo.CheckEnd: a short namespace needs no comment at its end, but
\* one it has is to be right.
EndsBadly(stack, token, code, n) ==
  /\ token = "}" /\ InNamespaceBody(stack)
  /\ n - Top(stack).start < LongNamespace => code.comment # "none"
  /\ code.comment # "right"

\* The line closes a namespace without the comment it should have.
BadEnd(stack, code, n) ==
  LET headed == Headed(Counted(stack, code), code, n)
  IN  \/ EndsBadly(headed, code.tokens[1], code, n)
      \/ EndsBadly(Consumed(headed, code.tokens[1], n), code.tokens[2], code, n)

\* CheckCompletedBlocks: the classes and namespaces nothing closed.
Incomplete(stack) == SelectSeq(stack, LAMBDA b : b.kind \in {"class", "namespace"})
=============================================================================
