----------------------------- MODULE TrueBranch -----------------------------
(***************************************************************************)
(* What the linter promises about conditional code: the blocks of a file   *)
(* are those of its lines from each #if up to the first #else, #elif or    *)
(* #endif; the lines from there to the #endif "do not affect nesting       *)
(* stack" (scripts/cpplint.py:2335-2337).                                  *)
(***************************************************************************)
EXTENDS LintBlocks

CONSTANT Line  \* the lines: their directive and their code

VARIABLES
  blocks,   \* the open blocks of the lines that count
  skipped,  \* for each #if that is open, whether its #else was seen
  line      \* the number of the next line

Init == blocks = <<>> /\ skipped = <<>> /\ line = 1

Conditions(directive) ==
  IF directive = "if" THEN Append(skipped, FALSE)
  ELSE IF directive = "none" \/ skipped = <<>> THEN skipped
  ELSE IF directive = "else" THEN [skipped EXCEPT ![Len(skipped)] = TRUE]
  ELSE SubSeq(skipped, 1, Len(skipped) - 1)

Counts(conditions) == \A i \in DOMAIN conditions : ~conditions[i]

Read(l) ==
  /\ skipped' = Conditions(l.directive)
  /\ blocks' = IF Counts(skipped') THEN AfterCode(blocks, l.code, line) ELSE blocks
  /\ line' = line + 1

NewFile == blocks' = <<>> /\ skipped' = <<>> /\ line' = 1

Next == NewFile \/ \E l \in Line : Read(l)

Spec == Init /\ [][Next]_<<blocks, skipped, line>>
=============================================================================
