---------------------------- MODULE LintNesting ----------------------------
(***************************************************************************)
(* NestingState of cpplint.py: the stack of open blocks, with the copies   *)
(* of it that are kept while conditional code is read.  The code copies    *)
(* the stack deeply wherever two copies could be changed, so a copy is a   *)
(* value here.                                                             *)
(***************************************************************************)
EXTENDS LintBlocks

CONSTANT Line  \* what may stand on a line

ASSUME LineAssumption ==
  \A l \in Line : l.directive \in {"none", "if", "else", "endif"} /\ l.code \in Code

VARIABLES
  stack,     \* stack
  pp_stack,  \* pp_stack: one _PreprocessorInfo for each #if that is open
  line       \* the line that is read next; a marker stands before line 1

nesting == <<stack, pp_stack>>

Info == [stack_before_if : Seq(Block), stack_before_else : Seq(Block), seen_else : BOOLEAN]

NestingInit == stack = <<>> /\ pp_stack = <<>>

\* Mutant: every #else and #elif saves the stack it finds.
OnElseAlways(info) == [info EXCEPT !.seen_else = TRUE, !.stack_before_else = stack]

\* The first #else or #elif saves the stack that is kept after the #endif.
OnElse(info) ==
  IF info.seen_else THEN info
  ELSE [info EXCEPT !.seen_else = TRUE, !.stack_before_else = stack]

\* UpdatePreprocessor: pp_stack and stack after the directive of a line.
Pushed(directive) ==
  IF directive = "if" THEN
    Append(pp_stack, [stack_before_if |-> stack, stack_before_else |-> <<>>,
                      seen_else |-> FALSE])
  ELSE IF pp_stack = <<>> THEN pp_stack
  ELSE IF directive = "else" THEN [pp_stack EXCEPT ![Len(pp_stack)] = OnElse(Top(pp_stack))]
  ELSE IF directive = "endif" THEN Pop(pp_stack)
  ELSE pp_stack

Restored(directive) ==
  IF pp_stack = <<>> THEN stack
  ELSE IF directive = "else" THEN Top(pp_stack).stack_before_if
  ELSE IF directive = "endif" /\ Top(pp_stack).seen_else THEN Top(pp_stack).stack_before_else
  ELSE stack

\* Update.
Update(l) ==
  /\ pp_stack' = Pushed(l.directive)
  /\ stack' = AfterCode(Restored(l.directive), l.code, line)

\* A NestingState for the next file.
NewNesting == stack' = <<>> /\ pp_stack' = <<>>

Nesting ==
  /\ NestingInit /\ line = 1
  /\ [][\/ \E l \in Line : Update(l) /\ line' = line + 1
        \/ NewNesting /\ line' = 1]_<<nesting, line>>

-----------------------------------------------------------------------------
\* The stack and its copies keep their types.
NestingTypes == stack \in Seq(Block) /\ pp_stack \in Seq(Info) /\ line \in Nat

Skipping == {i \in DOMAIN pp_stack : pp_stack[i].seen_else}

\* What counts while an #else is read is the copy made at the outermost one.
Kept ==
  IF Skipping = {} THEN stack
  ELSE pp_stack[CHOOSE i \in Skipping : \A j \in Skipping : i <= j].stack_before_else

TrueBranches ==
  INSTANCE TrueBranch WITH blocks <- Kept, skipped <- [i \in DOMAIN pp_stack |-> pp_stack[i].seen_else]

\* However #if, #else, #elif and #endif nest, and with those that match none,
\* the blocks of a file are those of its true branches.
TrueBranchSpec == TrueBranches!Spec
=============================================================================
