------------------------------ MODULE Cpplint ------------------------------
(***************************************************************************)
(* scripts/cpplint.py, which `npm run cpplint` runs over src/*.h and       *)
(* src/*.cc: its arguments, the files one after the other with their       *)
(* CPPLINT.cfg, and the lines of a file one after the other.  The state of *)
(* the blocks, the includes and the reports is in the modules extended.    *)
(*                                                                         *)
(* The checks that keep no state from one line to the next are left out,   *)
(* but for one of each way in which an error can be reported.              *)
(***************************************************************************)
EXTENDS LintNesting, LintIncludes, LintReports, SequencesExt

CONSTANTS
  Arguments,                  \* the command lines, with the files they name
  Blank,                      \* a line that is blank or only a comment
  None,                       \* no #include on a line
  NormalTrigger, TestTrigger  \* lines a function may have: 250, 400

\* The arguments name a list of files, and a file is read as a list of lines.
ASSUME ArgumentsAssumption ==
  /\ Blank \in Line
  /\ \A l \in Line : l.include \in Include \cup {None}
  /\ \A a \in Arguments :
       a.files \in Seq(Range(a.files)) /\ \A f \in Range(a.files) : f.lines \in Seq(Line)

VARIABLES
  pc,           \* "arguments", "between" files, "opened", "reading", "read", "done"
  todo,         \* the files that are left, the one being read first
  line_length,  \* _line_length
  flags,        \* history: the filters of the command line
  function      \* _FunctionState

driver == <<pc, todo, line_length, flags>>
vars == <<driver, function, nesting, line, includes, reports>>

NoFunction == [in_a_function |-> FALSE, lines_in_function |-> 0, test |-> FALSE]

-----------------------------------------------------------------------------
(***************************************************************************)
(* The text of a file.                                                     *)
(***************************************************************************)

\* After which lines a comment that a line opened is still open.
InComment(lines) ==
  LET open[i \in 0 .. Len(lines)] ==
        IF i = 0 THEN FALSE
        ELSE IF open[i - 1] THEN lines[i].comment # "closes" ELSE lines[i].comment = "opens"
  IN  open

\* The line that opens a comment nothing closes, 0 if there is none.
Unclosed(lines) ==
  IF ~InComment(lines)[Len(lines)] THEN 0
  ELSE Min({i \in 1 .. Len(lines) : \A j \in i .. Len(lines) : InComment(lines)[j]})

\* RemoveMultiLineComments: its lines are blank from here on, unless nothing
\* closes the comment.
Cleaned(lines) ==
  LET open == InComment(lines)
      last == IF Unclosed(lines) = 0 THEN Len(lines) ELSE Unclosed(lines) - 1
  IN  [i \in DOMAIN lines |->
         IF i <= last /\ (open[i] \/ open[i - 1]) THEN Blank ELSE lines[i]]

\* The first line with a guard's word, and the last #endif; 0 for none.
FirstOf(word, lines) ==
  LET at == {i \in DOMAIN lines : lines[i].word = word} IN IF at = {} THEN 0 ELSE Min(at)
LastEndif(lines) ==
  LET at == {i \in DOMAIN lines : lines[i].word = "#endif"} IN IF at = {} THEN 0 ELSE Max(at)

\* CheckForHeaderGuard: its errors, and the NOLINT comments it reads ahead of
\* the lines it reports.  The name after #ifndef, #define or in the comment of
\* the #endif is "right", "old" (one more underscore), "wrong", or, for a file
\* without // comments, "c": right, in the other sort of comment.
GuardChecked(lines) ==
  LET ifndef == FirstOf("#ifndef", lines)
      define == FirstOf("#define", lines)
      endif  == LastEndif(lines)
      slashes == \E i \in DOMAIN lines : "//" \in lines[i].has
      closing == IF endif = 0 \/ (lines[endif].guard = "c" /\ slashes) THEN "wrong"
                 ELSE IF lines[endif].guard = "c" THEN "right" ELSE lines[endif].guard
      Named(guard) == ErrorIf(guard # "right", "build/header_guard",
                              IF guard = "old" THEN 0 ELSE 5, "guard")
      read   == (IF lines[ifndef].guard = "right" THEN {} ELSE {ifndef}) \cup ({endif} \ {0})
      nothing == [errors |-> {}, supp |-> {}]
  IN  IF \E i \in DOMAIN lines : lines[i].nolint = [next |-> FALSE, category |-> "build/header_guard"]
        THEN nothing
      ELSE IF ifndef = 0 \/ define = 0 \/ lines[ifndef].guard # lines[define].guard
        THEN [nothing EXCEPT !.errors = At(0, ErrorIf(TRUE, "build/header_guard", 5, "none"))]
      ELSE [errors |-> At(ifndef, Named(lines[ifndef].guard)) \cup At(endif, Named(closing))
                       \cup UNION {At(i, NolintErrors(lines[i].nolint)) : i \in read},
            supp   |-> UNION {Suppressing(lines[i].nolint, i) : i \in read}]

\* What is reported before the first line is read: CheckForCopyright, which
\* looks at ten lines, and the end of a comment that is missing, reported on the
\* line after the one where the comment begins.
EarlyErrors(lines) ==
  At(0, ErrorIf(\A i \in DOMAIN lines : i <= 10 => ~lines[i].copyright,
                "legal/copyright", 5, "copyright"))
  \cup At(Unclosed(lines) + 1, ErrorIf(Unclosed(lines) # 0,
                                       "readability/multiline_comment", 5, "unclosed"))

\* What is reported after the last: CheckForBadCharacters, which sees what is
\* left of the lines, CheckForNewlineAtEOF and, for a file whose lines end in
\* two ways, each of the lines that end in CR.
LateErrors(f) ==
  LET returns == {i \in DOMAIN f.lines : "CR" \in f.lines[i].has}
  IN  UNION {At(i, ErrorIf("utf8" \in Cleaned(f.lines)[i].has, "readability/utf8", 5, "utf8")
                   \cup ErrorIf("nul" \in Cleaned(f.lines)[i].has, "readability/nul", 5, "nul")
                   \cup ErrorIf(i \in returns /\ returns # DOMAIN f.lines,
                                "whitespace/newline", 1, "CR")) : i \in DOMAIN f.lines}
      \cup At(Len(f.lines), ErrorIf(~f.newline, "whitespace/ending_newline", 5, "newline"))

\* CheckForIncludeWhatYouUse: the last line that uses each header a file needs.
Required(lines) ==
  LET Users(h) == {i \in DOMAIN lines : h \in lines[i].uses}
  IN  [h \in UNION {lines[i].uses : i \in DOMAIN lines} |-> Max(Users(h))]

-----------------------------------------------------------------------------
(***************************************************************************)
(* A run.                                                                  *)
(***************************************************************************)

Init ==
  /\ pc = "arguments" /\ todo = <<>> /\ flags = <<>> /\ line_length = 80
  /\ verbose_level = 1 /\ counting = "total"
  /\ filters = DefaultFilters /\ filters_backup = DefaultFilters
  /\ error_count = 0 /\ errors_by_category = <<>> /\ suppressions = {} /\ hidden = {}
  /\ NestingInit /\ line = 1 /\ IncludesInit /\ function = NoFunction

parsing == <<function, nesting, line, includes, suppressions, hidden>>

\* ParseArguments and the start of main.
ParseArguments(a) ==
  /\ a.files # <<>>
  /\ verbose_level' = a.verbose /\ counting' = a.counting
  /\ flags' = DefaultFilters \o a.filters /\ filters' = flags'
  /\ line_length' = a.line_length
  /\ error_count' = 0 /\ errors_by_category' = <<>>
  /\ pc' = "between" /\ todo' = a.files
  /\ UNCHANGED <<filters_backup, parsing>>

\* The options of the CPPLINT.cfg files, from the directory of a file upwards,
\* that ProcessConfigOverrides reads: one that excludes the file ends it at
\* once, "set noparent" at the end of its directory.
OptionsRead(config) ==
  LET ends == {i \in DOMAIN config :
                 \/ config[i].option = "exclude_files"
                 \/ /\ config[i].option = "up"
                    /\ \E j \in 1 .. i - 1 : config[j].option = "set noparent"}
  IN  IF ends = {} THEN config ELSE SubSeq(config, 1, Min(ends))

Excluded(f) == \E i \in DOMAIN OptionsRead(f.config) :
                 OptionsRead(f.config)[i].option = "exclude_files"

Values(option, config) ==
  LET chosen == SelectSeq(config, LAMBDA o : o.option = option)
  IN  [i \in DOMAIN chosen |-> chosen[i].value]

\* The filters of the outermost directory come first, so that those of inner
\* ones prevail.
ConfigFilters(f) == Reverse(Values("filter", OptionsRead(f.config)))

\* The last line length that is read, the outermost one, stays in force.
ConfigLineLength(f) ==
  LET lengths == Values("linelength", OptionsRead(f.config))
  IN  IF lengths = <<>> THEN line_length ELSE Last(lengths)

Valid(f) == ~Excluded(f) /\ f.readable /\ f.extension \in {"h", "cc"}

\* Mutant: a file that cannot be read leaves its filters behind.
SkipWithoutRestore ==
  /\ pc = "between" /\ todo # <<>> /\ ~Valid(Head(todo))
  /\ line_length' = ConfigLineLength(Head(todo))
  /\ filters_backup' = filters
  /\ filters' = IF Excluded(Head(todo)) \/ Head(todo).readable THEN filters
                ELSE filters \o ConfigFilters(Head(todo))
  /\ todo' = Tail(todo)
  /\ UNCHANGED <<pc, flags, verbose_level, counting, counts, parsing>>

\* ProcessFile of a file that is excluded, cannot be read or is no C++ file.
SkipFile ==
  /\ pc = "between" /\ todo # <<>> /\ ~Valid(Head(todo))
  /\ line_length' = ConfigLineLength(Head(todo))
  /\ filters_backup' = filters
  /\ todo' = Tail(todo)
  /\ UNCHANGED <<pc, flags, verbose_level, filters, counting, counts, parsing>>

\* ProcessFile up to the call of ProcessFileData.
OpenFile ==
  /\ pc = "between" /\ todo # <<>> /\ Valid(Head(todo))
  /\ line_length' = ConfigLineLength(Head(todo))
  /\ filters_backup' = filters /\ filters' = filters \o ConfigFilters(Head(todo))
  /\ pc' = "opened"
  /\ UNCHANGED <<todo, flags, verbose_level, counting, counts, parsing>>

-----------------------------------------------------------------------------
(***************************************************************************)
(* ProcessFileData.                                                        *)
(***************************************************************************)

Lines == Cleaned(Head(todo).lines)

\* Mutant: ResetNolintSuppressions is not called.
PrescanKeepingNolint ==
  LET guard == IF Head(todo).extension = "h" THEN GuardChecked(Lines)
               ELSE [errors |-> {}, supp |-> {}]
      early == EarlyErrors(Head(todo).lines)
      supp  == suppressions \cup guard.supp
  IN  /\ pc = "opened" /\ pc' = "reading"
      /\ Increment(Printed(early, suppressions) \cup Printed(guard.errors, supp))
      /\ suppressions' = supp
      /\ hidden' = Hides(early, suppressions) \cup Hides(guard.errors, supp)
      /\ UNCHANGED <<todo, line_length, flags, settings, function, nesting, line, includes>>

\* What is done before the first line.
Prescan ==
  LET guard == IF Head(todo).extension = "h" THEN GuardChecked(Lines)
               ELSE [errors |-> {}, supp |-> {}]
      early == EarlyErrors(Head(todo).lines)
  IN  /\ pc = "opened" /\ pc' = "reading"
      /\ Increment(Printed(early, {}) \cup Printed(guard.errors, guard.supp))
      /\ suppressions' = guard.supp
      /\ hidden' = Hides(guard.errors, guard.supp)
      /\ UNCHANGED <<todo, line_length, flags, settings, function, nesting, line, includes>>

\* CheckForFunctionLengths: a function begins, ends or has one more line.
FunctionAfter(l) ==
  IF l.function = "begins" THEN
    [in_a_function |-> TRUE, lines_in_function |-> 0, test |-> l.test]
  ELSE IF l.function = "ends" THEN [function EXCEPT !.in_a_function = FALSE]
  ELSE IF l.function = "body" /\ function.in_a_function THEN
    [function EXCEPT !.lines_in_function = @ + 1]
  ELSE function

\* _FunctionState.Check, which does not ask whether a function is open.
FunctionErrors(l) ==
  LET base == IF function.test THEN TestTrigger ELSE NormalTrigger
      size == function.lines_in_function
  IN  ErrorIf(l.function = "ends" /\ size > Trigger(base, verbose_level),
              "readability/fn_size", ErrorLevel(size, base), "size")
      \cup ErrorIf(l.function = "endless", "readability/fn_size", 5, "start")

\* CheckStyle: the lines that are too long, includes and guards apart.
WidthErrors(l) ==
  LET guard == Head(todo).extension = "h" /\ l.word # "none" /\ l.guard \in {"right", "old"}
  IN  ErrorIf(l.include = None /\ ~guard /\ l.width > line_length, "whitespace/line_length",
              IF 4 * l.width > 5 * line_length THEN 4 ELSE 2, "width")

\* CheckForMultilineCommentsAndStrings.
MultilineErrors(l) ==
  ErrorIf("/*" \in l.has, "readability/multiline_comment", 5, "complex")
  \cup ErrorIf("quote" \in l.has, "readability/multiline_string", 5, "string")

\* CheckForNamespaceIndentation: a class or a namespace that the line begins in
\* a namespace, or a class it declares there, is not to be indented.  Macros are
\* not "indented" here.
NewInNamespace ==
  /\ InNamespaceBody(stack) /\ Len(stack') = Len(stack) + 1
  /\ Top(stack').kind \in {"class", "namespace"}
IndentErrors(l) ==
  ErrorIf("indented" \in l.has /\ IF "forward" \in l.has THEN InNamespaceBody(stack')
                                                         ELSE NewInNamespace,
          "runtime/indentation_namespace", 4, "indent")

PreviousIsInclude == line > 1 /\ Lines[line - 1].include # None

\* CheckLanguage, as far as it keeps state.
CheckLanguage(l) ==
  IF l.include # None THEN CheckIncludeLine(l.include, line)
  ELSE IF l.directive # "none" THEN ResetSection(l.directive)
  ELSE UNCHANGED includes

\* ProcessLine.  In a block of assembly only the first three calls are made:
\* ParseNolintSuppressions, Update and CheckForNamespaceIndentation.
ProcessLine ==
  LET l == Lines[line]
      checked == ~InAsmBlock(stack')
      errors ==
        NolintErrors(l.nolint)
        \cup ErrorIf(BadEnd(Restored(l.directive), l.code, line), "readability/namespace", 5, "end")
        \cup IndentErrors(l)
        \cup IF ~checked THEN {}
             ELSE FunctionErrors(l) \cup MultilineErrors(l) \cup WidthErrors(l)
                  \cup IF l.include = None THEN {}
                       ELSE IncludeErrors(l.include, PreviousIsInclude)
  IN  /\ pc = "reading" /\ line <= Len(Lines)
      /\ suppressions' = suppressions \cup Suppressing(l.nolint, line)
      /\ Update(l) /\ line' = line + 1
      /\ IF checked THEN function' = FunctionAfter(l) /\ CheckLanguage(l)
                    ELSE UNCHANGED <<function, includes>>
      /\ Error(At(line, errors), suppressions')
      /\ UNCHANGED <<driver, settings>>

\* CheckCompletedBlocks, CheckForIncludeWhatYouUse, CheckHeaderFileIncluded and
\* the checks of the raw lines.
FinalErrors(f) ==
  LET required == Required(Lines)
      listed   == FlattenSeq(include_list)
  IN  {<<b.start, IF b.kind = "class" THEN "build/class" ELSE "build/namespaces", 5, "open">>
         : b \in Range(Incomplete(stack))}
      \cup {<<required[h], "build/include_what_you_use", 4, h>>
              : h \in MissingIncludes(DOMAIN required, f)}
      \cup At(IF listed = <<>> THEN 0 ELSE Head(listed)[2],
              ErrorIf(HeaderNotIncluded(f), "build/include", 5, "own header"))
      \cup LateErrors(f)

EndFileData ==
  /\ pc = "reading" /\ line > Len(Lines) /\ pc' = "read"
  /\ Error(FinalErrors(Head(todo)), suppressions)
  /\ UNCHANGED <<todo, line_length, flags, settings, function, nesting, line, includes,
                 suppressions>>

\* The end of ProcessFile; the objects of ProcessFileData are gone.
EndFile ==
  /\ pc = "read" /\ pc' = "between" /\ todo' = Tail(todo)
  /\ filters' = filters_backup /\ hidden' = {}
  /\ NewNesting /\ line' = 1 /\ NewIncludes /\ function' = NoFunction
  /\ UNCHANGED <<line_length, flags, verbose_level, filters_backup, counting, counts,
                 suppressions>>

Finish ==
  /\ pc = "between" /\ todo = <<>> /\ pc' = "done"
  /\ UNCHANGED <<todo, line_length, flags, reports, parsing>>

Next ==
  \/ pc = "arguments" /\ \E a \in Arguments : ParseArguments(a)
  \/ SkipFile \/ OpenFile \/ Prescan \/ ProcessLine \/ EndFileData \/ EndFile
  \/ Finish

Spec == Init /\ [][Next]_vars

-----------------------------------------------------------------------------
\* A file is checked with the filters of the command line and of its own
\* CPPLINT.cfg files only: whatever became of the files before it, theirs are
\* gone.
FiltersOfOneFile ==
  /\ pc = "between" => filters = flags
  /\ pc \in {"opened", "reading", "read"} => filters = flags \o ConfigFilters(Head(todo))

\* An error is hidden only by a NOLINT comment for its category, or for all, on
\* its line or, if that says so, on the line before, in the same file.
HiddenByItsLine ==
  \A h \in hidden : \E i \in DOMAIN Lines :
    \E p \in Suppressing(Lines[i].nolint, i) : p[2] = h[1] /\ p[1] \in {"all", h[2]}
=============================================================================
