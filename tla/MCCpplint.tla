----------------------------- MODULE MCCpplint -----------------------------
(***************************************************************************)
(* Instances of Cpplint: every file of five lines of blocks and            *)
(* directives, every file of four includes and directives, and pairs of    *)
(* short files that use the rest.                                          *)
(***************************************************************************)
EXTENDS Cpplint

CategoryOf ==
  [c \in {"build/include", "build/include_order", "build/include_alpha",
          "build/include_what_you_use", "build/header_guard", "build/class",
          "build/namespaces"} |-> "build"]
  @@ [c \in {"readability/nolint", "readability/fn_size", "readability/namespace",
             "readability/multiline_comment", "readability/multiline_string",
             "readability/utf8", "readability/nul"} |-> "readability"]
  @@ [c \in {"whitespace/line_length", "whitespace/newline", "whitespace/ending_newline"}
        |-> "whitespace"]
  @@ ("runtime/indentation_namespace" :> "runtime")
  @@ ("legal/copyright" :> "legal")
MCCategory == DOMAIN CategoryOf

Hide(s) == [show |-> FALSE, covers |-> s]
Show(s) == [show |-> TRUE, covers |-> s]
MCDefaultFilters == <<Hide({"build/include_alpha"})>>

Plain == [paren |-> 0, asm |-> FALSE, namespace |-> "no", class |-> FALSE,
          tokens |-> <<"none", "none">>, comment |-> "none"]
MCBlank ==
  [directive |-> "none", code |-> Plain, include |-> None,
   nolint |-> [next |-> FALSE, category |-> "none"], function |-> "blank", test |-> FALSE,
   uses |-> {}, width |-> 0, comment |-> "none", word |-> "none", guard |-> "none",
   has |-> {}, copyright |-> FALSE]

Directive(d) == [MCBlank EXCEPT !.directive = d]
Braces(t) == [MCBlank EXCEPT !.code.tokens = t]
ClassHead == [MCBlank EXCEPT !.code.class = TRUE]
NamespaceHead == [MCBlank EXCEPT !.code.namespace = "open", !.has = {"indented"}]
Directives == {Directive(d) : d \in {"if", "else", "endif"}}

BlockLine ==
  Directives \cup {ClassHead, Braces(<<"{", "none">>), Braces(<<"}", ";">>)}

Header(name, system, cpp, relation, rank, sort) ==
  [MCBlank EXCEPT !.include = [name |-> name, system |-> system, cpp |-> cpp,
     relation |-> relation, rank |-> rank, sort |-> sort]]
IncludeLine ==
  Directives \cup
  {Header("own", FALSE, FALSE, "same", 3, "header"),
   Header("stdio", TRUE, FALSE, "none", 2, "header"),
   Header("string", TRUE, TRUE, "none", 1, "header"),
   Header("own2", FALSE, FALSE, "first component", 2, "bare header"),
   Header("other", FALSE, FALSE, "none", 1, "header")}
RareInclude ==
  {Header("v8", FALSE, FALSE, "none", 4, "third party"),
   Header("x", FALSE, FALSE, "none", 5, "foreign .cc")}

Nolint(next, category) == [next |-> next, category |-> category]
Guard(word, guard, nolint) ==
  [MCBlank EXCEPT !.word = word, !.guard = guard, !.nolint = nolint,
     !.directive = CASE word = "#ifndef" -> "if" [] word = "#endif" -> "endif" [] OTHER -> "none"]
GuardLine ==
  {Guard("#ifndef", "right", Nolint(FALSE, "none")), Guard("#ifndef", "wrong", Nolint(FALSE, "all")),
   Guard("#ifndef", "old", Nolint(FALSE, "unknown")), Guard("#define", "right", Nolint(FALSE, "none")),
   Guard("#define", "wrong", Nolint(FALSE, "none")), Guard("#endif", "c", Nolint(FALSE, "none")),
   Guard("#endif", "wrong", Nolint(FALSE, "build/header_guard"))}

Function(f) == [MCBlank EXCEPT !.function = f]
OtherLine ==
  {Function("begins"), Function("body"), Function("ends"), NamespaceHead,
   [Function("ends") EXCEPT !.nolint = Nolint(FALSE, "all"), !.code.tokens = <<"}", "none">>],
   [Function("endless") EXCEPT !.nolint = Nolint(TRUE, "all"), !.has = {"//"}],
   [Function("body") EXCEPT !.code.paren = 1, !.code.asm = TRUE, !.uses = {"string", "vector"}, !.has = {"/*"}],
   Header("own", FALSE, FALSE, "same", 3, "header"),
   [Function("body") EXCEPT !.code.paren = -1, !.nolint = Nolint(FALSE, "unknown"), !.width = 3,
      !.has = {"indented", "forward"}],
   [Function("body") EXCEPT !.code.tokens = <<"asm {", "none">>, !.has = {"quote", "CR"}, !.width = 4],
   [Braces(<<"extern {", "none">>) EXCEPT !.copyright = TRUE, !.has = {"utf8", "nul"}],
   [Braces(<<"}", "none">>) EXCEPT !.code.comment = "wrong", !.nolint = Nolint(FALSE, "readability/namespace")],
   [MCBlank EXCEPT !.comment = "opens"], [MCBlank EXCEPT !.comment = "closes"]}

NolintNext == [MCBlank EXCEPT !.nolint = Nolint(TRUE, "all")]
TestBegins == [Function("begins") EXCEPT !.test = TRUE]
OddLine == RareInclude \cup {MCBlank, Function("endless"), NolintNext, TestBegins}

MCLine == BlockLine \cup IncludeLine \cup GuardLine \cup OtherLine \cup OddLine
MCInclude == {l.include : l \in {k \in MCLine : k.include # None}}

SourceFile(lines, extension) ==
  [lines |-> lines, extension |-> extension, config |-> <<>>, readable |-> TRUE,
   newline |-> TRUE, test |-> FALSE, own_header |-> "own",
   header_includes |-> {"string"}]

Of(lines, n) == [1 .. n -> lines]
BlockFile == {SourceFile(s, "h") : s \in Of(BlockLine, 5)}
IncludeFile == {SourceFile(s, "cc") : s \in Of(IncludeLine, 4)}
ShortFile == {SourceFile(s, "cc") : s \in Of(OtherLine, 3)}
GuardFile == {SourceFile(s, "h") : s \in Of(GuardLine \cup {MCBlank}, 3)}

Option(o, v) == [option |-> o, value |-> v]
HideBuild == Hide({c \in MCCategory : CategoryOf[c] = "build"})
LongFunction(begins) ==
  <<begins, Function("body"), Function("body"), Function("body"), Function("ends"),
    Function("ends")>>
OddFile ==
  LET base == SourceFile(<<CHOOSE l \in RareInclude : TRUE, Function("ends")>>, "cc")
  IN  {base,
       [base EXCEPT !.lines = <<NolintNext>>],
       [base EXCEPT !.lines = <<MCBlank, Function("endless")>>],
       [base EXCEPT !.lines = LongFunction(Function("begins"))],
       [base EXCEPT !.lines = LongFunction(TestBegins)],
       [base EXCEPT !.lines = SetToSeq(RareInclude \cup {MCBlank}), !.own_header = "none"],
       [base EXCEPT !.test = TRUE, !.newline = FALSE],
       [base EXCEPT !.readable = FALSE,
          !.config = <<Option("filter", HideBuild), Option("linelength", 3)>>],
       [base EXCEPT !.config =
          <<Option("filter", Show({"build/include"})), Option("up", 0), Option("filter", HideBuild),
            Option("linelength", 4), Option("set noparent", 0), Option("up", 0),
            Option("linelength", 1)>>],
       [base EXCEPT !.config = <<Option("linelength", 4), Option("exclude_files", 0)>>],
       [base EXCEPT !.extension = "txt"]}

Given(files, verbose, style, fs) ==
  [files |-> files, verbose |-> verbose, counting |-> style, filters |-> fs, line_length |-> 2]

BlockRun   == {Given(<<f>>, 1, "total", <<>>) : f \in BlockFile}
IncludeRun == {Given(<<f>>, 1, "total", <<>>) : f \in IncludeFile}
ShortRun   == {Given(<<f>>, 0, "detailed", <<Hide({"legal/copyright"})>>) : f \in ShortFile}
GuardRun   == {Given(<<f>>, 1, "toplevel", <<>>) : f \in GuardFile}
OddRun     == {Given(<<f, g, f>>, 0, "detailed", <<>>) : f, g \in OddFile}

MCArguments == BlockRun \cup (IncludeRun \cup (ShortRun \cup (GuardRun \cup OddRun)))
=============================================================================
