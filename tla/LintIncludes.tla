---------------------------- MODULE LintIncludes ----------------------------
(***************************************************************************)
(* _IncludeState of cpplint.py: the order in which a file includes its     *)
(* headers, and which ones it has.  Directives of conditional code begin   *)
(* the order anew.                                                         *)
(***************************************************************************)
EXTENDS Naturals, Sequences, FiniteSets

CONSTANT Include  \* what may be included

\* An #include line: <> or "", one of _CPP_HEADERS, how its name relates to
\* the name of the file, the rank of its canonical name in the alphabet, and
\* what sort of header the rules make an exception for.
ASSUME IncludeAssumption ==
  \A i \in Include :
    /\ i.system \in BOOLEAN /\ i.cpp \in BOOLEAN
    /\ i.relation \in {"same", "first component", "none"}
    /\ i.rank \in Nat \ {0}
    /\ i.sort \in {"header", "bare header", "third party", "foreign .cc"}

VARIABLES
  section,       \* _section
  last_header,   \* _last_header: the rank of a canonical name, 0 for none
  include_list,  \* include_list: for each section, <<header, line>> pairs
  seen,          \* history: the types of the headers since the order began
  flagged        \* history: the positions in `seen` that were out of order

includes == <<section, last_header, include_list, seen, flagged>>

INITIAL == 0
MY_H    == 1
C       == 2
CPP     == 3
OTHER_H == 4

HeaderType == {"c", "cpp", "likely my", "possible my", "other"}

\* _ClassifyInclude.
ClassifyInclude(i) ==
  IF i.system THEN IF i.cpp THEN "cpp" ELSE "c"
  ELSE IF i.relation = "same" THEN "likely my"
  ELSE IF i.relation = "first component" THEN "possible my"
  ELSE "other"

\* ResetSection(''), with the list of a new file.
IncludesInit ==
  /\ section = INITIAL /\ last_header = 0 /\ include_list = << <<>> >>
  /\ seen = <<>> /\ flagged = {}

NewIncludes ==
  /\ section' = INITIAL /\ last_header' = 0 /\ include_list' = << <<>> >>
  /\ seen' = <<>> /\ flagged' = {}

\* ResetSection(directive): "we never pop from the include list".
ResetSection(directive) ==
  /\ section' = INITIAL /\ last_header' = 0
  /\ include_list' = CASE directive = "if"   -> Append(include_list, <<>>)
                       [] directive = "else" -> [include_list EXCEPT ![Len(include_list)] = <<>>]
                       [] OTHER              -> include_list
  /\ seen' = <<>> /\ flagged' = {}

\* FindHeader: the headers it finds.
Included ==
  UNION {{include_list[s][k][1] : k \in DOMAIN include_list[s]} : s \in DOMAIN include_list}

\* Mutant: the header of the file itself may always come back to its section.
NextSectionOfMine(type) ==
  IF type = "c" THEN (IF section <= C THEN C ELSE section)
  ELSE IF type = "cpp" THEN (IF section <= CPP THEN CPP ELSE section)
  ELSE IF type \in {"likely my", "possible my"} THEN MY_H
  ELSE OTHER_H

\* CheckNextIncludeOrder: the section after a header of the type, and whether
\* it is out of order.
NextSection(type) ==
  IF type = "c" THEN (IF section <= C THEN C ELSE section)
  ELSE IF type = "cpp" THEN (IF section <= CPP THEN CPP ELSE section)
  ELSE IF type \in {"likely my", "possible my"} /\ section <= MY_H THEN MY_H
  ELSE OTHER_H

OutOfOrder(type) == (type = "c" /\ section > C) \/ (type = "cpp" /\ section > CPP)

\* IsInAlphabeticalOrder, once the section is known: a header is compared with
\* the one before only if that is in its section, in order, on the line before.
OutOfAlphabet(i, previous_is_include) ==
  LET type == ClassifyInclude(i)
      last == IF OutOfOrder(type) \/ NextSection(type) # section THEN 0 ELSE last_header
  IN  last > i.rank /\ previous_is_include

Fresh(i) == i.name \notin Included /\ i.sort \in {"header", "bare header"}

\* CheckIncludeLine: what it records of the header on line n.
CheckIncludeLine(i, n) ==
  LET type == ClassifyInclude(i)
  IN  IF Fresh(i)
        THEN /\ include_list' =
                  [include_list EXCEPT ![Len(include_list)] = Append(@, <<i.name, n>>)]
             /\ section' = NextSection(type)
             /\ last_header' = i.rank
             /\ seen' = Append(seen, type)
             /\ flagged' = flagged \cup (IF OutOfOrder(type) THEN {Len(seen) + 1} ELSE {})
        ELSE UNCHANGED includes

\* CheckIncludeLine: the errors it reports, each with its category, confidence
\* and reason.
IncludeErrors(i, previous_is_include) ==
  LET Report(condition, category, what) ==
        IF condition THEN {<<category, 4, what>>} ELSE {}
  IN  Report(i.sort = "bare header", "build/include", "directory")
      \cup Report(i.name \in Included, "build/include", "duplicate")
      \cup Report(i.name \notin Included /\ i.sort = "foreign .cc", "build/include", ".cc")
      \cup Report(Fresh(i) /\ OutOfOrder(ClassifyInclude(i)), "build/include_order", "order")
      \cup Report(Fresh(i) /\ OutOfAlphabet(i, previous_is_include), "build/include_alpha", "alpha")

\* The headers that a file gets with its own, which UpdateIncludeState reads: of
\* FilesBelongToSameModule, only a .cc file has one.
IncludesItsHeader(file) == file.extension = "cc" /\ file.own_header \in Included
Reached(file) == Included \cup (IF IncludesItsHeader(file) THEN file.header_includes ELSE {})

\* CheckForIncludeWhatYouUse: the required headers that the file does not get.
\* A .cc file that does not include its header is not checked.
MissingIncludes(required, file) ==
  IF file.extension = "cc" /\ ~IncludesItsHeader(file) THEN {} ELSE required \ Reached(file)

\* CheckHeaderFileIncluded: a .cc file that is no test includes its header, if
\* there is one.
HeaderNotIncluded(file) ==
  file.extension = "cc" /\ ~file.test /\ file.own_header \notin {"none"} \cup Included

Includes ==
  /\ IncludesInit
  /\ [][\/ \E i \in Include, n \in Nat : CheckIncludeLine(i, n)
        \/ \E d \in {"if", "else", "endif"} : ResetSection(d)
        \/ NewIncludes]_includes

-----------------------------------------------------------------------------
Mine == {"likely my", "possible my"}

\* The order that CheckIncludeLine wants, by its comment: "1) for foo.cc, foo.h
\* (preferred location) 2) c system files 3) cpp system files 4) for foo.cc,
\* foo.h (deprecated location) 5) other google headers".  What may be the file's
\* own counts as that in the first place only.
Group(k) ==
  CASE seen[k] \in Mine /\ \A j \in 1 .. k - 1 : seen[j] \in Mine -> 1
    [] seen[k] = "c" -> 2
    [] seen[k] = "cpp" -> 3
    [] seen[k] = "likely my" /\ \E j \in 1 .. k - 1 : seen[j] \notin Mine -> 4
    [] OTHER -> 5

AfterHigher(k) == \E j \in 1 .. k - 1 : Group(j) > Group(k)

\* What the code does: a header of C or C++ is reported exactly when one of a
\* higher group came before it since the last directive, whatever was reported
\* in between, and no other header is.  The comment says more, "keeps track of
\* the highest type seen, and complains if we see a lower type after that": the
\* file's own header (4) after another (5) is not complained about.
OrderErrors ==
  flagged = {k \in DOMAIN seen : seen[k] \in {"c", "cpp"} /\ AfterHigher(k)}
=============================================================================
