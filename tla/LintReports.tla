---------------------------- MODULE LintReports ----------------------------
(***************************************************************************)
(* Which errors cpplint.py prints and counts: _CppLintState, which lives   *)
(* as long as the process, and the NOLINT comments of the file that is     *)
(* being read.                                                             *)
(***************************************************************************)
EXTENDS Naturals, Sequences, FiniteSets, FiniteSetsExt

CONSTANTS
  Category,       \* the categories of errors
  TopLevel,       \* the part of a category before the slash
  DefaultFilters  \* _DEFAULT_FILTERS

\* A filter shows or hides the categories that begin with its text.
Filter == [show : BOOLEAN, covers : SUBSET Category]

ASSUME CategoryAssumption ==
  /\ "all" \notin Category /\ TopLevel \in [Category -> STRING]
  /\ DefaultFilters \in Seq(Filter)

VARIABLES
  verbose_level, filters, filters_backup, counting,  \* fields of _CppLintState
  error_count, errors_by_category,
  suppressions,  \* _error_suppressions: <<category or "all", line>>
  hidden         \* history: the <<line, category>> that NOLINT hid in this file

settings == <<verbose_level, filters, filters_backup, counting>>
counts   == <<error_count, errors_by_category>>
reports  == <<settings, counts, suppressions, hidden>>

Counting == {"total", "toplevel", "detailed"}

\* An error is <<line, category, confidence, reason>>.
At(n, errors) == {<<n, e[1], e[2], e[3]>> : e \in errors}
ErrorIf(condition, category, confidence, reason) ==
  IF condition THEN {<<category, confidence, reason>>} ELSE {}

-----------------------------------------------------------------------------
\* ParseNolintSuppressions: what a NOLINT comment on line n adds.  An unknown
\* category hides nothing and is an error.
Suppressing(nolint, n) ==
  LET where == IF nolint.next THEN n + 1 ELSE n
  IN  IF nolint.category \in Category \cup {"all"} THEN {<<nolint.category, where>>} ELSE {}

NolintErrors(nolint) ==
  ErrorIf(nolint.category = "unknown", "readability/nolint", 5, "category")

\* IsErrorSuppressedByNolint.
Suppressed(e, supp) == <<e[2], e[1]>> \in supp \/ <<"all", e[1]>> \in supp

\* The filters, of which the last that covers a category decides.
IsFiltered(category) ==
  LET covering == {i \in DOMAIN filters : category \in filters[i].covers}
  IN  covering # {} /\ ~filters[Max(covering)].show

\* _ShouldPrintError.
ShouldPrint(e, supp) ==
  ~Suppressed(e, supp) /\ e[3] >= verbose_level /\ ~IsFiltered(e[2])

\* IncrementErrorCount, for errors that are printed.
Increment(errors) ==
  LET Key(e) == IF counting = "detailed" THEN e[2] ELSE TopLevel[e[2]]
      new    == {Key(e) : e \in errors}
      Old(k) == IF k \in DOMAIN errors_by_category THEN errors_by_category[k] ELSE 0
  IN  /\ error_count' = error_count + Cardinality(errors)
      /\ errors_by_category' =
           IF counting = "total" THEN errors_by_category
           ELSE [k \in new \cup DOMAIN errors_by_category |->
                   Old(k) + Cardinality({e \in errors : Key(e) = k})]

\* Error, for all errors of a step, which finds the suppressions supp.
Printed(errors, supp) == {e \in errors : ShouldPrint(e, supp)}
Hides(errors, supp) == {<<e[1], e[2]>> : e \in {f \in errors : Suppressed(f, supp)}}
Error(errors, supp) ==
  Increment(Printed(errors, supp)) /\ hidden' = hidden \cup Hides(errors, supp)

-----------------------------------------------------------------------------
\* The numbers of _FunctionState.Check: the size a function may have, and how
\* sure the linter is of an error about it.
Trigger(base, verbose) == base * <<1, 2, 4, 8, 16, 32>>[verbose + 1]

\* int(math.log(lines / base, 2)) with the division of integers, 5 at most.
ErrorLevel(lines, base) ==
  LET q == lines \div base
  IN  IF q >= 32 THEN 5 ELSE IF q >= 16 THEN 4 ELSE IF q >= 8 THEN 3
      ELSE IF q >= 4 THEN 2 ELSE IF q >= 2 THEN 1 ELSE 0
=============================================================================
