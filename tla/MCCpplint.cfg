SPECIFICATION Spec
CONSTANTS
  None = none
  Line <- MCLine
  Include <- MCInclude
  Category <- MCCategory
  TopLevel <- CategoryOf
  DefaultFilters <- MCDefaultFilters
  Arguments <- MCArguments
  Blank <- MCBlank
  LongNamespace = 2
  NormalTrigger = 1
  TestTrigger = 2
INVARIANTS
  OrderErrors
  FiltersOfOneFile
  HiddenByItsLine
PROPERTIES
  TrueBranchSpec
CHECK_DEADLOCK FALSE
