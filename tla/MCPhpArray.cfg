SPECIFICATION Spec
CONSTANTS
  s = s
  nan = nan
  utf8 = utf8
  latin1 = latin1
  text = text
  buf = buf
  copy = copy
  copy8 = copy8
  arr = arr
  named = named
  obj = obj
  LongMax = 7
  IntMax = 1
  Double <- MCDouble
  Rounded <- MCRounded
  Odd <- MCOdd
  Str <- MCStr
  Text <- MCText
  Utf8 <- MCUtf8
  Unicode <- MCText
  Decode <- MCDecode
  Encode <- MCEncode
  Buffer <- MCBuffer
  Bytes <- MCBytes
  Made <- MCMade
  Array <- MCArray
  Named <- MCNamed
  Other <- MCOther
  Null = Null
  StrKey <- MCStrKey
  UsedKeys <- MCKeys
  UsedLengths <- MCLengths
  JsUses <- MCJsUses
  PhpUses <- MCPhpUses
  AsLong <- MCAsLong
  MaxElems = 3
  None = None
INVARIANTS
  KeysBelowLength
  CopiedBack
PROPERTIES
  PushSparesOld
  ArrayLikeSpec
CHECK_DEADLOCK FALSE
