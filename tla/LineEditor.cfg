SPECIFICATION LineSpec
CONSTANTS
  a = a
  b = b
  blank = blank
  nul = nul
  Char = {a, b}
  Blank = blank
  Nul = nul
  Width = 4
  Keys <- UsualKeys
  MaxSent = 3
CHECK_DEADLOCK FALSE
INVARIANT LineTypeOK
PROPERTY ImplementsTextLine
