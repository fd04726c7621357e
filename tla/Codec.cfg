INIT MCInit
NEXT MCNext
CONSTANTS
  Source <- MCSource
  Opcodes = {18, 35, 51, 115, 163, 235}
  Sizes = {2}
  Indicators = {0, 2, 5}
  Starts = {1}
  Letters = {8}
  MaxWindows = 2
  MaxInst = 3
  Capacity = 100
  MaxSection = 100
  Bytes64 = {0, 150, 255}
  Chars64 = {0, 22, 63, 64, 65, 66}
  MaxBytes = 5
  MaxChars = 5
CHECK_DEADLOCK FALSE
INVARIANTS DeltaDecodes UnfitRefused 
