SPECIFICATION Spec
CONSTANTS
  MaxShort = 32767
  Texts <- SomeTexts
  Buffers = {1, 3}
  FieldRecords = {2}
  MaxRecords = 2
  MaxNumbers = 4
INVARIANTS DiagTypeOK WalkReachesAll WalkEnds PartsApart WholeText OutIsPrefix
