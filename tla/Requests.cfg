SPECIFICATION Spec
CONSTANTS
  Sizes <- MCSizes
  Texts <- MCTexts
  VersionSize = 9
  MaxItems = 3
INVARIANTS
  TypeOK
  BufferRespected
  InformationFits
  OnlyClientOpens
