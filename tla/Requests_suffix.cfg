SPECIFICATION FairSpec
CONSTANTS
  Sizes = {16}
  Texts <- MCTexts
  VersionSize = 9
  MaxItems = 1
PROPERTIES
  EveryRequestAnswered
