SPECIFICATION Spec
CONSTANTS
  Lines <- FourLines
  Lists <- OneList
  TabOf <- OneTab
  VIEW_SIZE = 1
  MaxBoots = 2
  MaxFrames = 3
INVARIANTS TypeOK NoFrameForgotten NoPreviousGame
