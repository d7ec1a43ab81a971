SPECIFICATION LiveSpec
CONSTANTS
  Lines = {8}
  Lists <- TwoLists
  TabOf <- TwoTabs
  VIEW_SIZE = 3
  MaxBoots = 1
  MaxFrames = 1
INVARIANTS MenuIsShown CursorIsVisible
PROPERTY MenuIsRedrawn
