SPECIFICATION Spec
CONSTANTS
  LastLetter = 4
  MAX_ROMS = 4
  Libraries <- Cards
INVARIANTS TypeOK CursorOnList ScreenIsCurrent AlphabetIsDivided ListIsOfTab FavoritesOnDisk
