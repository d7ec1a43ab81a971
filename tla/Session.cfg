SPECIFICATION LiveSpec
CONSTANTS
  r1 = r1
  r2 = r2
  NoRom = NoRom
  Broken = Broken
  Roms <- TwoRoms
  PadReports <- ManyReports
  KeyReports <- FewKeys
INVARIANTS TypeOK GameIsLoaded HotkeyIsMasked NothingSticks
PROPERTIES NoStaleEscape NoInstantBoot RequestsServed
