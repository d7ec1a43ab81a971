SPECIFICATION Spec
CONSTANTS
  r1 = r1
  r2 = r2
  NoRom = NoRom
  Broken = Broken
  Roms = {r1}
  PadReports <- OnePad
  KeyReports <- LiveKeys
PROPERTY SaveOnlyInGame
