SPECIFICATION Spec
CONSTANTS
  cd = cd
  cart = cart
  NoRom = NoRom
  Roms <- TwoRoms
  SlotOf <- OneSlot
  IsCD <- Kinds
  Discs <- TwoDiscs
  FILES = 4
  MaxFrames = 3
PROPERTY SaveLeavesGameAlone
