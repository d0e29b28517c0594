\* Blocks of up to three sources and two redundant symbols, and set-up at every limit; up to
\* four options in any order; eleven segments in any order, the last beyond the window.
CONSTANTS
  Symbols = {0, 255}
  Ks = {0, 1, 2, 3, 127, 128, 129}
  Rs = {0, 1, 2, 31, 32, 33}
  MaxK = 3
  MaxR = 2
  RedXs <- MCRedXs
  MaxOptions = 4
  Lens <- MCLens
  FirstSeq = 1
  Width = 64
  Window = 12
  SacksAllowed = 4
SPECIFICATION MCSpec
INVARIANTS FieldArithmetic WalkFindsWhatWasPlaced SackExact 
PROPERTY AnyKSymbolsRecover
CHECK_DEADLOCK FALSE
