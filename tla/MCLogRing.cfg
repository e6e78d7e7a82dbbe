SPECIFICATION TextSpec
CONSTANTS
  kLines = 3
  MaxStored = 7
  kLineLen = 4
  MaxText = 5
  Escape = Escape
  EscapeEnd = EscapeEnd
  LineEnd = LineEnd
  Letter = Letter
INVARIANTS
  TypeOK
  RenderInOrder
  RenderPlaced
  TextKept
PROPERTIES
  RingIsTail
