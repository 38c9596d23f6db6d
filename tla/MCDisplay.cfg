SPECIFICATION Spec
CONSTANTS
  fb_width = 29
  fb_height = 25
  BufferSize = 3
  Nibbles = 2
  Numbers <- MCNumbers
  Messages <- MCMessages
  CharBound = 6
  IrqBound = 2
INVARIANTS
  TypeOK
  CursorHeals
  GlyphsApart
  NumbersDenote
CHECK_DEADLOCK FALSE
