SPECIFICATION LibrarySpec
CONSTANTS
  WORD = 256
  HALF = 16
  CHARS <- mcChars
  ARGUMENTS <- mcArguments
  LENGTHS = {0, 4}
  MAX_FIELD = 30
  INT_MIN <- mcIntMin
  STRINGS <- mcStrings
  MEMORY <- mcMemory
  NUMBERS <- mcNumbers
  BASES = {2, 8, 10, 16}
  TREES <- mcTrees
  NAMES <- mcNames
  MAX_DEPTH = 2
  VGA_WIDTH = 320
  VGA_HEIGHT = 200
  GLYPH_WIDTH = 6
  GLYPH_HEIGHT = 8
  GLYPH_BYTES = 1
  CHAR_COUNT = 256
  BITS = 8
  LINE_FEED = 10
  CARRIAGE_RETURN = 13
  BITMAPS <- mcBitmaps
  PLACES <- mcPlaces
  WIDTHS = {1, 6, 9}
  HEIGHT = 2
  TEXTS <- mcTexts
  HALF_EAX = 65536
  REGISTERS <- mcRegisters
  LAYOUTS <- mcLayouts
  KEYS <- mcKeys
  MAX_KEYS = 4
INVARIANTS
  FieldsAreRight
  NamesAreRight
  CallsAreRight
PROPERTY
  StopsAtTerminator
