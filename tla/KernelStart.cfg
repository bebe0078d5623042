SPECIFICATION KernelSpec
CONSTANTS
  EXCEPTIONS = {3, 15, 17}
  MAX_EVENTS = 2
  _VGA_WIDTH = 20
  _VGA_HEIGHT = 24
  FONT_WIDTH = 6
  FONT_HEIGHT = 8
  MESSAGE <- MCMessage
  PCI_BUS_COUNT = 2
  PCI_DEV_PER_BUS = 1
  PCI_FUNC_PER_DEV = 2
  MAX_DEVICES = 2
CHECK_DEADLOCK FALSE
INVARIANTS
  NoTornGate
  IrqsAreOff
  GlyphsAreWhole
  FatalIsSeen
  ScanFindsAll
PROPERTIES
  ResetOnlyWhileFilling
  KernelComesUp
