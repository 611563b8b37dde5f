SPECIFICATION Spec
CONSTANTS
  PHYS_PAGE = 2
  PHYS_BLOCK = 4
  PHYS_ADDR = 4
  PHYS_SIZE = 8
  FlashSize = 16
INVARIANTS TypeOK Transferred
PROPERTY Confined
