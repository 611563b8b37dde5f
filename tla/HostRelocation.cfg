SPECIFICATION Spec
CONSTANTS
  Files <- MCFiles
  Bases <- MCBases
  Externals <- MCExternals
CHECK_DEADLOCK FALSE
INVARIANTS TypeOK SameLoadedImage KeepsWhatDeviceNeeds
PROPERTY SecondRunChangesNothing
