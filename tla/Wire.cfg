CONSTANTS
  Base = 8
  LenBytes = 2
  DataBytes = 2
  PortBytes = 2
  MaxPayload = 4
  NameLens <- MCNameLens
  Sizes <- MCNumbers
  Ports <- MCNumbers
  Frame = 2
SPECIFICATION Spec
INVARIANTS
  MessagesArrive
  LengthIsWhole
  OnlyLongNamesRefused
CHECK_DEADLOCK FALSE
