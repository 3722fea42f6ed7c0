CONSTANTS
  Numerals <- MCNumerals
  IntMax = 31
  PortMax = 15
  Ephemeral <- MCEphemeral
  Words <- MCWords
  Command <- MCCommand
  Yes = {"yes"}
  No = {"no"}
  Names = {"a", "b"}
  OldFiles = {"a"}
  MaxWords = 5
SPECIFICATION Spec
INVARIANTS
  NoFileAfterEnd
  OverwriteIsConfirmed
  SameArgumentMeets
  EveryPortIsTaken
CHECK_DEADLOCK FALSE
