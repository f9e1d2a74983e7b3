CONSTANTS
  Targets = {"a", "b"}
  Serial = TRUE
  MaxSessions = 3
  MaxCommands = 3
  MaxPicks = 1
  Keys = {k, l}
  Values = {v}
  MaxTyped = 3
  MaxOpens = 2
  MaxInputs = 4
SPECIFICATION MCSpec
INVARIANTS
  SourcesAccounted PreviewIsRecord
  RecordIsTyped PlayerIsRecord NothingInherited
PROPERTIES
  RecordedAsSeen OpensSettle AuthorityMovesForward
  EditsSettle
CHECK_DEADLOCK FALSE
