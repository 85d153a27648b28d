SPECIFICATION FairSpec
CONSTANTS
  StateBases = {"access", "reminders"}
  DataBases = {"memory"}
  Access = "access"
  Selections <- MCSelections
  Versions = {1, 2, 3}
  NoUnit = 0
  MaxCommands = 3
  MaxEdits = 2
  MaxFaults = 1
  MaxTime = 1
PROPERTIES RollbackUndoes NothingLost StaysStartable RetriedUntilItRuns
CHECK_DEADLOCK FALSE
