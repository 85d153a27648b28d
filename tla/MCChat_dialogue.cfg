SPECIFICATION Spec
CONSTANTS
  ann = ann
  bob = bob
  Users = {ann, bob}
  Sorts = {"cancel", "topic", "short", "long"}
  Limit <- MCLimit
  Window = 1
  Ttl = 1
  Remembered = 2
  MaxTexts = 3
  MaxUpdates = 3
  MaxBoots = 2
  MaxTime = 1
SYMMETRY MCSymmetry
INVARIANTS TypeOK AnswersOpenQuestion TextTakenOnce
PROPERTIES DialogueKept
CHECK_DEADLOCK FALSE
