SPECIFICATION Spec
CONSTANTS
  Conversations = {c1}
  Days <- ShortMonths
  Configs = {0, 31}
  MaxMessages = 2
  MaxEdits = 1
  None = None
INVARIANTS
  RowsApart
  LinksJustified
PROPERTIES
  RowsCurrent
CHECK_DEADLOCK FALSE
