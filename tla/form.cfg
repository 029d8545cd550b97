CONSTANTS
  Definitions <- Types
  MaxEdits = 2
SPECIFICATION FormSpec
INVARIANTS SavedIsAccepted RequiredIsShown
PROPERTIES ReopenShowsSaved
