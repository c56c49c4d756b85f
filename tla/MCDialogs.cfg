CONSTANTS
    none = none
    None = none
    Forms <- MCForms
    MaxCalls = 2
    MaxDrafts = 3
    MaxOthers = 1
SPECIFICATION Spec
INVARIANTS DraftAcceptedOnce SavesUndoNothingShown
PROPERTIES ResultStaysOnScreen 
CHECK_DEADLOCK FALSE
