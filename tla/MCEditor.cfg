SPECIFICATION EditorSpec

CONSTANTS
    Bodies <- MCTexts
    TypedCharacters <- MCTyped
    Reference <- MCReference
    SearchQueries <- MCQueries
    MaxNotes = 2
    MaxOpened = 1
    MaxLines = 2
    MaxLength = 2
    MaxUndo = 1

INVARIANTS
    EditorTypeOK
    CleanMeansStored
    UndoReachesOpened

PROPERTIES
    OnlySearchStrays

CHECK_DEADLOCK FALSE
