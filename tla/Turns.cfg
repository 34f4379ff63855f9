SPECIFICATION Spec
CONSTANTS NTurns = 3 NResponses = 1 NPieces = 1
INVARIANTS TypeOK OldTurnsSettled
CHECK_DEADLOCK FALSE
