SPECIFICATION Spec
CONSTANTS NTurns = 2 NResponses = 2 NPieces = 2
INVARIANTS FinalIsResponse
CHECK_DEADLOCK FALSE
