SPECIFICATION Spec
CONSTANTS NTurns = 3 NResponses = 3 NPieces = 2
INVARIANTS TypeOK FinalOrOvertaken OldTextIsSilenced
CHECK_DEADLOCK FALSE
