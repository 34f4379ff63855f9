SPECIFICATION Spec
CONSTANTS NTurns = 3 NFrames = 6 Enough = 2
INVARIANTS TypeOK NothingLost StartBeforeAudio NothingHeldBack SarvamNeedsConfidence RoutedByItsTurn
CHECK_DEADLOCK FALSE
