SPECIFICATION Spec
CONSTANTS NSegs = 2 NConns = 1 NBargeIns = 1 NFaults = 1
PROPERTIES EveryCallEnds ShutdownEnds ImplementsSpeech
CHECK_DEADLOCK FALSE
