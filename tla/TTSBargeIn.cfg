SPECIFICATION Spec
CONSTANTS NSegs = 3 NConns = 2 NBargeIns = 1 NFaults = 0
INVARIANTS TypeOK DrainIsFed NoOrphanSocket OwnOrInterrupted
CHECK_DEADLOCK FALSE
