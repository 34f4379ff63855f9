SPECIFICATION Spec
CONSTANTS Home = "iad" NBargeIns = 3 NResponses = 4 None = None
INVARIANTS TypeOK SenderDies
PROPERTIES ImplementsHandover SenderReturns
CHECK_DEADLOCK FALSE
