SPECIFICATION Spec
CONSTANTS Calls = {c1, c2} NTurns = 3
INVARIANTS TypeOK SpanAccounted AnswerIsTrue OldCallsEnded
PROPERTIES CallsEnd
CHECK_DEADLOCK FALSE
