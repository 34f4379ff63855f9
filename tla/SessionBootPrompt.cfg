SPECIFICATION Spec
CONSTANTS NCancels = 0 Locales = {"en-US", "hi-IN"} None = None
INVARIANTS ContextKept
CHECK_DEADLOCK FALSE
