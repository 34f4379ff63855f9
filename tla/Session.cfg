SPECIFICATION SessionSpec
CONSTANTS None = None Requests = {r1, r2} ClientIds = {"voice_1"} Watched = r1
  Locales = {"en-US"}
INVARIANTS Coupled SessionsAreReported ClientsAreClosed
PROPERTIES GraceEndsOldWorker ShutdownTerminates
CHECK_DEADLOCK FALSE
