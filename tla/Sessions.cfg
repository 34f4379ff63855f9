SPECIFICATION Spec
CONSTANTS None = None Requests = {r1, r2, r3} ClientIds = {"voice_1"}
INVARIANTS TypeOK RegistrySound LiveIsRegistered ShutdownLeavesNothing GraceSparesOthers
CHECK_DEADLOCK FALSE
