SPECIFICATION Spec
CONSTANTS
    h1 = h1
    h2 = h2
    r1 = r1
    Humans = {h1, h2}
    Reminders = {r1}
    Private = {h2}
    Outcomes = {"clean", "heartbeat", "aborted", "api-error"}
    MaxHeartbeats = 1
    MaxSwitchFailures = 1
    MaxCrashes = 1
    MaxResets = 1
    MaxRestarts = 1
    MaxFaults = 2
INVARIANTS TypeOK HeldOnce HooksRunOnce ConsumedNotHeld
CHECK_DEADLOCK FALSE
