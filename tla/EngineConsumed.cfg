SPECIFICATION Spec
CONSTANTS
    h1 = h1
    h2 = h2
    Humans = {h1, h2}
    Reminders = {}
    Private = {h1, h2}
    Outcomes = {"clean"}
    MaxHeartbeats = 1
    MaxSwitchFailures = 0
    MaxCrashes = 0
    MaxResets = 0
    MaxRestarts = 0
    MaxFaults = 0
INVARIANTS ConsumedWasDelivered
CHECK_DEADLOCK FALSE
