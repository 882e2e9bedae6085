SPECIFICATION FairSpec
CONSTANTS
    h1 = h1
    h2 = h2
    r1 = r1
    Humans = {h1, h2}
    Reminders = {r1}
    Private = {h2}
    Outcomes = {"clean", "silent", "heartbeat"}
    MaxHeartbeats = 1
    MaxSwitchFailures = 1
    MaxCrashes = 0
    MaxResets = 0
    MaxRestarts = 0
    MaxFaults = 1
PROPERTIES BufferDrains
CHECK_DEADLOCK FALSE
