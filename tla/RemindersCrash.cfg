SPECIFICATION Spec
CONSTANTS
    Committed = {}
    MaxSet = 1
    MaxFires = 1
    MaxFaults = 1
    MaxRestarts = 0
PROPERTIES CrashKeepsReminder
CHECK_DEADLOCK FALSE
