SPECIFICATION FairSpec
CONSTANTS
    CrashLimit = 2
    ToolErrorMax = 2
    BootSession = 1
    MaxSends = 2
    MaxInjects = 1
    MaxResets = 1
    MaxSwitches = 1
    MaxCrashes = 2
    MaxDisturbed = 3
    MaxUnread = 2
INVARIANTS TypeOK OneOutcomePerTurn GateHolds
PROPERTIES PlannedExitsAreFree ImplementsChannel TurnIsClosed ProcessComesBack
CHECK_DEADLOCK FALSE
