SPECIFICATION Spec
CONSTANTS
    CrashLimit = 2
    ToolErrorMax = 2
    BootSession = 0
    MaxSends = 1
    MaxInjects = 0
    MaxResets = 0
    MaxSwitches = 0
    MaxCrashes = 1
    MaxDisturbed = 3
    MaxUnread = 2
PROPERTIES CrashKeepsConversation
CHECK_DEADLOCK FALSE
