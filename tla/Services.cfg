SPECIFICATION Spec
CONSTANTS
    c1 = c1
    c2 = c2
    m = m
    k = k
    Memories = {m}
    Skills = {k}
    Hidden = {}
    Calls = {c1, c2}
    MaxEntries = 3
    MaxRestarts = 1
    MaxSeconds = 1
    Tasks = {c1, c2}
    MaxLaunches = 2
    MaxContexts = 3
    MaxFaults = 1
    Chats = {c1, c2}
    MaxMessages = 3
    SharedTools = {"memory_read"}
    PrivateTools = {"orders"}
    BothTools = {"telegram_reply_to_message"}
    Added = {"orders"}
    Servers = {"github"}
    MaxEdits = 1
    MaxSpawns = 3
    ToolCalls = {c1, c2}
    Emojis = {"up", "down"}
    MaxSent = 2
    MaxChanges = 2
    MaxDeaths = 1
SYMMETRY Symmetry
INVARIANTS
    TypeOK
    ContentKept
    ChromiumIsOwned
    IndicatorFollowsTurns
    ProfilesAgree
    RowsFollowTelegram
CHECK_DEADLOCK FALSE
