SPECIFICATION Spec
CONSTANTS
    a = a
    b = b
    Chats = {a, b}
    MaxTurns = 3
    MaxCalls = 1
    MaxResets = 1
    MaxFaults = 2
INVARIANTS TypeOK TurnHasItsTools IdsStayHome PrivateCallsStayHome
  
CHECK_DEADLOCK FALSE
