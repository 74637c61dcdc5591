CONSTANTS
    ShortCount = 1
    LongCount = 2
    ShortMin = 1
    ShortMax = 2
    LongMin = 1
    LongMax = 3
    SetCaps = {"OpenNoLongPP"}
    MaxTries = 1
    MaxCommands = 2
    MaxEvents = 1
SPECIFICATION Spec
INVARIANTS CallbackAfterPresses DetectionWillEnd
     
    
 
CHECK_DEADLOCK FALSE
