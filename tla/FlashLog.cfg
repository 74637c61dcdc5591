SPECIFICATION Spec
CONSTANTS
    Tasks = {t1, t2}
    Readers = {ap}
    Space = 12
    MinSize = 2
    Sizes = {3}
    Times = {3}
    MaxStamp = 4
    MaxUptime = 1
    MaxFailures = 1
  
PROPERTY NextEvent LockReleased
CHECK_DEADLOCK FALSE
