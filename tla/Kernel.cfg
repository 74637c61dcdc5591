CONSTANTS
    Tasks = {1, 2, 3}
    NumFuncs = 1
    MaxIrq = 3
SPECIFICATION Spec
INVARIANTS  WaiterWillWake NoStaleTimer
PROPERTIES ImplementsMutex WakeDelivered DeferredCalled
