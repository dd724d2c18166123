SPECIFICATION Spec
CONSTANTS
    DeviceLists = {}
    FsaLists = {fsa}
    ControlLists = {derc}
    MaxEvents = 2
    MaxFaults = 1
PROPERTIES
    NoDeadSubscription
    ChangeObserved
CHECK_DEADLOCK FALSE
