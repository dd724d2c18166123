SPECIFICATION Spec
CONSTANT None = None
PROPERTIES
    TypesFixed
    ReportsArrive
    RepairedDeviceUsed
    PriceTold
    StopHeeded
CHECK_DEADLOCK FALSE
