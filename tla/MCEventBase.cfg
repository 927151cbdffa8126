SPECIFICATION Spec
CONSTANTS
    IoEvents = {read}
    TimerEvents = {timer}
    MaxRead = 2
PROPERTIES
    EndsOnlyWhenEmpty
CHECK_DEADLOCK FALSE
