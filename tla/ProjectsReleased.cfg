SPECIFICATION Spec
CONSTANTS
    Names = {shop}
    Ports = {1, 2}
    Slots = {slot1}
    MaxBegun = 3
    MaxMishaps = 1
PROPERTIES
    ReleasedDataIsKept
CHECK_DEADLOCK FALSE
