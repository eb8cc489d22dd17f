SPECIFICATION Spec
CONSTANTS
    Ids = {f}
    IndexLimit = 1
PROPERTIES
    MinedIsConfirmed
CHECK_DEADLOCK FALSE
