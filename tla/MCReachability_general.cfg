CONSTANTS
    Inputs <- GeneralInputs
SPECIFICATION Spec
PROPERTY Termination
CHECK_DEADLOCK FALSE
