SPECIFICATION Spec
CONSTANTS
    Users <- OneUser
    ClientIds <- News
    Receivers <- ToBoth
    MaxMessages = 4
    MaxEvents = 4
    Faults = {}
INVARIANT ConfirmationsKept
CHECK_DEADLOCK FALSE
