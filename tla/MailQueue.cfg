SPECIFICATION FairSpec
CONSTANTS
    Users <- OneUser
    ClientIds <- News
    Receivers <- ToBoth
    MaxMessages = 3
    MaxEvents = 4
    Faults = {"crash", "database"}
INVARIANTS Mirror WakeAccounted NothingLost VoidNotSent
PROPERTY WorkProcessed
CHECK_DEADLOCK FALSE
