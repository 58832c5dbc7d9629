SPECIFICATION Spec
CONSTANTS
    MaxEvents = 4
    MaxCrash = 2
    Blobs = {"b"}
    PersistFails = FALSE
INVARIANTS LoggedBlobsAreStored
PROPERTIES ImplementsLog
CHECK_DEADLOCK FALSE
