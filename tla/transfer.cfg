\* Requests and responses that carry handles, moved and copied, single and in pairs.
SPECIFICATION Spec
CONSTANTS
    Process = {"apt", "app"}
    Service = "apt"
    BufferWords = 9
    CurrentProcess = 99
    MaxObjects = 3
    MaxCalls = 2
INVARIANTS TypeOK HandlesArrive
PROPERTY ReferencesKept
CHECK_DEADLOCK FALSE
