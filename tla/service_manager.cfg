\* Two providers, which may have the same name, and two apps.
SPECIFICATION FairSpec
CONSTANTS
    Process = {0, 1, 2, 3, 4}
    Srv = 0
    Provider = {1, 2}
    App = {3, 4}
    Name = {7, 8}
    Notification = {5}
    BufferWords = 6
    CurrentProcess = 99
    MaxCalls <- Calls
INVARIANTS TypeOK PanicsAreJustified NothingOverlooked NothingLeaks SessionsLead
PROPERTY SrvCallsReturn
CHECK_DEADLOCK FALSE
