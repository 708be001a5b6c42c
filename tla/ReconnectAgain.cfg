\* The options of ReconnectTest: one connection, one break.
CONSTANTS
    Options <- AsTested
    MaxConnects = 1
SPECIFICATION FairSpec
CHECK_DEADLOCK FALSE
PROPERTY OnConnectedAgain
