CONSTANTS
    Conns = {1, 2, 3}
    Streams = {"main"}
    Main = "main"
    MaxFaults = 2
    Venues = {"okx"}
SPECIFICATION Spec
PROPERTIES JoinReturns
CHECK_DEADLOCK FALSE
