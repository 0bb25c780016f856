SPECIFICATION Spec
CONSTANTS
    main = main
    session = session
    turn1 = turn1
    work1 = work1
    turn2 = turn2
    command = command
    NoCommand = NoCommand
    Lanes = {main, session}
    SessionLanes = {session}
    Commands = {turn1, work1, turn2, command}
    LaneOf <- MCLaneOf
    Outer <- MCOuter
    Limits = {1, 2}
    MaxGeneration = 1
    MaxPolls = 1
INVARIANTS
    NoStall
    ActiveIsRunning
    DrainedMeansSettled
PROPERTIES
    CommandsSettle
    RestartHappens
