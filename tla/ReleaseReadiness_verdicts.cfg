SPECIFICATION ReleaseSpec
CONSTANTS
    Requests <- SomeRequests
    Inputs <- WhatIsFound
    MaxChanges = 1
INVARIANTS
    NeverShipsUnfit
    WorseNeverShips
CHECK_DEADLOCK FALSE
