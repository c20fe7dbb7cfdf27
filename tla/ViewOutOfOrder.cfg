SPECIFICATION Spec
CONSTANTS
    Msgs <- MCTwoMsgs
    MaxVer <- MCOneChange
    MaxTasks <- MCMaxTasks
    MaxFails = 0
INVARIANT ViewMatchesSelection
