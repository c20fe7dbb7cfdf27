SPECIFICATION Unattended
CONSTANTS
    Msgs <- MCOneMsg
    MaxVer <- MCOneChange
    MaxTasks <- MCMaxTasks
    MaxFails = 0
PROPERTY EventuallyFresh
