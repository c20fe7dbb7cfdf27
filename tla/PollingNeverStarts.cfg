SPECIFICATION FairSpec
CONSTANTS
    Msgs <- MCOneMsg
    MaxVer <- MCOneChange
    MaxTasks <- MCMaxTasks
    MaxFails <- MCOneFail
PROPERTY ChangesNoticed
