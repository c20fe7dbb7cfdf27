SPECIFICATION Spec
CONSTANTS
    Msgs <- MCOneMsg
    MaxVer <- MCOneChange
    MaxTasks <- MCMaxTasks
    MaxFails <- MCOneFail
INVARIANT TypeChoicesPersist
