SPECIFICATION FairSpec
CONSTANTS
    Msgs <- MCOneMsg
    MaxVer <- MCOneChange
    MaxTasks <- MCMaxTasks
    MaxFails <- MCOneFail
INVARIANT TypeOK TypeChoicesWhileReliable
PROPERTY ChangesNoticedWhileReliable
