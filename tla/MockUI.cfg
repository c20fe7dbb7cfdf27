SPECIFICATION FairSpec
CONSTANTS
    MaxReqs = 3
    MaxTasks = 2
    MaxFails = 1
INVARIANT TypeOK SubmitFlagWhileReliable SingleSend
PROPERTY SubmitReleasedWhileReliable SettlesOnOpen
