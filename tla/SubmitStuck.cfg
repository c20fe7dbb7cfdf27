SPECIFICATION FairSpec
CONSTANTS
    MaxReqs = 2
    MaxTasks = 2
    MaxFails = 1
PROPERTY SubmitReleased
