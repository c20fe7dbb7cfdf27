SPECIFICATION Spec
CONSTANTS
    MaxReqs = 2
    MaxTasks = 2
    MaxFails = 0
PROPERTY AutoSelectsOnlyOpen
