CONSTANTS
    MaxFaults <- MCMaxFaults
    WasiSumListed = TRUE

SPECIFICATION FairSpec

PROPERTY GuestEventuallySucceeds
