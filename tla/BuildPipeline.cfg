CONSTANTS
    MaxFaults <- MCMaxFaults
    WasiSumListed = TRUE

SPECIFICATION Spec

INVARIANT TypeOK
INVARIANT ToolchainNeverPartial
INVARIANT NoTaintedBuild
INVARIANT SuccessImpliesSound
INVARIANT DriverNeverRefused

PROPERTY CacheRefinement
