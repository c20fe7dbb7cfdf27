CONSTANTS
    MaxFaults <- MCMaxFaults
    WasiSumListed = FALSE

SPECIFICATION Spec

INVARIANT NoTaintedBuild
