CONSTANTS
    MaxFaults <- MCMaxFaults
    WasiSumListed = TRUE

SPECIFICATION Spec

INVARIANT CacheKeyNeverPartial
