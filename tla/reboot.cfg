SPECIFICATION FairSpec
CONSTANTS
    minDrainTime = 1
    issuanceTimeout = 1
    observationWindow = 1
    gracePeriod = 1
    toleration = 1
    rebootsBeforeReplacement = 1
    Scenarios <- Reboots
INVARIANT OneOperationPerRequest
PROPERTY RebootEnds
PROPERTY PodsSpared
