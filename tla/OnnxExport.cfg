\* Any sequence of runs of the two scripts over the three checkpoints.
SPECIFICATION FairSpec
CONSTANTS
    english = english
    multilingual = multilingual
    typed = typed
    Checkpoints = {english, typed, multilingual}
    Unknown = Unknown
    Configs <- MCConfigs
    Cases <- MCCases
    Logit <- MCLogit
INVARIANTS TypeOK ExportPassIsFaithful NoneIsHidden ParityPassIsFaithful GoodExportsPass
PROPERTIES ScriptsEnd
