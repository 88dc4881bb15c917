\* The same over two checkpoints.
SPECIFICATION Spec
CONSTANTS
    english = english
    multilingual = multilingual
    typed = typed
    Checkpoints = {english, multilingual}
    Unknown = Unknown
    Configs <- MCConfigs
    Cases <- MCCases
    Logit <- MCLogit
INVARIANTS PassIsOfTheNamed
