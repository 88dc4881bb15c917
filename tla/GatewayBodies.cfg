\* With a key configured; bodies of up to three frames against a limit of two.
SPECIFICATION FairSpec
CONSTANTS
    AuthEnabled = TRUE
    Limit = 2
    Inputs <- MCInputs
    Absent = Absent
INVARIANTS TypeOK BodyHiddenFromStrangers OutputCapped OnlyUsableIsParsed
PROPERTIES UsableIsNotRefused DecodingEnds
CHECK_DEADLOCK FALSE
