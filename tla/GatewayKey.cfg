\* With a key configured.
SPECIFICATION Spec
CONSTANTS
    AuthEnabled = TRUE
    Limit = 2
    Inputs <- MCInputs
    Absent = Absent
INVARIANTS WrongKeyGets401
CHECK_DEADLOCK FALSE
