\* One releaser; a registry that may not answer.
SPECIFICATION Spec
CONSTANTS
    t1 = t1
    t2 = t2
    t3 = t3
    t4 = t4
    v1 = v1
    v2 = v2
    Releasers = {alice}
    Trees = {t1, t2, t3}
    Versions = {v1, v2}
    VersionOf <- MCVersionOf
    Documents <- MCDocuments
    ReadmeOf <- MCReadmeOf
    Edits = FALSE
    Outages = TRUE
    None = None
PROPERTIES NeverOverwritten
