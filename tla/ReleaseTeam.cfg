\* Two releasers at once, three trees of one version of which one has a README
\* that is out of date, and a registry that may not answer.
SPECIFICATION Spec
CONSTANTS
    t1 = t1
    t2 = t2
    t3 = t3
    t4 = t4
    v1 = v1
    v2 = v2
    Releasers = {alice, bob}
    Trees = {t1, t2, t4}
    Versions = {v1}
    VersionOf <- MCVersionOf
    Documents <- MCDocuments
    ReadmeOf <- MCReadmeOf
    Edits = FALSE
    Outages = TRUE
    None = None
SYMMETRY ReleaserSymmetry
INVARIANTS PublishedPassedEveryGate PublishedListsItsHeadings MakeTocMends
