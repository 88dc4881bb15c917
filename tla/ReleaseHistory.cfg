\* Two releasers at once, who edit what they release, two trees of one version
\* and one of another, and a registry that may not answer.
SPECIFICATION HistorySpec
CONSTANTS
    t1 = t1
    t2 = t2
    t3 = t3
    t4 = t4
    v1 = v1
    v2 = v2
    Releasers = {alice, bob}
    Trees = {t1, t3}
    Versions = {v1, v2}
    VersionOf <- MCVersionOf
    Documents <- MCDocuments
    ReadmeOf <- MCReadmeOf
    Edits = TRUE
    Outages = TRUE
    None = None
SYMMETRY ReleaserSymmetry
INVARIANTS LatestWasPublished
PROPERTIES OverwritesAreExplained
VIEW Seen
