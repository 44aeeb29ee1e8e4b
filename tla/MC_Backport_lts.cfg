CONSTANTS
    None = None
    v20_1 = v20_1
    v20_2 = v20_2
    Release <- MCRelease
    Commits <- MCCommits
    MaxPRs = 2
    LabelKinds = {"pr-bugfix"}
    MaxLabels = 1
    MaxLtsPRs = 2
    Numbers = {0, 1, 2}
    Tils = {None, 0, 1, 2}
    LtsModes = {FALSE, TRUE}
    AssumeSorted = FALSE
    Entries = {"call"}

SPECIFICATION Spec

INVARIANT BugfixReachesOpenBranches
