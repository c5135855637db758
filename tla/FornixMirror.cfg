SPECIFICATION Spec
CONSTANTS
    Files = {f1, f2}
    FileNames = {"a"}
    DirNames = {"d", "e"}
    FileRequests = {u1, u2}
    MaxArchivals = 1
    CommitsFail = FALSE
SYMMETRY Symmetry
INVARIANT MirrorMatches
CHECK_DEADLOCK FALSE
