SPECIFICATION Spec
CONSTANTS
    Files = {f1, f2}
    FileNames = {"a"}
    DirNames = {"d", "e"}
    FileRequests = {u1, u2}
    MaxArchivals = 1
    CommitsFail = TRUE
SYMMETRY Symmetry
INVARIANTS NeverLost FilesConsistent
CHECK_DEADLOCK FALSE
