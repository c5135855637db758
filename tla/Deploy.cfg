SPECIFICATION MCSpec
CONSTANTS
    Deploys = {d1, d2}
    Requests = {r1, r2}
    Ops = {"deploy", "restart", "start", "stop", "fail", "delete", "cancel"}
    Faults = {"gateway", "step", "scale", "kickoff", "crash"}
INVARIANTS
    CancellableWhileRunning
    StoppedMeansDownWhenCalm
PROPERTIES
    DeploySettlesWhenCalm
    RestartSettlesWhenCalm
CHECK_DEADLOCK FALSE
