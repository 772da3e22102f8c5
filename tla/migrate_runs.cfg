CONSTANTS
    Runners = {a, b}
    Latest = 3
    Rerunnable = {3}
    NoRunner = NoRunner
    MaxRuns = 4
    MaxLost = 1
SPECIFICATION Spec
SYMMETRY MCSymmetry
INVARIANTS InOrder RecordFollowsRun NeverRunTwice
PROPERTIES DeploymentSpec
