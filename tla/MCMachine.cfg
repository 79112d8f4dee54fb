SPECIFICATION Spec
CONSTANTS
    Programs = {a, b}
    Keys = {k1, k2, k3}
    NoKey = NoKey
    Devices = {d1, d2}
SYMMETRY Symmetry
INVARIANTS
    RunsWithItsOwnCertificate
    OnlyFirstStartsTear
    CurrentListsAreTheFile
PROPERTY
    EntriesAreLostOnlyToStaleWriters
