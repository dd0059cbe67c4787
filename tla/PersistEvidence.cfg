\* Three processes write to one path; the power fails up to twice.
SPECIFICATION Spec
CONSTANTS
    w1 = w1  w2 = w2  w3 = w3
    Writers <- ThreeWriters
    MaxFailures = 2
SYMMETRY WriterSymmetry
INVARIANTS
    EvidenceComplete
    OkMeansDurable
PROPERTIES
    NeverReplaced
