CONSTANTS
    Answers <- MCAnswers
    Applicable <- MCApplicable
    Reports <- MCReports
    MAX_REDIRECTS = 1
    TRANSIENT_RETRIES = 2
    SOFT_BLOCK_BYTES = 4
    top_n = 1
    truncate_max = 2
    NoExtractor = NoExtractor
SPECIFICATION Spec
CHECK_DEADLOCK FALSE
INVARIANTS
    ProtectedNeverUsable
    RefusedNeverUsable
    ProbesBounded
PROPERTIES
    VerifiedOnce
    CutFromBelow
    Resolves
