CONSTANTS
    Scenarios <- MCScenarios
    MaxCandidates = 3
    Sizes = {2}
    yt_dlp_path = TRUE
    Fields <- MCFields
    Ranges <- MCRanges
    Config <- MCConfig
    Forms <- MCForms
    MaxUpdates = 0
    RangeHeaders <- MCRangeHeaders
    MaxLength = 4
    WORD = 16
SPECIFICATION Spec
CHECK_DEADLOCK FALSE
INVARIANTS
    ReadyUrlIsTheMedia
