CONSTANTS
    Scenarios <- MCScenarios
    MaxCandidates = 3
    Sizes = {2, 3}
    yt_dlp_path = TRUE
    Fields <- MCFields
    Ranges <- MCRanges
    Config <- MCConfig
    Forms <- MCForms
    MaxUpdates = 1
    RangeHeaders <- MCRangeHeaders
    MaxLength = 4
    WORD = 16
SPECIFICATION FairSpec
CHECK_DEADLOCK FALSE
INVARIANTS
    TriedAsAllowed
    ChosenFirst
    PromisedIsWhole
    GivesUpOnlyWithout
    SlideshowIsWhole
    SoundIsKept
    RangeIsExact
PROPERTIES
    DispatchEnds
