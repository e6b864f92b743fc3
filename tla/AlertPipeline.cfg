SPECIFICATION Spec
CONSTANTS
    None = None
    Addresses = {"10.1", "10.2"}
    Pieces <- MCPieces
    Enabled <- Rules
    Minute = 2
    Similarity <- MCSimilarity
    Threshold = 9
    Raw <- MCRaw
    Fingerprints <- MCFingerprints
    Window = 1
    MaxTime = 1
    Calls = {c1, c2}
    Sources = {"kafka", "http", "file", "post"}
    Length = 3
    Shape <- MCShape
    Finger <- MCFinger
    Raises <- MCRaises
    BatchSize = 2
    MaxAttempts = 2
    Workers = 2
    MayCrash = TRUE
SYMMETRY Symmetry
INVARIANTS
    NoMessageSkipped
    SemanticGroupsAreChains
    NothingVanishes
    DropsAreCovered
    DuplicatesBounded
    NoGroupLost
