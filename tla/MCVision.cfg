\* The parts that look at pictures, each on its own.
CONSTANTS
    Files <- MCFiles
    MaxBuf = 20
    Pictures <- MCPictures
    MaxLevel = 2
    Proposed <- MCProposed
    Reviewed <- MCReviewed
    Decided <- MCDecided
    MaxFound = 2
    UserId = {"u1", "u2", "u3"}
    Faces <- MCFaces
    Thresholds = {300, 562, 1000}
    Digits = 2
SPECIFICATION Spec
INVARIANTS
    ExtractAgrees
    NmsSound
    FacesInside
    RegisteredIsRecognised
    KernelsAgree
\* A picture is looked at once, a function called once.
CHECK_DEADLOCK FALSE
