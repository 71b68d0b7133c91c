CONSTANTS
    f1 = f1
    f2 = f2
    Files <- MCFiles2
    CheckOutcomes <- MCCheckOutcomes
    CompileOutcomes <- MCCompileOutcomes
    SupportsFsVerity = TRUE
    CompOsAvailable = TRUE
    MaxBoots = 2
    MaxTampers = 1
    SubprocessMayHang = FALSE
    MaxCrashes = 0
SPECIFICATION Spec
SYMMETRY MCSymmetry
INVARIANTS
    TrustedArtifactsGenuine
    TrustedArtifactsSingleSource
    OneSourceOnPath
CHECK_DEADLOCK FALSE
