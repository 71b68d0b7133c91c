CONSTANTS
    f1 = f1
    f2 = f2
    Files <- MCFiles1
    CheckOutcomes <- MCCheckOutcomes
    CompileOutcomes <- MCCompileOutcomes
    SupportsFsVerity = FALSE
    CompOsAvailable = TRUE
    MaxBoots = 3
    MaxTampers = 2
    SubprocessMayHang = TRUE
    MaxCrashes = 1
SPECIFICATION Spec
INVARIANTS
    TrustedArtifactsGenuine
    ManifestListsTrustedArtifacts
    ManifestOnPath
CHECK_DEADLOCK FALSE
