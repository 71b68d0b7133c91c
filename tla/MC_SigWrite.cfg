CONSTANTS
    f1 = f1
    f2 = f2
    Files <- MCFiles1
    CheckOutcomes <- MCCheckOutcomes
    CompileOutcomes <- MCCompileOutcomes
    SupportsFsVerity = TRUE
    CompOsAvailable = TRUE
    MaxBoots = 2
    MaxTampers = 1
    SubprocessMayHang = FALSE
    MaxCrashes = 0
SPECIFICATION Spec
INVARIANTS
    TrustedArtifactsVerifiable
CHECK_DEADLOCK FALSE
