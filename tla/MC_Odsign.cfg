CONSTANTS
    f1 = f1
    f2 = f2
    Files <- MCFiles1
    CheckOutcomes <- MCCheckOutcomes
    CompileOutcomes <- MCCompileOutcomes
    SupportsFsVerity = TRUE
    CompOsAvailable = TRUE
    MaxBoots = 3
    MaxTampers = 1
    SubprocessMayHang = FALSE
    MaxCrashes = 0
SPECIFICATION Spec
PROPERTY
    SignsWhatIsOnDisk
INVARIANTS
    TypeOK
    TrustedArtifactsGenuine
    SignedManifestsGenuine
    CompOsCertsForGenuineKeys
    IInv
CHECK_DEADLOCK FALSE
