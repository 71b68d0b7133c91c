CONSTANTS
    f1 = f1
    f2 = f2
    Files <- MCFiles1
    CheckOutcomes <- MCCheckOutcomes
    CompileOutcomes <- MCCompileOutcomes
    SupportsFsVerity = TRUE
    CompOsAvailable = TRUE
    MaxBoots = 2
    MaxTampers = 1
    SubprocessMayHang = FALSE
    MaxCrashes = 1
SPECIFICATION Spec
PROPERTIES
    BootStatusSpec
CHECK_DEADLOCK FALSE
