CONSTANTS
    f1 = f1
    f2 = f2
    Files <- MCFiles1
    CheckOutcomes <- MCCheckOutcomes
    CompileOutcomes <- MCCompileOutcomes
    SupportsFsVerity = TRUE
    CompOsAvailable = TRUE
    MaxBoots = 2
    MaxTampers = 1
    SubprocessMayHang = TRUE
    MaxCrashes = 0
SPECIFICATION LiveSpec
PROPERTIES
    BootSignalsDone
CHECK_DEADLOCK FALSE
