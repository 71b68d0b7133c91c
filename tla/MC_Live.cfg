CONSTANTS
    f1 = f1
    f2 = f2
    Files <- MCFiles1
    CheckOutcomes <- MCCheckOutcomes
    CompileOutcomes <- MCCompileOutcomes
    SupportsFsVerity = TRUE
    CompOsAvailable = TRUE
    MaxBoots = 3
    MaxTampers = 0
    SubprocessMayHang = FALSE
    MaxCrashes = 1
SPECIFICATION LiveSpec
PROPERTIES
    BootSignalsDone
CHECK_DEADLOCK FALSE
