CONSTANTS
    Dists <- MC_Dists
    DistDeb <- MC_DistDeb
    DistRpm <- MC_DistRpm
    MajorOnlyDists <- MC_MajorOnlyDists
    Archs <- MC_Archs
    SupportedArch <- MC_SupportedArch
    ExeVersions <- MC_ExeVersions
    ExeLogs <- MC_ExeLogs
    None = None
SPECIFICATION Spec
INVARIANTS TypeOK PackageBuilt
CHECK_DEADLOCK FALSE
