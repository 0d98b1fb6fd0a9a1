CONSTANTS
    Tree <- MC_PkgTree
    DriverFilter <- MC_PkgFilter
    Leftovers <- MC_Leftovers
    Dists <- MC_Dists
    DistDeb <- MC_DistDeb
    DistRpm <- MC_DistRpm
    DistMajorOnly <- MC_DistMajorOnly
    Archs <- MC_Archs
    SupportedArch <- MC_SupportedArch
    None = None
SPECIFICATION Spec
CHECK_DEADLOCK FALSE
INVARIANT LoggedErrorsFail
