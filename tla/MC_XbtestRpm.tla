---------------------------- MODULE MC_XbtestRpm ----------------------------
(* Model values for XbtestRpm: one distribution of each kind and one that *)
(* is not supported, a supported and an unsupported architecture, and two  *)
(* builds of the host application, one with multi-digit fields.            *)
EXTENDS XbtestRpm

MC_Dists == {"Ubuntu", "CentOS", "Debian"}
MC_DistDeb == {"Ubuntu"}
MC_DistRpm == {"CentOS"}
MC_MajorOnlyDists == {"CentOS"}
MC_Archs == {"x86_64", "aarch64"}
MC_SupportedArch == {"x86_64"}
MC_ExeVersions ==
    {[major |-> "4", minor |-> "0", patch |-> "1"],
     [major |-> "10", minor |-> "12", patch |-> "3"]}

\* What `xbtest -v` prints: the GEN_003 line after another line, the line
\* alone, nothing (the executable fails to start; the status is ignored),
\* or a line cut after the major version.
MC_ExeLogs ==
    [v \in MC_ExeVersions |->
        {<<"INFO :: GEN_001 :: COMMAND_LINE :: start", VersionLine(v)>>,
         <<VersionLine(v)>>,
         <<>>,
         <<"INFO :: GEN_003 :: COMMAND_LINE :: xbtest host code version " \o v.major>>}]
=============================================================================
