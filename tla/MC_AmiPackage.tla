---------------------------- MODULE MC_AmiPackage ----------------------------
(* gen_package.py over a driver tree with one unfiltered source and a     *)
(* filtered directory holding a listed and an unlisted source, one kbuild *)
(* leftover (ami.mod.c, which `make` generates for ami.ko), and one        *)
(* supported and one unsupported value of each system query.               *)
EXTENDS AmiPackage

MC_PkgTree == [d \in {"driver", "driver/fal"} |->
                 IF d = "driver" THEN {"ami_top.c"} ELSE {"fw_if.h", "fw_if_other.c"}]

MC_PkgFilter == [k \in {"driver/fal"} |-> {"fw_if.h"}]

MC_Leftovers == {<<"driver", "ami.mod.c">>}
MC_Dists == {"Ubuntu", "CentOS", "Fedora"}
MC_DistDeb == {"Ubuntu"}
MC_DistRpm == {"CentOS"}
MC_DistMajorOnly == {"CentOS"}
MC_Archs == {"x86_64", "aarch64"}
MC_SupportedArch == {"x86_64"}
=============================================================================
