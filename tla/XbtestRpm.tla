----------------------------- MODULE XbtestRpm -----------------------------
(***************************************************************************)
(* src/sw/xbtest/rpm_generate/gen_rpm.py main() with its build/pkg.py: one *)
(* invocation from getOptions() to tear_down().  Every external command is *)
(* an exec_step_cmd() outcome (this pkg.py has no log check); the version  *)
(* of the host application is parsed from the text its `-v` prints, with   *)
(* str.split modelled on TLC strings.                                      *)
(***************************************************************************)
EXTENDS Naturals, Sequences

CONSTANTS
    Dists, Archs,         \* what lsb_release -is and the architecture query may report
    DistDeb, DistRpm,     \* DIST_DEB and DIST_RPM
    SupportedArch,        \* SUPPORTED_ARCH
    MajorOnlyDists,       \* DIST_ID_CENTOS, DIST_ID_REDHAT, DIST_ID_REDHAT2
    ExeVersions,          \* versions the host application may be built with
    ExeLogs,              \* version -> what `xbtest -v` may print, as sequences of lines
    None

VARIABLES
    force,        \* opt.force, or None before getOptions()
    outDir,       \* "absent", "old" (an earlier invocation's) or "new"
    dist, arch,   \* distribution_id and architecture: None while unbound
    release,      \* distribution_release: None while unbound, else "bound"
    exe,          \* the host application built in this invocation, or None
    version,      \* package[VERSION], or None
    pkgAt,        \* where the package is: "RPMS" (src), "output_dir" (dst), "cwd" (dst2)
    pc, exitCode, failure,
    rcFailed      \* a command whose status is checked returned non-zero (history)

vars == <<force, outDir, dist, arch, release, exe, version, pkgAt, pc, exitCode,
          failure, rcFailed>>

SupportedDist == DistDeb \cup DistRpm
RC == {0, 1}

-----------------------------------------------------------------------------
(* str operations on TLC strings.                                          *)

\* The first position of sep in s, or 0.
Find(s, sep) ==
    LET hits == {i \in 1..Len(s) : i + Len(sep) - 1 <= Len(s)
                                   /\ SubSeq(s, i, i + Len(sep) - 1) = sep}
    IN  IF hits = {} THEN 0 ELSE CHOOSE i \in hits : \A j \in hits : i <= j

\* `sep in s`
Contains(s, sep) == Find(s, sep) # 0

\* s.split(sep)
RECURSIVE Split(_, _)
Split(s, sep) ==
    IF Find(s, sep) = 0 THEN <<s>>
    ELSE <<SubSeq(s, 1, Find(s, sep) - 1)>>
            \o Split(SubSeq(s, Find(s, sep) + Len(sep), Len(s)), sep)

\* The line the host application prints (the comment above the parse).
VersionLine(v) ==
    "INFO :: GEN_003 :: COMMAND_LINE :: xbtest host code version "
        \o v.major \o "." \o v.minor \o "." \o v.patch

-----------------------------------------------------------------------------
\* exit_msg(); an exception caught by main() also ends with status 1.
Exit(code, why) == pc' = "exited" /\ exitCode' = code /\ failure' = why

\* A command with a checked return code.
Run(rc) == rcFailed' = (rcFailed \/ rc # 0)

Init ==
    /\ force = None
    /\ outDir \in {"absent", "old"}
    /\ dist = None /\ arch = None /\ release = None /\ exe = None
    /\ version = None /\ pkgAt = {}
    /\ pc = "options" /\ exitCode = None /\ failure = None
    /\ rcFailed = FALSE

\* Options.getOptions(): a getopt error, an unhandled option or a remainder
\* is exit_error, --help or --version exit_info; the flags other than
\* --force only change the make command and the texts.
GetOptions ==
    /\ pc = "options"
    /\ \/ Exit(1, "GEN_RPM-1") /\ UNCHANGED force
       \/ Exit(0, "GEN_RPM-4") /\ UNCHANGED force
       \/ \E f \in BOOLEAN : force' = f /\ pc' = "outdir" /\ UNCHANGED <<exitCode, failure>>
    /\ UNCHANGED <<outDir, dist, arch, release, exe, version, pkgAt, rcFailed>>

\* An existing output directory without --force is GEN_RPM-11; with it,
\* rmtree, which may fail (GEN_RPM-52); then makedirs and the log file.
CreateOutputDir ==
    /\ pc = "outdir"
    /\ \/ outDir = "old" /\ ~force /\ Exit(1, "GEN_RPM-11") /\ UNCHANGED outDir
       \/ outDir = "old" /\ force /\ Exit(1, "GEN_RPM-52") /\ UNCHANGED outDir
       \/ /\ outDir = "absent" \/ force
          /\ outDir' = "new" /\ pc' = "dist_id" /\ UNCHANGED <<exitCode, failure>>
    /\ UNCHANGED <<force, dist, arch, release, exe, version, pkgAt, rcFailed>>

\* The variable initialised to '' before the loop (mutant).
FirstLineDefault(outputs) == outputs \cup {""}

\* The first line of a command's log: None when the command printed nothing,
\* which leaves the variable the loop assigns unbound (a NameError at its
\* first use, caught by main()).
FirstLine(outputs) == outputs \cup {None}

\* 'get distribution ID': lsb_release -is through exec_step_cmd, the first
\* line of its log, then the SUPPORTED_DIST_ID check.
DistributionId ==
    /\ pc = "dist_id"
    /\ \E rc \in RC, d \in FirstLine(Dists) :
          /\ Run(rc)
          /\ dist' = d
          /\ \/ rc # 0 /\ Exit(1, "GEN_RPM-15")
             \/ rc = 0 /\ d = None /\ Exit(1, "NameError")
             \/ rc = 0 /\ d # None /\ d \notin SupportedDist /\ Exit(1, "GEN_RPM-13")
             \/ rc = 0 /\ d \in SupportedDist /\ pc' = "dist_release"
                /\ UNCHANGED <<exitCode, failure>>
    /\ UNCHANGED <<force, outDir, arch, release, exe, version, pkgAt>>

\* 'get distribution release': lsb_release -rs; for CentOS and RedHat the
\* release is split on '.', which reads it at once.
DistributionRelease ==
    /\ pc = "dist_release"
    /\ \E rc \in RC, r \in FirstLine({"bound"}) :
          /\ Run(rc)
          /\ release' = r
          /\ \/ rc # 0 /\ Exit(1, "GEN_RPM-15")
             \/ rc = 0 /\ r = None /\ dist \in MajorOnlyDists /\ Exit(1, "NameError")
             \/ rc = 0 /\ (r # None \/ dist \notin MajorOnlyDists) /\ pc' = "arch"
                /\ UNCHANGED <<exitCode, failure>>
    /\ UNCHANGED <<force, outDir, dist, arch, exe, version, pkgAt>>

\* 'get architecture': dpkg --print-architecture on DIST_DEB, otherwise
\* platform.machine(); then the SUPPORTED_ARCH check and the log_info lines
\* that read all three values.
Architecture ==
    /\ pc = "arch"
    /\ \E rc \in RC, a \in FirstLine(Archs) :
          /\ IF dist \in DistDeb THEN Run(rc) /\ arch' = a
                                 ELSE rc = 0 /\ a # None /\ arch' = a /\ UNCHANGED rcFailed
          /\ \/ rc # 0 /\ Exit(1, "GEN_RPM-15")
             \/ rc = 0 /\ a = None /\ Exit(1, "NameError")
             \/ rc = 0 /\ a # None /\ a \notin SupportedArch /\ Exit(1, "GEN_RPM-17")
             \/ rc = 0 /\ a \in SupportedArch /\ release = None /\ Exit(1, "NameError")
             \/ rc = 0 /\ a \in SupportedArch /\ release # None /\ pc' = "copy_sources"
                /\ UNCHANGED <<exitCode, failure>>
    /\ UNCHANGED <<force, outDir, dist, release, exe, version, pkgAt>>

\* copy_source_file of the makefile and copy_source_dir of the eight
\* source directories: a missing one is exit_error.
CopySources ==
    /\ pc = "copy_sources"
    /\ \/ Exit(1, "GEN_RPM-19")
       \/ pc' = "compile" /\ UNCHANGED <<exitCode, failure>>
    /\ UNCHANGED <<force, outDir, dist, arch, release, exe, version, pkgAt, rcFailed>>

\* 'compile xbtest host application executable': make, then the executable
\* must exist.  The build gives it one of the versions it may have.
Compile ==
    /\ pc = "compile"
    /\ \E rc \in RC, made \in BOOLEAN :
          /\ Run(rc)
          /\ \/ rc # 0 /\ Exit(1, "GEN_RPM-23") /\ UNCHANGED exe
             \/ rc = 0 /\ ~made /\ Exit(1, "GEN_RPM-24") /\ UNCHANGED exe
             \/ rc = 0 /\ made /\ \E v \in ExeVersions : exe' = v
                /\ pc' = "version" /\ UNCHANGED <<exitCode, failure>>
    /\ UNCHANGED <<force, outDir, dist, arch, release, version, pkgAt>>

\* The loop over get_xbtest_version.log: the first line containing
\* 'GEN_003', what follows the last 'host code version ', split on '.'.
\* <<>> when no line contains 'GEN_003' (major stays None).
VersionFields(lines) ==
    LET gen == {i \in DOMAIN lines : Contains(lines[i], "GEN_003")}
        first == CHOOSE i \in gen : \A j \in gen : i <= j
        tail == Split(lines[first], "host code version ")
    IN  IF gen = {} THEN <<>> ELSE Split(tail[Len(tail)], ".")

\* minor = version[-1] (mutant).
MinorLast(fields) == fields[Len(fields)]

\* minor = version[1]
MinorOf(fields) == fields[2]

\* package[VERSION] = str(major) + '.' + str(minor)
VersionString(fields) == fields[1] \o "." \o MinorOf(fields)

\* 'execute host application to get major/minor version': the return code is
\* ignored (ignore_error = True).  A field list of one element raises
\* IndexError at version[1], before the `minor is None` test.
GetVersion ==
    /\ pc = "version"
    /\ \E out \in ExeLogs[exe] :
          LET fields == VersionFields(out)
          IN  \/ fields = <<>> /\ Exit(1, "GEN_RPM-29") /\ UNCHANGED version
              \/ Len(fields) = 1 /\ Exit(1, "IndexError") /\ UNCHANGED version
              \/ /\ Len(fields) >= 2
                 /\ version' = VersionString(fields)
                 /\ pc' = "pkg_files" /\ UNCHANGED <<exitCode, failure>>
    /\ UNCHANGED <<force, outDir, dist, arch, release, exe, pkgAt, rcFailed>>

\* The package metadata, the RPM spec file or the DEB control, preinst,
\* postinst and changelog files, the copies of the executable and LICENSE
\* and README.md.  A missing LICENSE is exit_error in copy_source_file; any
\* OSError is caught by main().
PackageFiles ==
    /\ pc = "pkg_files"
    /\ \/ Exit(1, "GEN_RPM-40")
       \/ Exit(1, "OSError")
       \/ pc' = "generate" /\ UNCHANGED <<exitCode, failure>>
    /\ UNCHANGED <<force, outDir, dist, arch, release, exe, version, pkgAt, rcFailed>>

\* 'generate RPM package' (rpmbuild, on DIST_RPM) or 'generate DEB package'
\* (dpkg-deb): the package is written to src.
GeneratePackage ==
    /\ pc = "generate"
    /\ \E rc \in RC, written \in BOOLEAN :
          /\ Run(rc)
          /\ pkgAt' = IF written THEN {"src"} ELSE {}
          /\ \/ rc # 0 /\ Exit(1, IF dist \in DistRpm THEN "GEN_RPM-44" ELSE "GEN_RPM-47")
             \/ rc = 0 /\ pc' = "move" /\ UNCHANGED <<exitCode, failure>>
    /\ UNCHANGED <<force, outDir, dist, arch, release, exe, version>>

\* shutil.copy(src, dst), os.remove(src), shutil.copy(dst, dst2) and
\* tear_down.  An OSError of any of them is caught by main(); a copy that
\* fails may leave nothing or a partial file behind.
MovePackage ==
    /\ pc = "move"
    /\ \/ "src" \notin pkgAt /\ Exit(1, "OSError") /\ UNCHANGED pkgAt
       \/ "src" \in pkgAt /\ \E failAt \in {"dst", "remove", "dst2", None} :
             /\ pkgAt' = CASE failAt = "dst"    -> pkgAt
                           [] failAt = "remove" -> {"src", "dst"}
                           [] failAt = "dst2"   -> {"dst"}
                           [] failAt = None     -> {"dst", "dst2"}
             /\ IF failAt = None THEN Exit(0, None) ELSE Exit(1, "OSError")
    /\ UNCHANGED <<force, outDir, dist, arch, release, exe, version, rcFailed>>

Next ==
    \/ GetOptions \/ CreateOutputDir \/ DistributionId \/ DistributionRelease
    \/ Architecture \/ CopySources \/ Compile \/ GetVersion \/ PackageFiles
    \/ GeneratePackage \/ MovePackage

Spec == Init /\ [][Next]_vars

-----------------------------------------------------------------------------
TypeOK ==
    /\ force \in BOOLEAN \cup {None}
    /\ outDir \in {"absent", "old", "new"}
    /\ dist \in Dists \cup {None} /\ arch \in Archs \cup {None}
    /\ release \in {"bound", None}
    /\ exe \in ExeVersions \cup {None}
    /\ version \in STRING \cup {None}
    /\ pkgAt \subseteq {"src", "dst", "dst2"}
    /\ exitCode \in {0, 1, None}
    /\ rcFailed \in BOOLEAN

\* What the GEN_003 comment promises: exit status 0 from tear_down (not the
\* exit_info of --help or --version) means every checked command succeeded on a supported distribution and architecture, the
\* package carries <major>.<minor> of the executable that was built, and it
\* was moved out of the rpmbuild/dpkg-deb location into the output directory
\* and the working directory.
PackageBuilt ==
    exitCode = 0 /\ failure = None =>
        /\ ~rcFailed
        /\ dist \in SupportedDist /\ arch \in SupportedArch
        /\ version = exe.major \o "." \o exe.minor
        /\ pkgAt = {"dst", "dst2"}
=============================================================================
