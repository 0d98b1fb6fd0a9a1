---------------------------- MODULE AmiPackage ----------------------------
(***************************************************************************)
(* src/sw/AMI/gen_package.py main() with the helpers of its build/pkg.py:  *)
(* one invocation, from the options to tear_down(), over a working tree    *)
(* that earlier builds may have left files in.  Every external command is  *)
(* exec_step_cmd(): a return code, for a logged command a log that may     *)
(* hold an 'ERROR: [' line, and the files it leaves.  The walk of 'driver' *)
(* is AmiFilter's Visit, one file per step.                                *)
(***************************************************************************)
EXTENDS Naturals, Sequences, FiniteSets

CONSTANTS
    Tree, DriverFilter,   \* the driver sources and driver_filter (AmiFilter)
    Leftovers,            \* kbuild outputs in driver/ that `make` creates and `make clean` removes
    Dists, Archs,         \* what lsb_release -is and the architecture query may report
    DistDeb, DistRpm,     \* DIST_DEB and DIST_RPM
    DistMajorOnly,        \* DIST_ID_CENTOS, DIST_ID_REDHAT, DIST_ID_REDHAT2
    SupportedArch,        \* SUPPORTED_ARCH
    None

VARIABLES
    opt,          \* the Options of getOptions(), or None before it ran
    outDir,       \* "absent", "old" (an earlier invocation's) or "new"
    dist, arch,   \* config['system']
    release,      \* config['system']['distribution_release'] was set
    files,        \* the generated artefacts present in the source tree
    gen,          \* the Leftovers present in driver/, as <<path, name>>
    walkTodo, driverList,
    staged,       \* what is copied under dest_base
    pkg,          \* "none", "built" (pkg), "copied" (pkg_cpy) or "both"
    pc, exitCode, failure,
    rcFailed,     \* a command returned non-zero (history)
    errLogged     \* a logged command wrote an 'ERROR: [' line (history)

vars == <<opt, outDir, dist, arch, release, files, gen, walkTodo, driverList, staged,
          pkg, pc, exitCode, failure, rcFailed, errLogged>>

Walk == INSTANCE AmiFilter WITH todo <- walkTodo, driver <- driverList

Artefacts == {"ami_version.h", "gcq_version.h", "ami.ko", "libami.a", "ami_tool"}
\* getVersion.sh gcq writes its header inside the walked tree.
GcqVersionH == <<"driver/gcq-driver/src", "gcq_version.h">>
\* What os.walk('driver') reaches: the sources, the kbuild leftovers and,
\* once generated, gcq_version.h.
WalkedFiles(fs) ==
    Walk!FileSet \cup gen \cup (IF "gcq_version.h" \in fs THEN {GcqVersionH} ELSE {})
SupportedDist == DistDeb \cup DistRpm

\* exit_msg(): the status a failure or the end of the script leaves.
Exit(code, why) ==
    /\ pc' = "exited" /\ exitCode' = code /\ failure' = why

\* check_log_error(): 'ERROR: [' (8 characters) is compared with line[0:7],
\* the first len(txt) - 1 characters; the two are equal only if they have
\* the same length.
ErrorTxtLen == 8
CheckLogError(errLine) == errLine /\ ErrorTxtLen - 1 = ErrorTxtLen

\* The return-code test of exec_step_cmd() with a return code above 1 only
\* (mutant).
ReturnCodeFailsAboveOne(rc) == rc > 1

\* exec_step_cmd(): `not expect_fail and proc.returncode != 0`.
ReturnCodeFails(rc) == rc # 0

\* exec_step_cmd() as it ends: the log check of a logged command, then the
\* return code.  RC and the log line are what the tool did.
RC == {0, 1, 2}
StepFails(logged, rc, errLine) ==
    (logged /\ CheckLogError(errLine)) \/ ReturnCodeFails(rc)
Record(logged, rc, errLine) ==
    /\ rcFailed' = (rcFailed \/ rc # 0)
    /\ errLogged' = (errLogged \/ (logged /\ errLine))

Init ==
    /\ opt = None
    /\ outDir \in {"absent", "old"}
    /\ dist = None /\ arch = None /\ release = FALSE
    /\ files \in SUBSET Artefacts
    /\ gen \in SUBSET Leftovers
    /\ walkTodo = {} /\ driverList = {}
    /\ staged = {} /\ pkg = "none"
    /\ pc = "options" /\ exitCode = None /\ failure = None
    /\ rcFailed = FALSE /\ errLogged = FALSE

\* Options.getOptions(): a getopt error, an unknown option or a remainder is
\* exit_error; --help and --version are exit_info; otherwise the flags.
GetOptions ==
    /\ pc = "options"
    /\ \/ Exit(1, "options") /\ UNCHANGED opt
       \/ Exit(0, "info") /\ UNCHANGED opt
       \/ \E force, noDriver, noGenVersion \in BOOLEAN :
             /\ opt' = [force |-> force, noDriver |-> noDriver,
                        noGenVersion |-> noGenVersion]
             /\ pc' = "outdir" /\ UNCHANGED <<exitCode, failure>>
    /\ UNCHANGED <<outDir, dist, arch, release, files, gen, walkTodo, driverList,
                   staged, pkg, rcFailed, errLogged>>

\* An existing output directory is an error without --force and is removed
\* by force_remove_dir() with it (which fails if rmtree raises or the
\* directory survives); then the output, log, tmp and bkp_design dirs.
CreateOutputDir ==
    /\ pc = "outdir"
    /\ \/ outDir = "old" /\ ~opt.force /\ Exit(1, "outdir") /\ UNCHANGED outDir
       \/ outDir = "old" /\ opt.force /\ Exit(1, "outdir") /\ UNCHANGED outDir
       \/ /\ outDir = "absent" \/ opt.force
          /\ outDir' = "new" /\ pc' = "lsb_is" /\ UNCHANGED <<exitCode, failure>>
    /\ UNCHANGED <<opt, dist, arch, release, files, gen, walkTodo, driverList, staged,
                   pkg, rcFailed, errLogged>>

\* A logged command of the 'get system info' step.  The first line of its
\* log is the value read (Empty: the log has no line, so the key is never
\* set and reading it raises KeyError, which main() turns into status 1).
Empty == "empty"

\* lsb_release -is: an unsupported or missing distribution id ends the
\* script (exit_error GEN_PACKAGE-14, or KeyError at the test).
LsbReleaseIs ==
    /\ pc = "lsb_is"
    /\ \E rc \in RC, errLine \in BOOLEAN, d \in Dists \cup {Empty} :
          /\ Record(TRUE, rc, errLine)
          /\ IF StepFails(TRUE, rc, errLine) THEN Exit(1, "lsb_release") /\ UNCHANGED dist
             ELSE IF d \notin SupportedDist THEN Exit(1, "dist") /\ UNCHANGED dist
             ELSE dist' = d /\ pc' = "lsb_rs" /\ UNCHANGED <<exitCode, failure>>
    /\ UNCHANGED <<opt, outDir, arch, release, files, gen, walkTodo, driverList, staged, pkg>>

\* The architecture taken without the SUPPORTED_ARCH test (mutant).
ArchUnchecked(a, rel) == arch' = a /\ pc' = "ver_ami" /\ UNCHANGED <<exitCode, failure>>

\* The architecture is checked against SUPPORTED_ARCH (a missing one is a
\* KeyError there); then the system is logged, which reads the release.
ArchChecked(a, rel) ==
    IF a \notin SupportedArch THEN Exit(1, "arch") /\ UNCHANGED arch
    ELSE IF ~rel THEN Exit(1, "release") /\ UNCHANGED arch
    ELSE arch' = a /\ pc' = "ver_ami" /\ UNCHANGED <<exitCode, failure>>

\* lsb_release -rs; a CentOS or RedHat release is split at its first dot
\* (KeyError if there was none); on an RPM distribution the architecture
\* is then platform.machine(), on a DEB one dpkg --print-architecture.
LsbReleaseRs ==
    /\ pc = "lsb_rs"
    /\ \E rc \in RC, errLine, empty \in BOOLEAN :
          /\ Record(TRUE, rc, errLine)
          /\ release' = ~empty
          /\ IF StepFails(TRUE, rc, errLine) THEN Exit(1, "lsb_release") /\ UNCHANGED arch
             ELSE IF empty /\ dist \in DistMajorOnly THEN Exit(1, "release") /\ UNCHANGED arch
             ELSE IF dist \in DistDeb THEN pc' = "dpkg" /\ UNCHANGED <<arch, exitCode, failure>>
             ELSE \E a \in Archs : ArchChecked(a, ~empty)
    /\ UNCHANGED <<opt, outDir, dist, files, gen, walkTodo, driverList, staged, pkg>>

DpkgArchitecture ==
    /\ pc = "dpkg"
    /\ \E rc \in RC, errLine \in BOOLEAN, a \in Archs \cup {Empty} :
          /\ Record(TRUE, rc, errLine)
          /\ IF StepFails(TRUE, rc, errLine) THEN Exit(1, "dpkg") /\ UNCHANGED arch
             ELSE ArchChecked(a, release)
    /\ UNCHANGED <<opt, outDir, dist, release, files, gen, walkTodo, driverList, staged, pkg>>

\* check_output_file_exists() after an unlogged command.
Checked(out, present) == out \in present

\* An unlogged command that may (re)create out, then its output check: the
\* getVersion.sh and make steps.  `cleans` is what the command removes
\* first (make clean).
RunTool(out, cleans, next) ==
    \E rc \in RC, made \in BOOLEAN :
       LET present == (files \ cleans) \cup (IF made THEN {out} ELSE {})
       IN  /\ files' = present
           /\ Record(FALSE, rc, FALSE)
           /\ IF StepFails(FALSE, rc, FALSE) THEN Exit(1, out)
              ELSE IF ~Checked(out, present) THEN Exit(1, "check")
              ELSE pc' = next /\ UNCHANGED <<exitCode, failure>>

\* The 'get AMI version' and 'get GCQ version' steps, skipped with
\* --no_gen_version; then the walk of 'driver' starts.
GetVersion ==
    /\ pc \in {"ver_ami", "ver_gcq"}
    /\ \/ /\ opt.noGenVersion
          /\ pc' = "walk" /\ walkTodo' = WalkedFiles(files)
          /\ UNCHANGED <<files, exitCode, failure, rcFailed, errLogged>>
       \/ /\ ~opt.noGenVersion /\ pc = "ver_ami"
          /\ RunTool("ami_version.h", {}, "ver_gcq") /\ UNCHANGED walkTodo
       \/ /\ ~opt.noGenVersion /\ pc = "ver_gcq"
          /\ RunTool("gcq_version.h", {}, "walk")
          /\ walkTodo' = WalkedFiles(files')
    /\ UNCHANGED <<opt, outDir, dist, arch, release, gen, driverList, staged, pkg>>

\* One file of the walk of 'driver' (lines 286-302).
WalkDriver ==
    /\ pc = "walk"
    /\ Walk!Visit
    /\ UNCHANGED <<opt, outDir, dist, arch, release, files, gen, staged, pkg, pc,
                   exitCode, failure, rcFailed, errLogged>>

\* The walk has reached every file.
WalkDone == walkTodo = {}

\* The API headers are walked, the version is read from ami_version.h (an
\* OSError if it is missing ends the script with status 1), and the
\* postinst, prerm and preinst scripts are written.
PackageConfig ==
    /\ pc = "walk" /\ WalkDone
    /\ IF "ami_version.h" \notin files THEN Exit(1, "version")
       ELSE /\ pc' = IF opt.noDriver THEN "build_api" ELSE "build_driver"
            /\ UNCHANGED <<exitCode, failure>>
    /\ UNCHANGED <<opt, outDir, dist, arch, release, files, gen, walkTodo, driverList,
                   staged, pkg, rcFailed, errLogged>>

\* 'driver compilation confidence check': make clean && make, which removes
\* and recreates ami.ko and the kbuild leftovers, checked; then make clean.
BuildDriver ==
    /\ pc = "build_driver"
    /\ RunTool("ami.ko", {"ami.ko"}, "clean_driver")
    /\ gen' = IF "ami.ko" \in files' THEN Leftovers ELSE {}
    /\ UNCHANGED <<opt, outDir, dist, arch, release, walkTodo, driverList, staged, pkg>>

CleanDriver ==
    /\ pc = "clean_driver"
    /\ \E rc \in RC :
          /\ Record(FALSE, rc, FALSE)
          /\ files' = files \ {"ami.ko"} /\ gen' = {}
          /\ IF StepFails(FALSE, rc, FALSE) THEN Exit(1, "clean")
             ELSE pc' = "build_api" /\ UNCHANGED <<exitCode, failure>>
    /\ UNCHANGED <<opt, outDir, dist, arch, release, walkTodo, driverList, staged, pkg>>

\* 'build AMI API and tools': libami.a, then ami_tool, each make clean && make.
BuildAmi ==
    /\ \/ pc = "build_api" /\ RunTool("libami.a", {"libami.a"}, "build_tool")
       \/ pc = "build_tool" /\ RunTool("ami_tool", {"ami_tool"}, "write")
    /\ UNCHANGED <<opt, outDir, dist, arch, release, gen, walkTodo, driverList, staged, pkg>>

\* The spec or control, postinst, prerm, preinst and changelog files under
\* dest_base (lines 403-623); only an OSError stops it.
WritePackageFiles ==
    /\ pc = "write"
    /\ \/ Exit(1, "write")
       \/ pc' = "copy" /\ UNCHANGED <<exitCode, failure>>
    /\ UNCHANGED <<opt, outDir, dist, arch, release, files, gen, walkTodo, driverList,
                   staged, pkg, rcFailed, errLogged>>

\* The files of SRC_DEST_LIST that exist now: libami.a, ami_tool and the
\* driver list entries still in driver/ (the Makefile, dkms.conf and the API
\* headers are always there; make clean leaves gcq_version.h).
Present == (files \cap {"libami.a", "ami_tool"})
             \cup (driverList \cap {Walk!Join(f[1], f[2]) : f \in WalkedFiles(files)})
Packaged == {"libami.a", "ami_tool"} \cup driverList

\* copy_source_file() for every entry of SRC_DEST_LIST, in order: the first
\* source that does not exist is exit_error GEN_PACKAGE-31; then ami.pc.
CopyFiles ==
    /\ pc = "copy"
    /\ IF Packaged \subseteq Present
       THEN staged' = Packaged /\ pc' = "package" /\ UNCHANGED <<exitCode, failure>>
       ELSE /\ staged' \in SUBSET Present
            /\ Exit(1, "copy_source_file")
    /\ UNCHANGED <<opt, outDir, dist, arch, release, files, gen, walkTodo, driverList,
                   pkg, rcFailed, errLogged>>

\* rpmbuild or dpkg-deb, logged, then the package is checked, copied to its
\* distribution-release name, removed and the copy checked; tear_down()
\* exits 0.  shutil.copyfile or os.remove may raise OSError (status 1),
\* leaving the package alone or next to its copy.
BuildPackage ==
    /\ pc = "package"
    /\ \E rc \in RC, errLine, made \in BOOLEAN :
          /\ Record(TRUE, rc, errLine)
          /\ IF StepFails(TRUE, rc, errLine)
             THEN Exit(1, "package") /\ pkg' = IF made THEN "built" ELSE "none"
             ELSE IF ~made THEN Exit(1, "check") /\ UNCHANGED pkg
             ELSE \/ pkg' = "built" /\ Exit(1, "copyfile")
                  \/ pkg' = "both" /\ Exit(1, "remove")
                  \/ pkg' = "copied" /\ Exit(0, None)
    /\ UNCHANGED <<opt, outDir, dist, arch, release, files, gen, walkTodo, driverList, staged>>

Next ==
    \/ GetOptions \/ CreateOutputDir
    \/ LsbReleaseIs \/ LsbReleaseRs \/ DpkgArchitecture
    \/ GetVersion \/ WalkDriver \/ PackageConfig
    \/ BuildDriver \/ CleanDriver \/ BuildAmi
    \/ WritePackageFiles \/ CopyFiles \/ BuildPackage

Spec == Init /\ [][Next]_vars

-----------------------------------------------------------------------------
TypeOK ==
    /\ opt \in {None} \cup [force : BOOLEAN, noDriver : BOOLEAN, noGenVersion : BOOLEAN]
    /\ outDir \in {"absent", "old", "new"}
    /\ dist \in {None} \cup SupportedDist /\ arch \in {None} \cup SupportedArch
    /\ release \in BOOLEAN
    /\ files \subseteq Artefacts /\ gen \subseteq Leftovers
    /\ walkTodo \subseteq Walk!FileSet \cup Leftovers \cup {GcqVersionH}
    /\ pkg \in {"none", "built", "copied", "both"}
    /\ exitCode \in {None, 0, 1}

\* An invocation that exits 0 after packaging has run every command it
\* started to a zero return code, produced its package copy in a fresh
\* output directory, and staged the library, the tool and every listed
\* driver source (exec_step_cmd() must fail every non-zero return code).
PackageComplete ==
    exitCode = 0 /\ failure = None =>
        /\ ~rcFailed
        /\ pkg = "copied" /\ outDir = "new"
        /\ staged = Packaged

\* No file is packaged that driver_filter keeps out, whatever order os.walk
\* yields the files in (AmiFilter's DriverListSound over the walk of main()).
DriverListSound == Walk!DriverListSound

\* No invocation exits 0 after a logged command wrote an 'ERROR: [' line:
\* check_log_error() exists to fail such a step.
LoggedErrorsFail ==
    exitCode = 0 => ~errLogged

\* A build never fails because a file its own walk listed under driver/ was
\* removed before the copy: the driver sources are looked for after the
\* version headers exist (comment of main()), but before the driver
\* confidence check runs `make clean`.
ListedSourcesCopied ==
    failure # "copy_source_file"
=============================================================================
