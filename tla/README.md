# TLA+ models of the AVED build and packaging scripts

This directory holds TLA+ models of the Python tooling that builds an Alveo
Versal Example Design (AVED). The models are checked with TLC. All paths are
relative to the repository root.

## 1. The system

AVED's tooling has three layers.

1. **Design build flow.** The entry point is `src/gen_design.py`, with its
   library in `src/scripts/`.
   - `gen_design.py` parses options (`get_options`). It calls
     `set_up` (`setup.py`), which loads the configuration, creates or reuses
     the output directory and backs up the sources to `bkp_design`.
   - It then runs the steps of `SUPPORTED_STEPS` in order: `hw`, `fw`, `pdi`
     and, with `--deploy`, `deploy`.
   - Each step is `start_step`, a sequence of tasks and `end_step` (all in
     `pkg.py`).
     - `start_step` decides whether the step runs. With `--from_step` or
       `--single_step`, earlier steps are reused, and their directories must
       exist.
     - It removes and recreates the directory of a step that runs.
   - Each task is one function of `step_<x>.py` and works the same way:
     1. It checks its input files (`check_input_file_exists`).
     2. If the step runs, it starts an external tool through `exec_step_cmd`
        or writes a file itself. A non-zero status or an `ERROR: [` line in
        the log is `exit_error`.
     3. It checks its output files (`check_output_file_exists`).
   - Any failure ends the process. The output directory survives, and a later
     invocation can resume from it.
   - Two output names carry the invocation's date: `fpt_setup_<vbnv>_<date>.pdi`
     and the deployment zip.
2. **Two generators that the flow runs as tools.**
   - The `fw` step runs `src/fw/AMC/scripts/gen_fpt.py`. It encodes the JSON
     flash partition table (FPT) description into `fpt.bin`.
   - The `pdi` step runs `src/hw/<board>/fpt/fpt_pdi_gen.py`. It pads the FPT
     with 0xFF to the 32 KiB boot search boundary and appends the design PDI,
     which gives the "FPT setup PDI".
3. **Host software packaging.**
   - `src/sw/AMI/gen_package.py` with its own `build/pkg.py` builds the AMI
     driver packages.
   - `src/sw/xbtest/rpm_generate/gen_rpm.py` with its own `build/pkg.py`
     builds the xbtest RPMs.
   - Both are step sequences of external commands with a log check, around
     templated spec and control files.

Nothing runs concurrently. The interesting behaviour is sequential but spans
processes, as follows.
- A tool's exit status and its files are what the flow trusts.
- The output directory persists across invocations that resume, rerun or
  overwrite it.
- The date changes between invocations.
- Any step can fail after writing part of its output.

## 2. Inventory

Hazards per component are listed in `PROJECT.json` at the source line where
each one bites.

| Component | State | Operations | Properties worth checking |
|---|---|---|---|
| `gen_fpt.py` | the JSON input, the `fpt_data` bytearray, `fpt.bin`, the exit status | Steps 1–6 of `main`, one entry-loop iteration at a time | layout of the written table, its length, exit status vs. file, field round trip |
| `fpt_pdi_gen.py` | the arguments, the two buffers, the output file, the exit status | the argument checks, read and pad the FPT, read the PDI, write | composite layout, suffix checks, PDI at the boundary |
| Build flow | output directory, backup, step directories and their files; options, current step and task | `get_options`, `set_up`, `start_step`, every task of every step, `end_step`, `tear_down`, `exit_error` | success leaves all outputs; reused steps untouched; resume semantics; `--force` |
| AMI packaging | output directory, generated artefacts, driver list, staging tree, package | `main` step by step, the `driver` walk one file at a time, `check_log_error`, `find_longest_filter` | exit 0 means a complete package; a failing step is detected; only filtered driver sources are packaged |
| xbtest RPM | output directory, distribution/release/architecture, the built executable, its version, the package's locations | `main` step by step, `exec_step_cmd`, the version parse | exit 0 means a package with the executable's version, moved out of the build location |

## 3. Modules

| Module | Models | State ↔ code |
|---|---|---|
| `FptEncoder` | `gen_fpt.py` `main()` | `pc` is the Step about to run. `fptData` is `fpt_data`. `idx` is `index_tuple`. `hdr` and `entryList` are the parsed header and `fpt_entry_list`. `fptBin` is the file. `json` is the input: missing, invalid, or a document with possibly missing keys and malformed hex strings. A hex string is the byte sequence `bytearray.fromhex` gives. `PyInsert` is Python's `d[pos:0] = b` and `insert()`. |
| `FptPdiImage` | what `fpt_pdi_gen.py` promises | Abstract specification in one step: the inputs go to the padded image with status 0, to the usage with status 0, or to status 1 with nothing or a prefix of the image. |
| `FptPdiGen` | `fpt_pdi_gen.py` `__main__` and `do_fpt_pdi_generation` | File names are reduced to their suffixes, the only part the script reads. Buffers are byte sequences. The 0x8000 boundary is the constant `BootBoundary`. `Abstract` instantiates `FptPdiImage` with `input <- args`, `out <- output` and `status <- exitCode`. The reads are stuttering steps of the abstract spec. |
| `BuildFlow` | `gen_design.py` `main`/`get_options`, `setup.set_up`, `pkg.start_step`/`end_step`/`exec_step_cmd`/`check_*`, and the tasks of `step_hw/fw/pdi/deploy.py` | `outDir`, `bkp`, `stepDir` and `files` are the persistent directory. `files[s]` holds `<<name, date>>` paths, with date 0 for undated names. `opt`, `pc`, `cur`, `taskIdx` and `runStep` hold the current invocation (`config['steps'][s]['run_step']`). `today` is `config['now']` and `day` is the calendar. `done`, `visited`, `lastExit` and `failure` are history for the properties. Each task is a record of its checked inputs, its outputs, whether `is_current_step_run` guards it and whether it runs an external tool through `exec_step_cmd`. `RunTask` is the shared check/run/check pattern. A tool's outcome is a return status and a log (a subset of `LogLines`), and it may have written none or all of its outputs whatever it reports. `ToolFails` is `exec_step_cmd`: `check_log_error` as the code writes it (`line[0:len(pattern)]`), then the return code. A write by the script itself completes or raises. `check_output_file_exists` follows every task, whether it ran or not. `toolErr` is history: it records that a tool of the invocation reported an error, judged by the reference `ReportsError` (a line starting with `ERROR: [`, or a non-zero status), not by the code's check. `XbtestApp` is `"xbtest" in config['design']['application']`; for such a design `get_application_metadata` is a second, unguarded task of the hw step, and the deployment zip also needs its files and the `xbtest_metadata.json` that `build_hw.tcl` writes through `-m` and `build_hw` never checks (`VivadoMetadata`, `Unchecked`). `SetUp` is `set_up` with all of its exits: `json_load` of the configuration, the refused or failed `force_remove_dir` (`RemovedPart` removes whole step directories and maybe the backup), a backup copy that raises after the checked entries exist (so `bkp` may stay `TRUE`), and `write_export_script`. In `StartStep`, the `rmtree` of a rerun step's directory may fail part-way. `failure` records the step, whether it was reused, whether its last run had completed, and whether a check (not a tool or a copy) rejected it. |
| `AmiFilter` | the `driver` walk of AMI `gen_package.py` `main()` and `find_longest_filter` | `todo` is what `os.walk` has yet to yield, `driver` the driver list. Paths are the strings the code joins. `str.startswith`/`endswith` are `Len`/`SubSeq` on strings, and `find_longest_filter` is a `FoldSet` over the filter keys. `Intended` is the reference selection the `driver_filter` comment describes. |
| `AmiPackage` | AMI `gen_package.py` `main()` with AMI `build/pkg.py` | One action per step of `main`: options, output directory, distribution and architecture, the version headers, the driver walk (`Walk`, an instance of `AmiFilter`), `make` of the driver and of the library/tool, the package files, the copies and `dpkg-deb`/`rpmbuild`. `files` are the generated artefacts, `gen` the kbuild leftovers in `driver/`, `staged` the staging tree, `pkg` the package. `CheckLogError` is the code's comparison as written. An empty `lsb_release`/`dpkg` output (`Empty`) leaves its key unset: `KeyError` at the test, the CentOS split, or the logging of the release (`release`). The `gcq_version.h` that `getVersion.sh gcq` writes is under `driver/gcq-driver/src`, so the walk lists it once it exists (`WalkedFiles`). After the package is built, `copyfile` or `remove` may raise, leaving `pkg` `built` or `both`. |
| `XbtestRpm` | xbtest `gen_rpm.py` `main()` with xbtest `build/pkg.py` | One action per step. A command whose log holds no line leaves its variable unbound (`None`), which is the later `NameError`. `VersionFields` is the loop over `get_xbtest_version.log` with `str.split` as the RECURSIVE `Split` on strings. `pkgAt` is where the package is: `src` (the rpmbuild/dpkg-deb location), `dst` (output directory), `dst2` (working directory). |
| `MC_*` | bounds and model values for TLC | |

Each model is one sequential process. Each action is one handler, step or
loop iteration of the code. An external tool is a nondeterministic outcome:
- success;
- failure before writing;
- failure after writing its outputs (a non-zero exit or an `ERROR` log line
  after the files are on disk).

## 4. Runs

| Run | Expect | What it shows |
|---|---|---|
| `fpt_encoder` | pass | An `fpt.bin` written whole holds the header at offset 0 and entry `i` at `fpt_header_size + fpt_entry_size*i`, in the spec's little-endian layout. This holds despite the chain of slice inserts, for declared header sizes 8 and 10, entry sizes 12 and 14, up to 2 entries, and magic or field values of 2 and 4 bytes. |
| `fpt_length` | violation | The file is not `header + entry*N` bytes: the zeroed buffer is inserted into, not overwritten. |
| `fpt_exit` | violation | Exit status 0 after a failed write (no file, stale file, or a prefix). |
| `fpt_pdi_gen` | pass | The output is FPT, 0xFF fill and PDI, for FPTs shorter than and equal to the (scaled) boundary. Output names are `.pdi` in any case. The script refines `FptPdiImage`: status 1 never comes with anything but nothing or a prefix of the image. |
| `pdi_suffix` | violation | A `.txt` PDI is accepted: the check tests `fpt_file`. |
| `build_flow` | pass | Three invocations over two days of an xbtest design: full builds, `--force`, and every `--from_step`/`--single_step`, with tool, copy, `rmtree`, backup and export-script failures anywhere. A successful invocation leaves every output of every step it ran or reused, under its own date. No invocation exits 0 after one of its tools logged an `ERROR: [` line or returned non-zero, even when the tool wrote all its outputs. |
| `single_step_deploy` | violation | `--single_step deploy` without `--deploy` exits 0 having run nothing. |
| `resume_next_day` | violation | A `--single_step deploy` on the day after a build whose pdi step completed is rejected by `check_output_file_exists` in the reused pdi step: `fpt_setup_pdi` is looked up under today's date. |
| `ami_package` | pass | AMI exit 0 from `tear_down` means no step's return code failed, the output directory is new, and every listed source is staged and copied. No driver source that the filter table keeps out is listed, whatever order `os.walk` gives. |
| `ami_log_error` | violation | A step whose log has an `ERROR: [` line is not failed: `check_log_error` compares a 7-character slice with the 8-character marker. |
| `ami_copy` | violation | The driver list is built before `make clean`. A kbuild leftover (`ami.mod.c`) is listed, deleted, and its copy then fails with GEN_PACKAGE-31. |
| `xbtest_rpm` | pass | xbtest exit 0 from `tear_down` means no checked command failed, a supported distribution and architecture, the `<major>.<minor>` of the executable that was built as the package version, and the package in the output and working directories. |

Every property of a passing run is killed by a mutant of the code it rests
on:
- the entry offset computed from the spec's sizes 8/12 rather than the declared ones;
- the `.reverse()` dropped;
- the `--output` suffix check dropped;
- `ljust` one byte short;
- `doomed()` exiting with status 0;
- `end_step` not ending the invocation after the last step;
- `check_output_file_exists` not raising;
- `check_log_error` comparing the pattern with a slice one character short (the AMI copy's bug);
- AMI: the return code test only failing above 1, the architecture check dropped, the `if src_filter` branch dropped;
- xbtest: `minor = version[-1]`, the log-read variables initialised to `''`.

## 5. Bounds

**FptEncoder**
- `MaxEntries = 2`: enough for the entry loop to recompute `pos` and shift an
  earlier entry.
- Declared sizes 8 or 10 and 12 or 14 in `fpt_encoder`, so an offset taken
  from the spec's sizes instead of the declared ones is caught (419,898
  distinct states); 8/12, as in the spec, in the two violation runs.
- Two versions, 1 and 256, so a non-byte is reached.
- Hex values of 2 and 4 bytes.
- Types `PDI` and one other.
- Every field may be missing or malformed.

**FptPdiGen**
- `BootBoundary = 4` stands for 0x8000. `ljust` only distinguishes "shorter",
  "equal" and "longer", and FPTs of 0, 2, 4 and 6 bytes cover all three.

**BuildFlow**
- `MaxInvocations = 3` covers, for example:
  - a build, then a failed or single-step rerun, then a resume;
  - a build, then a day change, then a resume.
- `MaxDay = 2`: one day change.
- Each option ranges over all its values.
- `XbtestApp = TRUE`: an xbtest design has every task of the other designs
  plus the metadata copy and the extra deploy inputs.
- A tool's log is any subset of an `ERROR: [` line, an info line and an
  `ERROR:` line without a bracket, with status 0 or 1. The last line must not
  fail the step.
- The passing run has 2,384,894 distinct states and finishes in about a
  minute.

**AmiPackage**
- The driver tree has a top-level file, a filtered directory with a listed and
  an unlisted file, and one kbuild leftover. That is enough for the walk order,
  for both branches of the filter, and for the leftover to be both packaged and
  cleaned.
- There are three distributions (DEB, RPM, unsupported) and two architectures.
- The output directory is absent or left over, and any subset of the
  artefacts may be present beforehand.
- 55,064 distinct states.

**XbtestRpm**
- There are three distributions (DEB, RPM, unsupported) and two architectures.
- Each log read may get no line.
- Two executable versions, one with multi-digit fields. `xbtest -v` may print
  the version line alone or after another line, nothing, or a line cut after
  the major number (the `IndexError` path).
- 202 distinct states.

**Fairness.** No run checks a liveness property, so none assumes fairness.
Every script is straight-line code: every loop in `src/` is a `for` over a
finite collection, and there is no `while`. An invocation ends by the shape
of the code, once every external tool returns, and the models do not cover a
hung tool.

The cfgs say `CHECK_DEADLOCK FALSE`. A finished script, or the last
invocation, has no successor.

## 6. Not modelled

- In `gen_fpt.py`: the `hexdump` debug printer. It only prints.
- Cases that are reached but have no run of their own, because the project
  is limited to twelve runs (the hazards in `PROJECT.json` note them):
  - a hex value wider than its slot in `gen_fpt.py`;
  - an FPT of 32 KiB or more, which moves the PDI off the boundary;
  - the comment in `start_step` that says `--force` is needed to remove a
    rerun step's outputs;
  - a `driver/fal*` sibling directory, which `find_longest_filter` would match
    by prefix (there is none in the tree today).
- In the build flow:
  - LSF/GUI options and the default dated output directory, which is always
    new;
  - a different `--conf_json` on a rerun (see the hazard at `setup.py:31`).
    `load_config_json` reads the path given now, while vivado gets the
    backed-up `conf.json`. Checking this needs a violation run of its own,
    and the project is at its limit of twelve runs;
  - the content of files, and which hardware build produced them (see the
    `--single_step hw` hazard).
- In the build flow, also: `rmtree` removing part of a step directory's
  files (it removes whole step directories and the backup in the model; a
  reused step then fails the same checks), the parse of `uuid_dict`, and
  `build_amc`'s build, its check of `build/amc.elf` and the `copyfile` to
  the fw directory, which are one tool outcome. A missing build output
  fails like a missing `amc_elf`.
- In both packaging scripts: the text of spec, control, changelog and README
  files. It is formatting. Each of these is one step that may fail.
- Logging and console output.

## 7. Plan

Done so far: `FptEncoder`, `FptPdiGen` with its refinement of `FptPdiImage`,
`BuildFlow` (with the xbtest metadata task, the failure exits of `set_up`
and `force_remove_dir`, and `exec_step_cmd`/`check_log_error` tool outcomes),
`AmiFilter`/`AmiPackage`, `XbtestRpm`.

Considered and not pursued:
1. **BuildFlow provenance** (which hw build each output derives from). The
   help texts only ask that earlier outputs exist, and the spec leaves
   resume and rerun semantics out of scope. A mixed archive after
   `--single_step hw` is therefore not a broken promise. A pass property
   would hold by the shape of `--from_step`, which reruns every later step.
   The hazards at `pkg.py:212` and `pkg.py:217` keep this case.
2. **Composition** of `FptEncoder` and `FptPdiGen` as tools of `BuildFlow`.
   The flow trusts only a tool's exit status and the presence of its file.
   The one way a bad `fpt.bin` gets through, a swallowed write failure with
   exit 0, is already the `fpt_exit` finding. A composed model would show
   the same defect again.
3. **A changed `--conf_json` on a rerun.** This would need a violation run,
   and all twelve are in use.
