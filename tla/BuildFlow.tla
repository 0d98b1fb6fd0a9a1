------------------------------ MODULE BuildFlow ------------------------------
(***************************************************************************)
(* The build flow of gen_design.py over one output directory, across      *)
(* successive invocations: full builds, --from_step resumes and           *)
(* --single_step reruns.  An invocation parses its options (get_options), *)
(* sets the directory up (setup.set_up), then runs the steps hw, fw, pdi  *)
(* and, with --deploy, deploy.  Each step is start_step, its tasks (the   *)
(* functions of step_<x>.py, run in order) and end_step.                  *)
(*                                                                         *)
(* A task checks that its inputs exist, runs its external tool or file    *)
(* write when the step is (re)run, then checks that its outputs exist;    *)
(* any failed check or tool is exit_error, which ends the invocation.     *)
(* The state that survives an invocation is the output directory: the     *)
(* backup of the sources and, per step, its directory and the output      *)
(* files in it.  Two file names carry the date of the invocation          *)
(* (config['now']).  done is history: whether the run that produced a     *)
(* step's outputs reached end_step.                                       *)
(***************************************************************************)
EXTENDS Integers, Sequences, FiniteSets

CONSTANTS
  MaxInvocations,  \* bound on the number of invocations
  MaxDay,          \* days are 1..MaxDay
  None,            \* an option left out
  XbtestApp        \* "xbtest" in config['design']['application']

ASSUME MaxInvocations \in Nat /\ MaxDay \in Nat \ {0} /\ XbtestApp \in BOOLEAN

\* SUPPORTED_STEPS
STEPS == <<"hw", "fw", "pdi", "deploy">>
Steps == {STEPS[i] : i \in 1..4}
Index(s) == CHOOSE i \in 1..4 : STEPS[i] = s

(***************************************************************************)
(* The tasks of each step in the order run_step_<x> calls them, with the  *)
(* files each one checks before (in) and after (out) it runs.  Files are  *)
(* named after the config keys that hold their paths.                     *)
(***************************************************************************)
\* tool: the task runs an external command through exec_step_cmd(); the
\* others write their outputs from the script itself.
Task(name, in, out, guarded, tool) ==
  [name |-> name, in |-> in, out |-> out, guarded |-> guarded, tool |-> tool]

build_hw ==
  Task("build_hw", {}, {"hw_pdi", "uuid_dict", "static_xsa"}, TRUE, TRUE)
\* get_application_metadata: for an xbtest design, copy the test JSON
\* directory and two metadata files from bkp_design into the hw directory.
\* It is not guarded by is_current_step_run and checks nothing after.
XbtestFiles == {"xbtest_test_json_dir", "xbtest_user_metadata_json",
                "xbtest_pfm_def_metadata_json"}
get_application_metadata ==
  Task("get_application_metadata", {}, XbtestFiles, FALSE, FALSE)

\* build_hw.tcl also writes xbtest_metadata.json into the directory given
\* with -m; build_hw() does not check it, create_deployment_zip() does.
VivadoMetadata == IF XbtestApp THEN {"xbtest_metadata_json"} ELSE {}
Unchecked(t) == IF t.name = "build_hw" THEN VivadoMetadata ELSE {}

build_amc == Task("build_amc", {"static_xsa"}, {"amc_elf"}, TRUE, TRUE)
build_fpt_bin == Task("build_fpt_bin", {}, {"fpt_bin"}, TRUE, TRUE)
write_pdi_combine_bif ==
  Task("write_pdi_combine_bif", {"hw_pdi", "amc_elf"}, {"pdi_combine_bif"},
       TRUE, FALSE)
generate_design_pdi ==
  Task("generate_design_pdi", {"pdi_combine_bif"}, {"design_pdi"}, TRUE, TRUE)
generate_fpt_setup_pdi ==
  Task("generate_fpt_setup_pdi", {"design_pdi", "fpt_bin"}, {"fpt_setup_pdi"},
       TRUE, TRUE)
create_aved_install_bash ==
  Task("create_aved_install_bash", {}, {"aved_install_sh"}, TRUE, FALSE)
create_version_json ==
  Task("create_version_json", {}, {"version_json"}, TRUE, FALSE)
create_version_full ==
  Task("create_version_full", {"version_json"}, {}, FALSE, FALSE)
create_deployment_zip ==
  Task("create_deployment_zip",
       {"design_pdi", "fpt_setup_pdi", "hw_pdi", "static_xsa", "version_json"}
         \cup (IF XbtestApp THEN XbtestFiles \cup VivadoMetadata ELSE {}),
       {"deploy_zip"}, TRUE, FALSE)

\* run_step_<x>: the tasks between start_step() and end_step().
run_step_hw == IF XbtestApp THEN <<build_hw, get_application_metadata>>
                             ELSE <<build_hw>>
run_step_fw == <<build_amc, build_fpt_bin>>
run_step_pdi == <<write_pdi_combine_bif, generate_design_pdi, generate_fpt_setup_pdi>>
run_step_deploy == <<create_aved_install_bash, create_version_json,
                     create_version_full, create_deployment_zip>>

\* main() runs the steps in the order of SUPPORTED_STEPS.
Tasks == [hw |-> run_step_hw, fw |-> run_step_fw, pdi |-> run_step_pdi,
          deploy |-> run_step_deploy]

\* The files the tasks of step s check after they run, the files they
\* write to its directory, and the step of a file.
StepOutputs(s) == UNION {Tasks[s][i].out : i \in DOMAIN Tasks[s]}
StepFiles(s) ==
  StepOutputs(s) \cup UNION {Unchecked(Tasks[s][i]) : i \in DOMAIN Tasks[s]}
Home(f) == CHOOSE s \in Steps : f \in StepFiles(s)

\* fpt_name and deploy_name end in the invocation's date (fpt_release,
\* deploy_release); a file path is its name and that date, or 0.
AllFiles == UNION {StepFiles(s) : s \in Steps}
DATED == {"fpt_setup_pdi", "deploy_zip"}
Path(f, d) == <<f, IF f \in DATED THEN d ELSE 0>>

Options == [from: Steps \cup {None}, single: Steps \cup {None},
            force: BOOLEAN, deploy: BOOLEAN]
NoOpt == [from |-> None, single |-> None, force |-> FALSE, deploy |-> FALSE]
IsRerun(o) == o.from # None \/ o.single # None

VARIABLES
  outDir,    \* the output directory exists
  bkp,       \* bkp_design holds what backup_sources() checks
  stepDir,   \* stepDir[s]: the directory of step s exists
  files,     \* files[s]: paths of the output files in the directory of s
  done,      \* done[s]: the run that made the outputs in s reached end_step
  inv,       \* number of invocations so far
  day,       \* the calendar
  today,     \* config['now'] of the current or last invocation
  opt,       \* the options of the current invocation
  pc,        \* "idle", "setup", "start", "task", "end"
  cur,       \* index of the current step
  taskIdx,   \* index of the current task in Tasks[STEPS[cur]]
  runStep,   \* config['steps'][s]['run_step']
  visited,   \* steps the current or last invocation has started
  lastExit,  \* exit status of the last invocation
  failure,   \* where the last invocation failed, if it did
  toolErr    \* a tool of the current or last invocation reported an error

vars == <<outDir, bkp, stepDir, files, done, inv, day, today, opt,
          pc, cur, taskIdx, runStep, visited, lastExit, failure, toolErr>>
fsVars == <<outDir, bkp, stepDir, files, done>>

NoFailure == [step |-> None, reused |-> FALSE, wasDone |-> FALSE, check |-> FALSE]

TypeOK ==
  /\ outDir \in BOOLEAN /\ bkp \in BOOLEAN
  /\ stepDir \in [Steps -> BOOLEAN]
  /\ files \in [Steps -> SUBSET (AllFiles \X (0..MaxDay))]
  /\ done \in [Steps -> BOOLEAN]
  /\ inv \in 0..MaxInvocations /\ day \in 1..MaxDay /\ today \in 1..MaxDay
  /\ opt \in Options
  /\ pc \in {"idle", "setup", "start", "task", "end"}
  /\ cur \in 1..4 /\ taskIdx \in 1..4
  /\ runStep \in [Steps -> BOOLEAN]
  /\ visited \subseteq Steps
  /\ lastExit \in {0, 1}
  /\ failure \in [step: Steps \cup {None}, reused: BOOLEAN, wasDone: BOOLEAN,
                  check: BOOLEAN]
  /\ toolErr \in BOOLEAN

Init ==
  /\ outDir = FALSE /\ bkp = FALSE
  /\ stepDir = [s \in Steps |-> FALSE]
  /\ files = [s \in Steps |-> {}]
  /\ done = [s \in Steps |-> FALSE]
  /\ inv = 0 /\ day = 1 /\ today = 1
  /\ opt = NoOpt
  /\ pc = "idle" /\ cur = 1 /\ taskIdx = 1
  /\ runStep = [s \in Steps |-> FALSE]
  /\ visited = {}
  /\ lastExit = 0
  /\ failure = NoFailure
  /\ toolErr = FALSE

\* The invocation ends: exit_error (status 1) or tear_down (status 0).
Exit(status) ==
  /\ pc' = "idle"
  /\ lastExit' = status
  /\ cur' = 1 /\ taskIdx' = 1

\* tear_down(): log the elapsed time and sys.exit(0).
tear_down == Exit(0)

\* exit_error raised while step s runs (run) or is reused (~run).
ExitError(s, run, check) ==
  /\ Exit(1)
  /\ failure' = [step |-> s, reused |-> ~run, wasDone |-> done[s],
                 check |-> check]

\* Time passes between invocations.
NextDay ==
  /\ pc = "idle"
  /\ day < MaxDay
  /\ day' = day + 1
  /\ UNCHANGED <<fsVars, inv, today, opt, pc, cur, taskIdx, runStep, visited,
                 lastExit, failure, toolErr>>

(***************************************************************************)
(* gen_design.py is started with options o on day `day` (config['now']).  *)
(* get_options(): --from_step and --single_step exclude each other; both  *)
(* need an existing output directory; --from_step deploy needs --deploy.  *)
(* The output directory is the one given with --output_dir.               *)
(***************************************************************************)
Invoke ==
  /\ pc = "idle"
  /\ inv < MaxInvocations
  /\ inv' = inv + 1
  /\ today' = day
  /\ runStep' = [s \in Steps |-> FALSE]
  /\ visited' = {}
  /\ failure' = NoFailure
  /\ toolErr' = FALSE
  /\ \E o \in Options :
       /\ opt' = o
       /\ IF \/ o.from # None /\ o.single # None
             \/ IsRerun(o) /\ ~outDir
             \/ o.from = "deploy" /\ ~o.deploy
            THEN Exit(1)
            ELSE pc' = "setup" /\ UNCHANGED <<cur, taskIdx, lastExit>>
  /\ UNCHANGED <<fsVars, day>>

(***************************************************************************)
(* set_up(): load_config_json(), create_output_dir(), backup_sources() and *)
(* write_export_script(), in that order.  json_load() of the configuration *)
(* fails if it is missing or not JSON.  A full build refuses an existing  *)
(* output directory unless --force, which removes it with                 *)
(* force_remove_dir(); it then creates the directory and copies the       *)
(* sources to bkp_design.  Every invocation checks that the backup is     *)
(* there, then writes export.sh, which may raise.                         *)
(***************************************************************************)
\* force_remove_dir() exits: rmtree raised part-way (GEN_DESIGN-40) or the
\* directory is still there (GEN_DESIGN-41), with some step directories
\* (and with them the files of the step) and the backup gone.  A step
\* directory that lost only some files fails the same checks later.
RemovedPart ==
  \E gone \in SUBSET Steps, b \in {bkp, FALSE} :
    /\ stepDir' = [x \in Steps |-> stepDir[x] /\ x \notin gone]
    /\ files' = [x \in Steps |-> IF x \in gone THEN {} ELSE files[x]]
    /\ bkp' = b
    /\ done' = [x \in Steps |-> done[x] /\ x \notin gone]
    /\ UNCHANGED outDir

\* write_export_script(): the open() or chmod of export.sh may raise.
write_export_script ==
  \/ pc' = "start" /\ UNCHANGED <<cur, taskIdx, lastExit>>
  \/ Exit(1)

SetUp ==
  /\ pc = "setup"
  /\ \/ Exit(1) /\ UNCHANGED fsVars
     \/ /\ IsRerun(opt)
        /\ IF bkp THEN write_export_script ELSE Exit(1)
        /\ UNCHANGED fsVars
     \/ /\ ~IsRerun(opt) /\ outDir /\ ~opt.force
        /\ Exit(1) /\ UNCHANGED fsVars
     \/ /\ ~IsRerun(opt) /\ outDir /\ opt.force
        /\ RemovedPart /\ Exit(1)
     \/ /\ ~IsRerun(opt) /\ (~outDir \/ opt.force)
        /\ outDir' = TRUE
        /\ stepDir' = [x \in Steps |-> FALSE]
        /\ files' = [x \in Steps |-> {}]
        /\ done' = [x \in Steps |-> FALSE]
        \* A copy_source_dir() that raises leaves the checked entries,
        \* created before it, in place or not.
        /\ \/ bkp' = TRUE /\ write_export_script
           \/ bkp' \in BOOLEAN /\ Exit(1)
  /\ UNCHANGED <<inv, day, today, opt, runStep, visited, failure, toolErr>>

(***************************************************************************)
(* start_step(): whether the step runs, and for a step before the one      *)
(* resumed from or rerun, that its directory exists.  A directory of a    *)
(* step that runs is removed, and the directory is (re)created.           *)
(***************************************************************************)
RunStepOf(o, s) ==
  IF o.from # None THEN ~(Index(o.from) > Index(s))
  ELSE IF o.single # None THEN Index(o.single) = Index(s)
  ELSE TRUE

MustExist(o, s) ==
  IF o.from # None THEN Index(o.from) > Index(s)
  ELSE o.single # None /\ Index(o.single) > Index(s)

\* os.path.isdir(step_dir) and run_step: force_remove_dir(step_dir).
Removes(s, run) == stepDir[s] /\ run

StartStep ==
  /\ pc = "start"
  /\ LET s == STEPS[cur]
         run == RunStepOf(opt, s)
     IN /\ visited' = visited \cup {s}
        /\ runStep' = [runStep EXCEPT ![s] = run]
        /\ IF MustExist(opt, s) /\ ~stepDir[s]
             THEN ExitError(s, run, TRUE) /\ UNCHANGED <<stepDir, files, done>>
             ELSE \/ /\ stepDir' = [stepDir EXCEPT ![s] = TRUE]
                     /\ files' = IF Removes(s, run)
                                   THEN [files EXCEPT ![s] = {}] ELSE files
                     /\ done' = IF run THEN [done EXCEPT ![s] = FALSE] ELSE done
                     /\ pc' = "task" /\ taskIdx' = 1
                     /\ UNCHANGED <<cur, lastExit, failure>>
                  \* force_remove_dir(): rmtree raises part-way (GEN_DESIGN-40)
                  \* or the directory is still there after it (GEN_DESIGN-41).
                  \/ /\ Removes(s, run)
                     /\ \E left \in SUBSET files[s] :
                          files' = [files EXCEPT ![s] = left]
                     /\ done' = [done EXCEPT ![s] = FALSE]
                     /\ ExitError(s, run, FALSE)
                     /\ UNCHANGED stepDir
  /\ UNCHANGED <<outDir, bkp, inv, day, today, opt, toolErr>>

(***************************************************************************)
(* One task of the current step: check_input_file_exists on its inputs;   *)
(* when is_current_step_run (or the task runs unconditionally) its tool   *)
(* or file write; then check_output_file_exists on its outputs, whether   *)
(* it ran or not.  A tool returns a status and leaves a log, and may have *)
(* written none or all of its outputs whatever it reports (gen_fpt.py     *)
(* exits 0 after a failed write).  A write of the script itself either    *)
(* completes, writing all outputs, or raises (status 1 below) after       *)
(* writing none or all of them.                                           *)
(***************************************************************************)
\* Lines of a tool log: an error with a message id, an info line, and an
\* error without one.
LogLines == {"ERROR: [Vivado 12-1]", "INFO: [Vivado 12-1]", "ERROR: Vivado 1"}

Outcomes(t) ==
  IF t.tool THEN [status: {0, 1}, log: SUBSET LogLines]
            ELSE [status: {0, 1}, log: {{}}]

\* Mutant: the pattern is compared with a slice one character short, as in
\* the check_log_error() of the AMI build (sw/AMI/build/pkg.py:160).
check_log_errorShort(log) == \E line \in log : "ERROR: [" = SubSeq(line, 1, 7)

\* check_log_error(): some line starts with 'ERROR: [' (every line of
\* LogLines is at least as long as the pattern).
check_log_error(log) == \E line \in log : "ERROR: [" = SubSeq(line, 1, 8)

\* What a tool reports, by the comment of check_log_error(): a non-zero
\* status, or a message starting with the error pattern.
ErrorPattern == "ERROR: ["
ReportsError(o) ==
  \/ o.status # 0
  \/ \E line \in o.log : Len(line) >= Len(ErrorPattern)
                        /\ SubSeq(line, 1, Len(ErrorPattern)) = ErrorPattern

\* exec_step_cmd() (ignore_error and expect_fail are never set by
\* gen_design.py): check_log_error() on the log, then the return code.
ToolFails(o) == check_log_error(o.log) \/ o.status # 0

\* Mutant: check_output_file_exists() does not raise.
CheckedNever(present, outputs) == TRUE

\* check_output_file_exists() on every output of a task.
Checked(present, outputs) == outputs \subseteq present

RunTask ==
  /\ pc = "task"
  /\ LET s == STEPS[cur]
         t == Tasks[s][taskIdx]
         run == runStep[s]
         outputs == {Path(f, today) : f \in t.out}
         extra == {Path(f, today) : f \in Unchecked(t)}
         inputsOK == \A f \in t.in : Path(f, today) \in files[Home(f)]
         Continue == IF taskIdx < Len(Tasks[s])
                       THEN taskIdx' = taskIdx + 1 /\ UNCHANGED pc
                       ELSE pc' = "end" /\ UNCHANGED taskIdx
         CheckOutputs(present) ==
           IF Checked(present, outputs)
             THEN Continue /\ UNCHANGED <<cur, lastExit, failure>>
             ELSE ExitError(s, run, TRUE)
     IN \/ /\ ~inputsOK
           /\ ExitError(s, run, TRUE) /\ UNCHANGED <<files, toolErr>>
        \/ /\ inputsOK /\ (run \/ ~t.guarded)
           /\ \E o \in Outcomes(t) :
              \E written \in IF t.tool \/ o.status # 0
                               THEN {{}, outputs, outputs \cup extra}
                               ELSE {outputs} :
                LET present == files[s] \cup written
                    fails == IF t.tool THEN ToolFails(o) ELSE o.status # 0
                IN /\ files' = [files EXCEPT ![s] = present]
                   /\ toolErr' = (toolErr \/ (t.tool /\ ReportsError(o)))
                   /\ IF fails THEN ExitError(s, run, FALSE)
                                ELSE CheckOutputs(present)
        \/ /\ inputsOK /\ ~(run \/ ~t.guarded)
           /\ CheckOutputs(files[s])
           /\ UNCHANGED <<files, toolErr>>
  /\ UNCHANGED <<outDir, bkp, stepDir, done, inv, day, today, opt, runStep,
                 visited>>

(***************************************************************************)
(* end_step(), then main(): --single_step ends after its step; otherwise  *)
(* hw, fw and pdi follow each other, deploy follows with --deploy, and    *)
(* tear_down() exits with status 0.                                       *)
(***************************************************************************)
\* Mutant: main() has no stop after the last step of the sequence.
EndsAfterNoLast(s) == opt.single = s \/ (cur = 3 /\ ~opt.deploy)

\* The invocation ends after step s: the --single_step check of
\* end_step(), or s is the last step main() calls.
EndsAfter(s) == opt.single = s \/ cur = 4 \/ (cur = 3 /\ ~opt.deploy)

EndStep ==
  /\ pc = "end"
  /\ LET s == STEPS[cur] IN
       /\ done' = IF runStep[s] THEN [done EXCEPT ![s] = TRUE] ELSE done
       /\ IF EndsAfter(s)
            THEN tear_down
            ELSE cur' = cur + 1 /\ pc' = "start" /\ UNCHANGED <<taskIdx, lastExit>>
  /\ UNCHANGED <<outDir, bkp, stepDir, files, inv, day, today, opt, runStep,
                 visited, failure, toolErr>>

Next == NextDay \/ Invoke \/ SetUp \/ StartStep \/ RunTask \/ EndStep

Spec == Init /\ [][Next]_vars
-----------------------------------------------------------------------------
\* The last invocation ended with tear_down().
Succeeded == pc = "idle" /\ inv > 0 /\ lastExit = 0

(***************************************************************************)
(* An invocation that exits 0 leaves, for every step it started, all the  *)
(* outputs of that step's tasks under the names of its own date: whether  *)
(* the step was rerun or reused from an earlier build, whatever earlier   *)
(* invocations failed where, and whatever the directory held before.      *)
(***************************************************************************)
CompleteRunHasAllOutputs ==
  Succeeded =>
    \A s \in visited : \A f \in StepOutputs(s) : Path(f, today) \in files[s]

(***************************************************************************)
(* The comment of check_log_error(): a tool that logs a line starting     *)
(* with 'ERROR: [' has failed, whatever its return code.  No invocation   *)
(* exits 0 after one of its tools logged such a line or returned a        *)
(* non-zero status, even when the tool wrote all its outputs.             *)
(***************************************************************************)
ToolErrorsFail == Succeeded => ~toolErr

(***************************************************************************)
(* The --single_step help text, "rerun ... executing only given step": an *)
(* invocation with --single_step S that exits 0 has run S.                *)
(***************************************************************************)
SingleStepRuns ==
  Succeeded /\ opt.single # None => runStep[opt.single]

(***************************************************************************)
(* The --from_step help text: a build can be restarted from a step when   *)
(* the outputs of the preceding steps exist.  No check of a resumed or    *)
(* rerun invocation (start_step's directory test, check_input_file_exists *)
(* or check_output_file_exists) rejects a reused step whose last run      *)
(* completed (reached end_step).  A tool or copy that fails while a       *)
(* reused step is visited is not a rejection by a check.                  *)
(***************************************************************************)
ReusedCompletedStepAccepted ==
  failure.reused /\ failure.check => ~failure.wasDone
=============================================================================
