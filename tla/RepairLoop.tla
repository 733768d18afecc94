----------------------------- MODULE RepairLoop -----------------------------
(* One build: the graph of src/graph, run by build_work in src/service/app.py.

   plan -> genui -> logic -> qa -> package, with a repair edge from qa back to
   the agent that owns the errors.  A file is a path, since what its text says
   is known here only by what the checks report of it; what the generator
   writes and what the checks report is open.  Of a diagnostic there are its
   path and its code ("analyzer" is any code of the SDK's); its line and its
   message are left out, so that a set of diagnostics is its own signature.  Only fatal diagnostics (is_fatal) are modelled.  Each
   action is a node of the graph; Route is the edge that leaves qa. *)
EXTENDS Naturals

CONSTANTS
  UiFiles,        \* paths under lib/ui/
  ProviderFiles,  \* paths under lib/providers/, and lib/main.dart
  OtherFiles,     \* other paths under lib/: models, services
  FrozenFiles,    \* what planning wrote: pubspec.yaml, DESIGN.md
  Reports,        \* diagnostics that the checks may report
  MaxRepairs,     \* SUPERVISOR_MAX_REPAIRS
  Attempts        \* bound: how often a worker starts this job

LogicFiles == ProviderFiles \cup OtherFiles
Paths == UiFiles \cup LogicFiles \cup FrozenFiles

\* Codes whose owner does not follow from the path, and the others.
ForGenui  == {"setstate_in_ui", "logic_in_ui", "theme_mismatch", "missing_screen",
              "unreachable_screen", "missing_form_field", "smoke_failure",
              "misplaced_entrypoint", "genui_lane_violation", "duplicate_declaration"}
ForLogic  == {"undefined_provider", "ui_in_logic", "logic_lane_violation",
              "missing_provider", "wrong_collection"}
ForNobody == {"missing_pubspec", "incomplete_pubspec", "unparseable_pubspec",
              "lints_not_installed"}
ByPath    == {"unwired_declaration", "unbalanced_braces",
              "consumer_state_build_signature", "analyzer"}

Diagnostic == [file : Paths, code : ForGenui \cup ForLogic \cup ForNobody \cup ByPath]

ASSUME RepairAssumption ==
  /\ UiFiles \cap LogicFiles = {} /\ ProviderFiles \cap OtherFiles = {}
  /\ FrozenFiles \cap (UiFiles \cup LogicFiles) = {}
  /\ Reports \subseteq Diagnostic
  /\ MaxRepairs \in Nat
  /\ Attempts \in Nat

VARIABLES
  pc,        \* the node that runs next
  verified,  \* x402_payment_verified: a paid build, not a preview
  ui,        \* ui_files
  prov,      \* provider_files
  uiBad,     \* genui_violations
  logicBad,  \* logic_violations
  diags,     \* diagnostics, and their signature
  stalled,
  repairs,   \* repair_attempts
  written,   \* written_files
  phase,
  apk,       \* apk_path is set
  status,    \* of the job, once build_work is done with it
  disk,      \* lib/ in the build directory
  attempt,   \* which start of the job this is
  before,    \* history: what this start found in the build directory
  told,      \* history: errors, unchanged since, that their owner was given
  steps      \* history: nodes run by this start

agentVars == <<ui, prov, uiBad, logicBad>>
qaVars    == <<diags, stalled, repairs, written, disk>>
jobVars   == <<verified, attempt, before>>
vars == <<pc, phase, apk, status, told, steps, agentVars, qaVars, jobVars>>

Nodes == {"plan", "genui", "logic", "qa", "package"}
App   == ui \cup prov

Init ==
  /\ pc = "plan" /\ phase = "planning" /\ status = "running" /\ apk = FALSE
  /\ ui = {} /\ prov = {} /\ uiBad = {} /\ logicBad = {}
  /\ diags = {} /\ stalled = FALSE /\ repairs = 0 /\ written = {}
  /\ told = {} /\ steps = 0
  /\ verified \in BOOLEAN
  /\ disk = {} /\ before = {} /\ attempt = 1

-----------------------------------------------------------------------------
(* Ownership and routing.                                                   *)

Owner(d) ==
  IF d.code \in ForGenui THEN "genui"
  ELSE IF d.code \in ForLogic THEN "logic"
  ELSE IF d.code \in ForNobody THEN "fatal"
  ELSE IF d.file \in UiFiles THEN "genui"
  ELSE IF d.file \in ProviderFiles THEN "logic"
  ELSE "fatal"

Owned(ds, agent) == {d \in ds : Owner(d) = agent}

\* Mutant: Logic wins a mixed batch.
RouteForLogic(ds) ==
  IF Owned(ds, "fatal") # {} THEN "finish"
  ELSE IF Owned(ds, "logic") # {} THEN "logic" ELSE "genui"

\* Where a batch of errors goes; GenUI wins a mixed one, as Logic runs after it.
RouteFor(ds) ==
  IF Owned(ds, "fatal") # {} THEN "finish"
  ELSE IF Owned(ds, "genui") # {} THEN "genui" ELSE "logic"

OtherAgent(node) ==
  CASE node = "genui" -> "logic" [] node = "logic" -> "genui"
    [] OTHER -> node

\* Mutant: one repair pass too many.
RouterLenient ==
  IF phase = "failed" THEN "finish"
  ELSE IF diags = {} THEN "package"
  ELSE IF repairs > MaxRepairs + 1 THEN "finish"
  ELSE IF stalled THEN OtherAgent(RouteFor(diags)) ELSE RouteFor(diags)

\* route_after_qa
Router ==
  IF phase = "failed" THEN "finish"
  ELSE IF diags = {} THEN "package"
  ELSE IF repairs > MaxRepairs THEN "finish"
  ELSE IF stalled THEN OtherAgent(RouteFor(diags)) ELSE RouteFor(diags)

\* Mutant: also in a stalled round only its own.
BatchOwned(agent) == Owned(diags, agent)

\* What an agent is given: its own, or in a stalled round the whole batch.
Batch(agent) == IF stalled THEN diags ELSE Owned(diags, agent)

LaneErrors(files, lane) == {[file |-> f, code |-> lane] : f \in files}

-----------------------------------------------------------------------------
(* The nodes.                                                               *)

RunNode(node, next, ph) ==
  /\ pc = node /\ pc' = next
  /\ phase' = ph
  /\ steps' = steps + 1

Plan ==
  /\ RunNode("plan", "genui", "genui")
  /\ UNCHANGED <<apk, status, told, agentVars, qaVars, jobVars>>

\* Mutant: out-of-lane files are reported but not dropped.
GenuiUnfiltered ==
  /\ RunNode("genui", "logic", "logic")
  /\ \E files \in SUBSET Paths :
       /\ ui' = IF Batch("genui") # {} THEN ui \cup files ELSE files
       /\ uiBad' = LaneErrors(files \ UiFiles, "genui_lane_violation")
  /\ told' = told \cup Owned(Batch("genui"), "genui")
  /\ UNCHANGED <<apk, status, prov, logicBad, qaVars, jobVars>>

\* A repair pass adds to the files there are, any other replaces them.
GenuiWrites(files) ==
  /\ RunNode("genui", "logic", "logic")
  /\ ui' = (IF Batch("genui") # {} THEN ui ELSE {}) \cup (files \cap UiFiles)
  /\ uiBad' = LaneErrors(files \ UiFiles, "genui_lane_violation")
  /\ told' = told \cup Owned(Batch("genui"), "genui")
  /\ UNCHANGED <<apk, status, prov, logicBad, qaVars, jobVars>>

Genui == \E files \in SUBSET Paths : GenuiWrites(files)

LogicWrites(files) ==
  /\ RunNode("logic", "qa", "qa")
  /\ prov' = (IF Batch("logic") # {} THEN prov ELSE {}) \cup (files \cap LogicFiles)
  /\ logicBad' = LaneErrors(files \ LogicFiles, "logic_lane_violation")
  /\ told' = told \cup Owned(Batch("logic"), "logic")
  /\ UNCHANGED <<apk, status, ui, uiBad, qaVars, jobVars>>

Logic == \E files \in SUBSET Paths : LogicWrites(files)

\* Mutant: what Logic wrote is not written out.
MaterialiseUi == disk' = (disk \ (written \ App)) \cup ui

\* The app is written out, and what earlier rounds wrote and it no longer has
\* is removed.
Materialise == disk' = (disk \ (written \ App)) \cup App

\* The analyzer, the conformance checks and the test runner: an error that is
\* placed by its path is in a file they were given.
Found == {d \in Reports :
            d.code \in ByPath => d.file \in disk' \cup FrozenFiles}

\* The end of a qa round.  `errors` is compared with the round before it.
Grade(errors) ==
  /\ diags' = errors
  /\ stalled' = (errors # {} /\ errors = diags)
  /\ repairs' = IF errors # {} THEN repairs + 1 ELSE repairs
  /\ written' = App
  /\ told' = IF errors = diags THEN told ELSE {}
  /\ RunNode("qa", "route", IF errors = {} THEN "packaging" ELSE "qa")

\* Mutant: files of earlier rounds stay on disk.
QaKeepsFiles ==
  /\ disk' = disk \cup App
  /\ \E found \in SUBSET Found : Grade(found \cup uiBad \cup logicBad)
  /\ UNCHANGED <<apk, status, agentVars, jobVars>>

QaReports(found) ==
  /\ Materialise
  /\ Grade(found \cup uiBad \cup logicBad)
  /\ UNCHANGED <<apk, status, agentVars, jobVars>>

Qa == Materialise /\ \E found \in SUBSET Found : QaReports(found)

\* ToolchainUnavailable: nothing but the phase is returned.
QaUnavailable ==
  /\ RunNode("qa", "route", "failed")
  /\ Materialise
  /\ UNCHANGED <<apk, status, told, agentVars, diags, stalled, repairs,
                 written, jobVars>>

Route ==
  /\ pc = "route" /\ pc' = Router
  /\ UNCHANGED <<phase, apk, status, told, steps, agentVars, qaVars, jobVars>>

\* run_build: the payment gate, then "skipped" (no Flutter), "failed" or an APK.
Package ==
  /\ \/ /\ verified
        /\ \/ RunNode("package", "finish", "done") /\ apk' \in BOOLEAN
           \/ RunNode("package", "finish", "failed") /\ UNCHANGED apk
     \/ ~verified /\ RunNode("package", "finish", "done") /\ UNCHANGED apk
  /\ UNCHANGED <<status, told, agentVars, qaVars, jobVars>>

-----------------------------------------------------------------------------
(* build_work, and the worker around it.                                    *)

\* Mutant: only the phase is looked at.
FinishByPhase ==
  /\ pc = "finish" /\ pc' = "end"
  /\ status' = IF phase = "failed" THEN "failed" ELSE "succeeded"
  /\ UNCHANGED <<phase, apk, told, steps, agentVars, qaVars, jobVars>>

\* What the job becomes; a preview with an APK is refused once more.
Finish ==
  /\ pc = "finish" /\ pc' = "end"
  /\ status' = IF phase = "failed" \/ diags # {} \/ (apk /\ ~verified)
               THEN "failed" ELSE "succeeded"
  /\ UNCHANGED <<phase, apk, told, steps, agentVars, qaVars, jobVars>>

\* A node raises (the generator, the file system): the worker fails the job.
Raise ==
  /\ pc \in Nodes /\ pc' = "end"
  /\ status' = "failed"
  /\ UNCHANGED <<phase, apk, told, steps, agentVars, qaVars, jobVars>>

\* The worker dies.  The job is requeued and started afresh, in the directory
\* the dead attempt leaves: build_work makes it if it is not there.
Restart ==
  /\ pc # "end" /\ attempt < Attempts
  /\ pc' = "plan" /\ phase' = "planning" /\ status' = "running" /\ apk' = FALSE
  /\ ui' = {} /\ prov' = {} /\ uiBad' = {} /\ logicBad' = {}
  /\ diags' = {} /\ stalled' = FALSE /\ repairs' = 0 /\ written' = {}
  /\ told' = {} /\ steps' = 0
  /\ attempt' = attempt + 1
  /\ before' = disk
  /\ UNCHANGED <<verified, disk>>

Next ==
  \/ Plan \/ Genui \/ Logic \/ Qa \/ QaUnavailable \/ Route \/ Package
  \/ Finish \/ Raise \/ Restart

Spec == Init /\ [][Next]_vars
-----------------------------------------------------------------------------
(* Properties.                                                              *)

\* With the lanes: neither agent's files ever hold a path of the other's.
TypeOK ==
  /\ pc \in Nodes \cup {"route", "finish", "end"}
  /\ verified \in BOOLEAN /\ stalled \in BOOLEAN /\ apk \in BOOLEAN
  /\ ui \subseteq UiFiles /\ prov \subseteq LogicFiles
  /\ uiBad \subseteq Diagnostic /\ logicBad \subseteq Diagnostic
  /\ diags \subseteq Diagnostic /\ told \subseteq Diagnostic
  /\ written \subseteq Paths /\ disk \subseteq Paths /\ before \subseteq Paths
  /\ phase \in Nodes \cup {"planning", "packaging", "done", "failed"}
  /\ status \in {"running", "succeeded", "failed"}
  /\ repairs \in Nat /\ steps \in Nat /\ attempt \in Nat

\* However the rounds end, stalled or not, a start of the job runs no more
\* nodes than the budget allows (nodes.py, the counter "ticks once per failed
\* analysis, regardless of how many agents the router then involves").
WithinBudget == steps <= 3 * MaxRepairs + 5

\* A build is never called a success over errors or lane violations that the
\* last analysis left, although a loop that gives up ends in phase "qa", not in
\* "failed"; and only a paid one has an APK, from clean code.
CleanSuccess ==
  /\ status = "succeeded" => diags = {} /\ uiBad = {} /\ logicBad = {}
  /\ apk => verified /\ diags = {}

\* A round counts as stalled, which takes the errors from their owner, only
\* when each error's owner was given it before (nodes.py, "The owner had its
\* turn and changed nothing").
OwnersHadTurn == pc = "route" /\ stalled => diags \subseteq told

Analysed == pc \in {"route", "package", "finish"}

\* What is analysed and packaged beside the app's own files was there before
\* this start: no round leaves a file of an earlier one (nodes.py, "Remove
\* anything we wrote on a previous pass that is no longer part of the app").
NoRoundLeaves == Analysed => disk \ App \subseteq before

\* The same of a job's starts: the directory holds the app and nothing else.
AppOnly == Analysed => disk = App

\* A build gives up with repairs left only over what no agent may write
\* (builder.py, "Planning output ... is frozen once GenUI starts, so
\* diagnostics against it fail the build rather than looping").
Unfixable(d) == \/ d.code \in ForNobody
                \/ d.code \in ByPath /\ d.file \in FrozenFiles
GivesUpOnFrozen ==
  pc = "finish" /\ phase = "qa" /\ repairs <= MaxRepairs =>
    \E d \in diags : Unfixable(d)
=============================================================================
