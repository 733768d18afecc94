-------------------------- MODULE RepairLoopProofs --------------------------
(***************************************************************************)
(* Theorems about RepairLoop, for any files, any diagnostics the checks    *)
(* may report, any repair budget and any number of starts of a job.        *)
(***************************************************************************)
EXTENDS RepairLoop, TLAPS

-----------------------------------------------------------------------------
(* Ownership and routing.                                                   *)

\* Every diagnostic has exactly one of three owners.
LEMMA OwnerTyped ==
  ASSUME NEW d \in Diagnostic PROVE Owner(d) \in {"genui", "logic", "fatal"}
  BY DEF Owner

\* The errors that lane violations are made into are diagnostics.
LEMMA LaneTyped ==
  ASSUME NEW files \in SUBSET Paths, NEW lane \in {"genui_lane_violation", "logic_lane_violation"}
  PROVE  LaneErrors(files, lane) \subseteq Diagnostic
  BY DEF LaneErrors, Diagnostic, ForGenui, ForLogic

\* Where qa can lead, and under which conditions.
LEMMA RouterLeads ==
  /\ Router \in {"genui", "logic", "package", "finish"}
  /\ Router = "package" => phase # "failed" /\ diags = {}
  /\ Router \in {"genui", "logic"} =>
       /\ phase # "failed" /\ diags # {} /\ ~(repairs > MaxRepairs)
       /\ Owned(diags, "fatal") = {}
  /\ Router = "logic" => stalled \/ Owned(diags, "genui") = {}
  /\ Router = "finish" /\ phase # "failed" => diags # {}
  BY DEF Router, RouteFor, OtherAgent

-----------------------------------------------------------------------------
(* Types and lanes.                                                         *)

LEMMA TypeInit == Init => TypeOK
<1> SUFFICES ASSUME Init PROVE TypeOK
  OBVIOUS
<1>1. verified \in BOOLEAN /\ stalled \in BOOLEAN /\ apk \in BOOLEAN
  BY Zenon DEF Init
<1> QED
  BY <1>1 DEF Init, TypeOK, Nodes

LEMMA TypeStep == TypeOK /\ [Next]_vars => TypeOK'
<1> SUFFICES ASSUME TypeOK, [Next]_vars PROVE TypeOK'
  OBVIOUS
<1> USE DEF TypeOK, Nodes, RunNode, agentVars, qaVars, jobVars
<1>1. CASE Plan
  BY <1>1 DEF Plan
<1>2. CASE Genui
  <2> PICK files \in SUBSET Paths :
        /\ ui' = (IF Batch("genui") # {} THEN ui ELSE {}) \cup (files \cap UiFiles)
        /\ uiBad' = LaneErrors(files \ UiFiles, "genui_lane_violation")
    BY <1>2 DEF Genui, GenuiWrites
  <2>1. uiBad' \subseteq Diagnostic
    BY LaneTyped
  <2>2. told' \subseteq Diagnostic
    BY <1>2 DEF Genui, GenuiWrites, Owned, Batch
  <2> QED
    BY <1>2, <2>1, <2>2 DEF Genui, GenuiWrites
<1>3. CASE Logic
  <2> PICK files \in SUBSET Paths :
        /\ prov' = (IF Batch("logic") # {} THEN prov ELSE {})
                     \cup (files \cap LogicFiles)
        /\ logicBad' = LaneErrors(files \ LogicFiles, "logic_lane_violation")
    BY <1>3 DEF Logic, LogicWrites
  <2>1. logicBad' \subseteq Diagnostic
    BY LaneTyped
  <2>2. told' \subseteq Diagnostic
    BY <1>3 DEF Logic, LogicWrites, Owned, Batch
  <2>3. prov' \subseteq LogicFiles
    OBVIOUS
  <2>4. /\ pc' = "qa" /\ phase' = "qa" /\ steps' = steps + 1
        /\ UNCHANGED <<apk, status, ui, uiBad, qaVars, jobVars>>
    BY <1>3 DEF Logic, LogicWrites
  <2> QED
    BY <2>1, <2>2, <2>3, <2>4
<1>4. CASE Qa
  <2> PICK found \in SUBSET Found : Grade(found \cup uiBad \cup logicBad)
    BY <1>4 DEF Qa, QaReports
  <2>1. found \cup uiBad \cup logicBad \subseteq Diagnostic
    BY RepairAssumption DEF Found
  <2>2. App \subseteq Paths
    BY DEF App, Paths
  <2>3. disk' \subseteq Paths
    BY <1>4, <2>2 DEF Qa, QaReports, Materialise
  <2> QED
    BY <1>4, <2>1, <2>2, <2>3 DEF Qa, QaReports, Grade
<1>5. CASE QaUnavailable
  <2>1. disk' \subseteq Paths
    BY <1>5 DEF QaUnavailable, Materialise, App, Paths
  <2> QED
    BY <1>5, <2>1 DEF QaUnavailable
<1>6. CASE Route
  BY <1>6, RouterLeads DEF Route
<1>7. CASE Package
  BY <1>7 DEF Package
<1>8. CASE Finish
  BY <1>8 DEF Finish
<1>9. CASE Raise
  BY <1>9 DEF Raise
<1>10. CASE Restart
  <2>1. stalled' \in BOOLEAN /\ apk' \in BOOLEAN
    BY <1>10, Zenon DEF Restart
  <2> QED
    BY <1>10, <2>1 DEF Restart
<1>11. CASE UNCHANGED vars
  BY <1>11 DEF vars
<1> QED
  BY <1>1, <1>2, <1>3, <1>4, <1>5, <1>6, <1>7, <1>8, <1>9, <1>10, <1>11 DEF Next

\* Types, and the lanes: no path of the one agent ever gets into the files of
\* the other, whatever a generator returns (nodes.py, "Drop *and* report").
THEOREM TypeCorrect == Spec => []TypeOK
<1>1. Init => TypeOK
  BY TypeInit
<1>2. TypeOK /\ [Next]_vars => TypeOK'
  BY TypeStep
<1> QED
  BY <1>1, <1>2, PTL DEF Spec

-----------------------------------------------------------------------------
(* The budget.  At each node the nodes run so far are counted from the        *)
(* repairs that were started.                                               *)

BudgetInv ==
  /\ pc = "plan"  => steps = 0 /\ repairs = 0
  /\ pc = "genui" => steps <= 3 * repairs + 1 /\ repairs <= MaxRepairs
  /\ pc = "logic" => steps <= 3 * repairs + 2 /\ repairs <= MaxRepairs
  /\ pc = "qa"    => steps <= 3 * repairs + 3 /\ repairs <= MaxRepairs
  /\ pc = "route" =>
       \/ steps <= 3 * repairs + 4 /\ repairs <= MaxRepairs
            /\ (diags = {} \/ phase = "failed")
       \/ steps <= 3 * repairs + 1 /\ repairs <= MaxRepairs + 1
  /\ pc = "package" => steps <= 3 * MaxRepairs + 4
  /\ pc \in {"finish", "end"} => steps <= 3 * MaxRepairs + 5

LEMMA BudgetStep == TypeOK /\ BudgetInv /\ [Next]_vars => BudgetInv'
<1> SUFFICES ASSUME TypeOK, BudgetInv, [Next]_vars PROVE BudgetInv'
  OBVIOUS
<1> USE RepairAssumption DEF BudgetInv, RunNode, agentVars, qaVars
<1> repairs \in Nat /\ steps \in Nat /\ MaxRepairs \in Nat
  BY DEF TypeOK
<1>1. CASE Plan
  BY <1>1 DEF Plan
<1>2. CASE Genui
  BY <1>2 DEF Genui, GenuiWrites
<1>3. CASE Logic
  BY <1>3 DEF Logic, LogicWrites
<1>4. CASE Qa
  <2> PICK found \in SUBSET Found : Grade(found \cup uiBad \cup logicBad)
    BY <1>4 DEF Qa, QaReports
  <2> QED
    BY DEF Grade
<1>5. CASE QaUnavailable
  BY <1>5 DEF QaUnavailable
<1>6. CASE Route
  BY <1>6, RouterLeads DEF Route
<1>7. CASE Package
  BY <1>7 DEF Package
<1>8. CASE Finish
  BY <1>8 DEF Finish
<1>9. CASE Raise
  BY <1>9 DEF Raise, Nodes
<1>10. CASE Restart
  BY <1>10 DEF Restart
<1>11. CASE UNCHANGED vars
  BY <1>11 DEF vars
<1> QED
  BY <1>1, <1>2, <1>3, <1>4, <1>5, <1>6, <1>7, <1>8, <1>9, <1>10, <1>11 DEF Next

LEMMA BudgetBounds == TypeOK /\ BudgetInv => WithinBudget
  BY RepairAssumption DEF TypeOK, BudgetInv, WithinBudget, Nodes

\* The loop ends within its budget, however rounds stall and whichever agents
\* they go to: a start of a job runs at most 3 * MaxRepairs + 5 nodes.
THEOREM BudgetKept == Spec => []WithinBudget
<1>1. Init => TypeOK /\ BudgetInv
  BY TypeInit DEF Init, BudgetInv
<1>2. TypeOK /\ BudgetInv /\ [Next]_vars => TypeOK' /\ BudgetInv'
  BY TypeStep, BudgetStep
<1>3. TypeOK /\ BudgetInv => WithinBudget
  BY BudgetBounds
<1> QED
  BY <1>1, <1>2, <1>3, PTL DEF Spec

-----------------------------------------------------------------------------
(* Honest results.                                                          *)

CleanInv ==
  /\ pc \in {"route", "finish"} =>
       phase = "failed" \/ uiBad \cup logicBad \subseteq diags
  /\ pc = "package" => diags = {} /\ uiBad = {} /\ logicBad = {}
  /\ apk => pc \in {"finish", "end"} /\ verified /\ diags = {}
  /\ status = "succeeded" =>
       pc = "end" /\ diags = {} /\ uiBad = {} /\ logicBad = {}

LEMMA CleanInit == Init => CleanInv
  BY DEF Init, CleanInv

LEMMA CleanStep == TypeOK /\ CleanInv /\ [Next]_vars => CleanInv'
<1> SUFFICES ASSUME TypeOK, CleanInv, [Next]_vars PROVE CleanInv'
  OBVIOUS
<1> USE DEF CleanInv, RunNode, agentVars, qaVars, jobVars
<1>1. CASE Plan
  BY <1>1 DEF Plan
<1>2. CASE Genui
  BY <1>2 DEF Genui, GenuiWrites
<1>3. CASE Logic
  BY <1>3 DEF Logic, LogicWrites
<1>4. CASE Qa
  <2> PICK found \in SUBSET Found : Grade(found \cup uiBad \cup logicBad)
    BY <1>4 DEF Qa, QaReports
  <2> QED
    BY <1>4 DEF Qa, QaReports, Grade
<1>5. CASE QaUnavailable
  BY <1>5 DEF QaUnavailable
<1>6. CASE Route
  BY <1>6, RouterLeads DEF Route
<1>7. CASE Package
  BY <1>7 DEF Package
<1>8. CASE Finish
  BY <1>8 DEF Finish
<1>9. CASE Raise
  BY <1>9 DEF Raise, Nodes
<1>10. CASE Restart
  BY <1>10 DEF Restart
<1>11. CASE UNCHANGED vars
  BY <1>11 DEF vars
<1> QED
  BY <1>1, <1>2, <1>3, <1>4, <1>5, <1>6, <1>7, <1>8, <1>9, <1>10, <1>11 DEF Next

\* A build that is called a success is clean, and an APK is paid for and made of
\* clean code, however the loop came to its end and whoever restarted it.
THEOREM SuccessIsClean == Spec => []CleanSuccess
<1>1. Init => TypeOK /\ CleanInv
  BY TypeInit, CleanInit
<1>2. TypeOK /\ CleanInv /\ [Next]_vars => TypeOK' /\ CleanInv'
  BY TypeStep, CleanStep
<1>3. CleanInv => CleanSuccess
  BY DEF CleanInv, CleanSuccess
<1> QED
  BY <1>1, <1>2, <1>3, PTL DEF Spec

-----------------------------------------------------------------------------
(* Turns.  In front of qa, every error of the round before has been given to *)
(* its owner: to GenUI if it went first, and in any case to Logic.           *)

TurnInv ==
  /\ stalled => diags \subseteq told
  /\ pc \in {"plan", "genui", "logic", "qa"} => Owned(diags, "fatal") = {}
  /\ pc = "logic" => Owned(diags, "genui") \subseteq told
  /\ pc = "qa" => diags \subseteq told

\* What an agent owns is in its batch, in a stalled round and in any other.
LEMMA BatchHasOwned ==
  ASSUME NEW agent \in {"genui", "logic"}
  PROVE  Owned(Batch(agent), agent) = Owned(diags, agent)
  BY DEF Batch, Owned

LEMMA TurnStep == TypeOK /\ TurnInv /\ [Next]_vars => TurnInv'
<1> SUFFICES ASSUME TypeOK, TurnInv, [Next]_vars PROVE TurnInv'
  OBVIOUS
<1> USE DEF TurnInv, RunNode, agentVars, qaVars, jobVars
<1>1. CASE Plan
  BY <1>1 DEF Plan, Owned
<1>2. CASE Genui
  BY <1>2, BatchHasOwned DEF Genui, GenuiWrites, Owned
<1>3. CASE Logic
  <2>1. told' = told \cup Owned(diags, "logic") /\ diags' = diags
    BY <1>3, BatchHasOwned DEF Logic, LogicWrites
  <2>2. diags \subseteq told'
    <3> SUFFICES ASSUME NEW d \in diags PROVE d \in told'
      OBVIOUS
    <3>1. Owner(d) \in {"genui", "logic", "fatal"}
      BY OwnerTyped DEF TypeOK
    <3>2. Owned(diags, "fatal") = {} /\ Owned(diags, "genui") \subseteq told
      BY <1>3 DEF Logic, LogicWrites
    <3> QED
      BY <2>1, <3>1, <3>2 DEF Owned
  <2> QED
    BY <1>3, <2>1, <2>2 DEF Logic, LogicWrites, Owned
<1>4. CASE Qa
  <2> PICK found \in SUBSET Found : Grade(found \cup uiBad \cup logicBad)
    BY <1>4 DEF Qa, QaReports
  <2> QED
    BY DEF Grade
<1>5. CASE QaUnavailable
  BY <1>5 DEF QaUnavailable
<1>6. CASE Route
  <2>1. pc' = Router /\ UNCHANGED <<diags, told, stalled>>
    BY <1>6 DEF Route
  <2> QED
    BY <2>1, RouterLeads DEF Owned
<1>7. CASE Package
  BY <1>7 DEF Package
<1>8. CASE Finish
  BY <1>8 DEF Finish
<1>9. CASE Raise
  BY <1>9 DEF Raise, Nodes
<1>10. CASE Restart
  BY <1>10 DEF Restart, Owned
<1>11. CASE UNCHANGED vars
  BY <1>11 DEF vars, Owned
<1> QED
  BY <1>1, <1>2, <1>3, <1>4, <1>5, <1>6, <1>7, <1>8, <1>9, <1>10, <1>11 DEF Next

\* Errors are taken from their owner as stalled only after it was given them.
THEOREM OwnersFirst == Spec => []OwnersHadTurn
<1>1. Init => TypeOK /\ TurnInv
  BY TypeInit DEF Init, TurnInv, Owned
<1>2. TypeOK /\ TurnInv /\ [Next]_vars => TypeOK' /\ TurnInv'
  BY TypeStep, TurnStep
<1>3. TurnInv => OwnersHadTurn
  BY DEF TurnInv, OwnersHadTurn
<1> QED
  BY <1>1, <1>2, <1>3, PTL DEF Spec

-----------------------------------------------------------------------------
(* The build directory.  What is in it was found there or is on the list of  *)
(* what this start wrote, which is what the next round cleans up from.       *)

DiskInv ==
  /\ pc \in {"plan", "genui", "logic", "qa"} => disk \subseteq before \cup written
  /\ pc = "route" /\ phase # "failed" => written = App
  /\ NoRoundLeaves

LEMMA DiskStep == TypeOK /\ DiskInv /\ [Next]_vars => DiskInv'
<1> SUFFICES ASSUME TypeOK, DiskInv, [Next]_vars PROVE DiskInv'
  OBVIOUS
<1> USE DEF DiskInv, NoRoundLeaves, Analysed, RunNode, agentVars, qaVars, jobVars
<1>1. CASE Plan
  BY <1>1 DEF Plan
<1>2. CASE Genui
  BY <1>2 DEF Genui, GenuiWrites
<1>3. CASE Logic
  BY <1>3 DEF Logic, LogicWrites
<1>4. CASE Qa
  <2> PICK found \in SUBSET Found : Grade(found \cup uiBad \cup logicBad)
    BY <1>4 DEF Qa, QaReports
  <2> QED
    BY <1>4 DEF Qa, QaReports, Grade, Materialise, App
<1>5. CASE QaUnavailable
  BY <1>5 DEF QaUnavailable, Materialise, App
<1>6. CASE Route
  BY <1>6, RouterLeads DEF Route, App
<1>7. CASE Package
  BY <1>7 DEF Package, App
<1>8. CASE Finish
  BY <1>8 DEF Finish
<1>9. CASE Raise
  BY <1>9 DEF Raise
<1>10. CASE Restart
  BY <1>10 DEF Restart
<1>11. CASE UNCHANGED vars
  BY <1>11 DEF vars, App
<1> QED
  BY <1>1, <1>2, <1>3, <1>4, <1>5, <1>6, <1>7, <1>8, <1>9, <1>10, <1>11 DEF Next

\* No round leaves a file behind for the analysis of a later one.
THEOREM RoundsCleanUp == Spec => []NoRoundLeaves
<1>1. Init => TypeOK /\ DiskInv
  BY TypeInit DEF Init, DiskInv, NoRoundLeaves, Analysed
<1>2. TypeOK /\ DiskInv /\ [Next]_vars => TypeOK' /\ DiskInv'
  BY TypeStep, DiskStep
<1>3. DiskInv => NoRoundLeaves
  BY DEF DiskInv
<1> QED
  BY <1>1, <1>2, <1>3, PTL DEF Spec
=============================================================================
