----------------------------- MODULE CfdStudy -----------------------------
(***************************************************************************)
(* One airfoil study: the case, the probe, and the tools one after the     *)
(* other, each behind a look at the cancel flag and followed by its log    *)
(* and by the file work before the next; then the evidence is written      *)
(* (alas-cfd, runner.rs, run_study; stage.rs, execute_resolved_stage;      *)
(* results.rs, persist_failed_results; convergence.rs).                    *)
(*                                                                         *)
(* The probe of the tools, bounded by its own deadline and blind to the    *)
(* cancel flag, is one step.  Live events only reach the log and are left  *)
(* out; so are residuals and coefficients: "Completed" is every outcome of *)
(* a study whose tools completed on a qualified mesh, converged or not.    *)
(***************************************************************************)
EXTENDS OpenFoamRun, Sequences

CONSTANT Plans   (* the studies: [compressible, potential, startup]        *)

ASSUME PlansAssumption ==
  Plans \subseteq [compressible : BOOLEAN, potential : BOOLEAN, startup : BOOLEAN]

VARIABLES
  plan,      (* the study: regime, potentialFoam found, two-stage solver   *)
  stage,     (* the tool of Tools(plan) the study is at                    *)
  outcome    (* what run_study returns: a CfdOutcome, or "Err"             *)

studyVars == <<plan, stage, outcome>>

Tools(p) ==
  <<"gmsh", "gmshToFoam", "checkMesh">>
    \o (IF ~p.compressible /\ p.potential THEN <<"potentialFoam">> ELSE <<>>)
    \o (IF p.startup THEN <<"startup">> ELSE <<>>)
    \o <<"solver", "postProcess">>

Tool == Tools(plan)[stage]
LastStage == stage = Len(Tools(plan))

-----------------------------------------------------------------------------

(* The next stage, or the way out with a status. *)
GoOn == stage' = stage + 1 /\ pc' = "check" /\ NoOutput /\ UNCHANGED status
Stop(result) == status' = result /\ pc' = "persist" /\ UNCHANGED <<stage, outputVars>>

(* Wrong variant, for mutation: the study clears the flag when it begins. *)
Prepare_ClearsFlag ==
  /\ pc = "case"
  /\ stage' = 1 /\ NoOutput
  /\ pc' = "check" /\ outcome' = "none" /\ status' = "none"
  /\ flag' = FALSE
  /\ UNCHANGED <<asked, child, held, expired, late, plan>>

(* Validation and generate_case are errors of the study; a missing tool or *)
(* no Gmsh is a failure it records.                                        *)
Prepare ==
  /\ pc = "case"
  /\ stage' = 1 /\ NoOutput
  /\ \/ pc' = "report" /\ outcome' = "Err" /\ status' = "none"
     \/ pc' = "persist" /\ outcome' = "none" /\ status' = "LaunchFailed"
     \/ pc' = "check" /\ outcome' = "none" /\ status' = "none"
  /\ UNCHANGED <<flagVars, child, held, expired, late, plan>>

(* execute_stage: a command that cannot be resolved; the flag; the launch. *)
EnterStage ==
  /\ pc = "check"
  /\ \/ Stop("LaunchFailed")
     \/ flag /\ Stop("Cancelled")
     \/ ~flag /\ pc' = "spawn" /\ UNCHANGED <<stage, status, outputVars>>
  /\ UNCHANGED <<flagVars, child, held, expired, late, plan, outcome>>

(* checkMesh says on the last line of its report that the mesh is good.    *)
WholeReport == taken > 0 /\ taken = written

(* After a completed tool: the converted boundary, the quality gate on the *)
(* report, and the control files of the solver.                            *)
FileWork == {"gmshToFoam", "checkMesh", "potentialFoam", "startup"}

Proceed ==
  \/ Tool \in FileWork /\ Stop("Failed")
  \/ ~LastStage /\ (Tool = "checkMesh" => WholeReport) /\ GoOn
  \/ LastStage /\ Stop("Completed")

(* The log of the tool is written before its status is looked at.  What is *)
(* left of the tool is its status and, where the study stops, its output.  *)
Record ==
  /\ pc = "returned"
  /\ \/ Stop("LaunchFailed")
     \/ status # "Completed" /\ Stop(status)
     \/ status = "Completed" /\ Proceed
  /\ Dropped
  /\ UNCHANGED <<flagVars, late, plan, outcome>>

(* Without the report the mesh does not qualify, and with it another limit *)
(* may fail: either makes a study "Failed" that completed or was cancelled.*)
MeshReported == Tool \notin {"gmsh", "gmshToFoam"} /\ (Tool = "checkMesh" => WholeReport)

Classified ==
  IF MeshReported /\ status \in {"Completed", "Cancelled"} THEN {status, "Failed"}
                                                          ELSE {"Failed"}

Persist ==
  /\ pc = "persist"
  /\ outcome' \in Classified \cup {"Err"}
  /\ pc' = "report"
  /\ UNCHANGED <<flagVars, toolVars, plan, stage>>

StudyStep == Prepare \/ EnterStage \/ Record \/ Persist
Outcomes == {"none", "Err", "Completed", "Cancelled", "Failed"}
=============================================================================
