----------------------------- MODULE RunWindow -----------------------------
(***************************************************************************)
(* The pipeline run of the desktop: the window starts it on a worker       *)
(* thread, shows the snapshots of its downstream stage while it lasts and  *)
(* then its result, and moves between the guided case and the sandbox when *)
(* nothing runs (alas-gui, run.rs: start_pipeline, poll_worker,            *)
(* request_pipeline_cancel; sandbox/session.rs, sandbox/case.rs;           *)
(* alas-pipeline, pipeline.rs).                                            *)
(*                                                                         *)
(* The stages before and after the downstream analyses are one step each,  *)
(* with the looks at the cancel flag between them.  The log, the figures   *)
(* and the edits of a case are left out.                                   *)
(***************************************************************************)
EXTENDS Downstream, Integers, SequencesExt

CONSTANTS MaxRuns,     (* runs started (bound)                             *)
          MaxCases     (* cases opened (bound)                             *)

ASSUME WindowAssumption == MaxRuns \in Nat /\ MaxCases \in Nat

VARIABLES
  pc,          (* where the worker thread is                               *)
  runs,        (* run_identity                                             *)
  running,     (* is_running                                               *)
  requested,   (* cancellation_requested                                   *)
  startedIn,   (* history: the case the last run was started in            *)
  case,        (* the case in the shared state                             *)
  cases,       (* cases opened so far                                      *)
  prior,       (* the guided case behind the sandbox, or NoPrior           *)
  result,      (* pipeline_result: what it is, of which analyses and case  *)
  complete,    (* pipeline_result_complete                                 *)
  restored     (* history: a case was put back since the last start        *)

runVars  == <<pc, runs, running, requested, startedIn>>
caseVars == <<case, cases, prior, restored>>
shownVars == <<result, complete>>
vars == <<cancel, poolVars, stageVars, queue, runVars, caseVars, shownVars>>

NoResult == [kind |-> "none", of |-> {}, case |-> 0]
NoPrior == [case |-> -1, result |-> NoResult]
InSandbox == prior # NoPrior

Init ==
  /\ cancel = FALSE /\ NoPool /\ NoStage /\ queue = <<>>
  /\ pc = "none" /\ runs = 0 /\ running = FALSE /\ requested = FALSE /\ startedIn = 0
  /\ case = 0 /\ cases = 0 /\ prior = NoPrior /\ restored = FALSE
  /\ result = NoResult /\ complete = FALSE

-----------------------------------------------------------------------------
(* The window. *)

(* A thread that cannot be created leaves the window busy: the closed      *)
(* channel is never looked at (run.rs, the last lines of start_pipeline).  *)
StartPipeline ==
  /\ ~running /\ runs < MaxRuns
  /\ runs' = runs + 1 /\ running' = TRUE /\ requested' = FALSE
  /\ cancel' = FALSE
  /\ result' = NoResult /\ complete' = FALSE
  /\ startedIn' = case /\ restored' = FALSE
  /\ pc' \in {"start", "none"}
  /\ NewPool /\ NewStage
  /\ UNCHANGED <<queue, case, cases, prior>>

RequestCancel ==
  /\ running /\ ~requested
  /\ requested' = TRUE /\ cancel' = TRUE
  /\ UNCHANGED <<poolVars, stageVars, queue, pc, runs, running, startedIn, caseVars, shownVars>>

Shown(kind, of) == [kind |-> kind, of |-> of, case |-> startedIn]
SnapshotsAt == {k \in DOMAIN queue : queue[k].kind = "snapshot"}
LastSnapshot == queue[Max(SnapshotsAt)]
Ended == \E k \in DOMAIN queue : queue[k].kind # "snapshot"

(* Every message sent so far: the latest snapshot, then the end of the     *)
(* run.  A result is final; an error leaves the snapshot on view.          *)
PollWorker ==
  /\ queue # <<>>
  /\ queue' = <<>>
  /\ running' = (running /\ ~Ended) /\ requested' = (requested /\ ~Ended)
  /\ complete' = (Last(queue).kind = "result")
  /\ result' =
       IF Last(queue).kind = "result" THEN Shown("final", Last(queue).of)
       ELSE IF SnapshotsAt # {} THEN Shown("snapshot", LastSnapshot.of)
       ELSE result
  /\ UNCHANGED <<cancel, poolVars, stageVars, pc, runs, startedIn, caseVars>>

Open(newCase) ==
  /\ cases < MaxCases
  /\ cases' = newCase /\ case' = newCase
  /\ result' = NoResult

(* Wrong variant, for mutation: the sandbox opens over a run. *)
EnterSandbox_WhileRunning ==
  /\ ~InSandbox
  /\ prior' = [case |-> case, result |-> result]
  /\ Open(cases + 1)
  /\ UNCHANGED <<cancel, poolVars, stageVars, queue, runVars, restored, complete>>

(* take_case keeps the result of the guided case, not whether it is final. *)
EnterSandbox ==
  /\ ~InSandbox /\ ~running
  /\ prior' = [case |-> case, result |-> result]
  /\ Open(cases + 1)
  /\ UNCHANGED <<cancel, poolVars, stageVars, queue, runVars, restored, complete>>

NewSandbox ==
  /\ InSandbox /\ ~running
  /\ Open(cases + 1)
  /\ UNCHANGED <<cancel, poolVars, stageVars, queue, runVars, prior, restored, complete>>

Discard ==
  /\ InSandbox /\ ~running
  /\ case' = prior.case /\ result' = prior.result
  /\ prior' = NoPrior /\ restored' = TRUE
  /\ UNCHANGED <<cancel, poolVars, stageVars, queue, runVars, cases, complete>>

(* The sandbox becomes the guided case; its result goes if edits followed. *)
Promote ==
  /\ InSandbox /\ ~running
  /\ prior' = NoPrior
  /\ result' \in {result, NoResult}
  /\ UNCHANGED <<cancel, poolVars, stageVars, queue, runVars, case, cases, restored, complete>>

-----------------------------------------------------------------------------
(* The worker. *)

Finish(kind, of) == Send([kind |-> kind, of |-> of]) /\ pc' = "none"
GoTo(place) == pc' = place /\ UNCHANGED queue

(* The stages up to the delivered report: cancelled, failed, or on to the  *)
(* downstream stage with the first snapshot.                               *)
EarlyStages ==
  /\ pc = "start"
  /\ \/ cancel /\ Finish("error", {}) /\ UNCHANGED stageVars
     \/ Finish("error", {}) /\ UNCHANGED stageVars
     \/ pc' = "snapshot" /\ BeginStage
  /\ UNCHANGED <<cancel, poolVars>>

(* The exports of the geometry, with a look at the flag before and after,  *)
(* may fail the run; the snapshots they publish have no analysis either.   *)
ExportGeometry ==
  /\ pc = "snapshot"
  /\ \/ Finish("error", {})
     \/ ~cancel /\ GoTo("downstream")
  /\ UNCHANGED <<cancel, poolVars, stageVars>>

Analyse ==
  /\ pc = "downstream" /\ StageStep
  /\ UNCHANGED pc

LeaveStage ==
  /\ pc = "downstream" /\ Joined
  /\ IF failed \/ cancel THEN Finish("error", {}) ELSE GoTo("feasibility")
  /\ UNCHANGED <<cancel, poolVars, stageVars>>

(* The assessment, the last look at the flag, and the final artifacts, of  *)
(* which an export may fail the run.                                       *)
Finalise ==
  /\ pc = "feasibility"
  /\ \/ Finish("error", {})
     \/ ~cancel /\ GoTo("final")
  /\ UNCHANGED <<cancel, poolVars, stageVars>>

Deliver ==
  /\ pc = "final"
  /\ \/ Finish("result", merged)
     \/ Finish("error", {})
  /\ UNCHANGED <<cancel, poolVars, stageVars>>

Worker ==
  /\ EarlyStages \/ ExportGeometry \/ Analyse \/ LeaveStage \/ Finalise \/ Deliver
  /\ UNCHANGED <<runs, running, requested, startedIn, caseVars, shownVars>>

Next ==
  \/ Worker \/ StartPipeline \/ RequestCancel \/ PollWorker
  \/ EnterSandbox \/ NewSandbox \/ Discard \/ Promote

Spec == Init /\ [][Next]_vars
FairSpec == Spec /\ WF_vars(Worker) /\ WF_vars(PollWorker)

-----------------------------------------------------------------------------
(* Properties. *)

Results == [kind : {"none", "snapshot", "final"}, of : SUBSET Branches, case : 0..MaxCases]

(* Every variable has its type, and the publisher is held by an analysis   *)
(* that has merged and not yet published.                                  *)
TypeOK ==
  /\ cancel \in BOOLEAN /\ next \in Nat /\ polars \subseteq Tasks
  /\ solver \in [Solvers -> [step : {"out", "idle", "claimed", "solving"}, task : Tasks]]
  /\ parallel \in BOOLEAN /\ available \in BOOLEAN /\ failed \in BOOLEAN
  /\ branch \in [Branches -> Places]
  /\ merged \subseteq Branches /\ copy \in [Branches -> SUBSET Branches]
  /\ sections \subseteq Tasks
  /\ queue \in Seq([kind : {"snapshot", "result", "error"}, of : SUBSET Branches])
  /\ pc \in {"none", "start", "snapshot", "downstream", "feasibility", "final"}
  /\ runs \in 0..MaxRuns /\ running \in BOOLEAN /\ requested \in BOOLEAN
  /\ case \in 0..MaxCases /\ startedIn \in 0..MaxCases /\ cases \in 0..MaxCases
  /\ result \in Results /\ prior.result \in Results /\ prior.case \in -1..MaxCases
  /\ complete \in BOOLEAN /\ restored \in BOOLEAN
  /\ lock \in Branches \cup {"free"}
  /\ \A b \in Branches : branch[b] = "merged" <=> lock = b

(* What was published last: it is still queued, or it is on view.          *)
Latest == IF SnapshotsAt # {} THEN LastSnapshot.of ELSE result.of

(* The snapshots are cumulative: none is behind the one before it or the   *)
(* one on view, and when no analysis is publishing the latest has every    *)
(* result so far, whatever the order in which the threads return           *)
(* (snapshots.rs: "a slow worker cannot overwrite a newer snapshot").      *)
SnapshotsAreCumulative ==
  /\ \A j, k \in SnapshotsAt : j <= k => queue[j].of \subseteq queue[k].of
  /\ pc \in {"downstream", "feasibility", "final"} =>
       /\ result.kind = "snapshot" => \A k \in SnapshotsAt : result.of \subseteq queue[k].of
       /\ lock = "free" => Latest = merged

(* The stage leaves what the serial loop leaves, in parallel or not: every *)
(* analysis has returned, also when the mission failed (pipeline.rs: "a    *)
(* sequential run leaves the same artifacts and events as the parallel     *)
(* one when the mission stage fails"), and where MSES is available the     *)
(* polars are the root and the sections up to the first skipped one, all   *)
(* of them unless the run was cancelled (mses_polars.rs).                  *)
StageIsSerial ==
  /\ pc # "downstream" => AllDone \/ \A b \in Branches : branch[b] = "waiting"
  /\ available /\ branch[Mses] \in {"ready", "merged", "done"} =>
       /\ \E last \in Tasks : sections = 0..last
       /\ sections # Tasks => cancel

(* A result on view belongs to the case on view, across the moves between  *)
(* the guided case and the sandbox; and what is taken for final is a final *)
(* result (run.rs: a snapshot "is never a finalized report"), except after *)
(* a case was put back: it comes with its result and without the flag.     *)
ShownIsWhatItClaims ==
  /\ result.kind # "none" => result.case = case
  /\ complete /\ result.kind = "snapshot" => restored

(* A run whose thread was created ends and the window is free again: no    *)
(* analysis waits for ever for the publisher, and the pool of polars runs  *)
(* dry whatever the flag.                                                  *)
RunEnds == (running /\ pc # "none") ~> ~running
=============================================================================
