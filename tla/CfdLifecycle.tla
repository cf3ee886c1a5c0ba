--------------------------- MODULE CfdLifecycle ---------------------------
(***************************************************************************)
(* The airfoil CFD window: it starts a study or a sweep on a worker        *)
(* thread, edits, loads and cancels while the worker runs, and drains the  *)
(* worker's messages once per frame (alas-gui, cfd/lifecycle.rs:           *)
(* start_run, start_sweep, cancel_run, load_result_json, poll;             *)
(* cfd/selection.rs: mark_inputs_changed).  The worker runs the studies of *)
(* CfdStudy, which run the tools of OpenFoamRun.                           *)
(*                                                                         *)
(* A start that fails on its inputs or its directory changes only the      *)
(* error text and is left out, as are the probe button, ParaView and the   *)
(* texts of the window.  The window outlives its workers.                  *)
(***************************************************************************)
EXTENDS CfdStudy, FiniteSets, FiniteSetsExt

CONSTANTS Points,        (* points of a sweep                              *)
          MaxRuns,       (* runs started (bound)                           *)
          MaxRevision    (* edits and loads (bound: the counter wraps)     *)

ASSUME LifecycleAssumption ==
  Points \in Nat \ {0} /\ MaxRuns \in Nat /\ MaxRevision \in Nat

VARIABLES
  revision,  (* input_revision: advanced by every edit and load            *)
  runId,     (* run_id of the last run started                             *)
  running,   (* the busy state of the window                               *)
  job,       (* what the worker was started with: kind, id, revision       *)
  point,     (* the sweep point the worker is at                           *)
  queue,     (* the messages sent and not yet polled                       *)
  points,    (* sweep_results: the status of each point shown              *)
  result     (* the result shown: its outcome and the inputs it is for     *)

windowVars == <<revision, runId, running, points, result>>
workerVars == <<job, point>>
vars == <<pc, flagVars, toolVars, studyVars, windowVars, workerVars, queue>>

NoResult == [outcome |-> "none", for |-> 0]
NoJob == [kind |-> "none", id |-> 0, revision |-> 0]

Init ==
  /\ pc = "none" /\ flag = FALSE /\ asked = FALSE /\ NoTool
  /\ plan \in Plans /\ stage = 1 /\ outcome = "none"
  /\ revision = 0 /\ runId = 0 /\ running = FALSE
  /\ points = <<>> /\ result = NoResult
  /\ job = NoJob /\ point = 0 /\ queue = <<>>

-----------------------------------------------------------------------------
(* The window. *)

(* The flag of the last run is cleared before the next worker starts. *)
Start(kind) ==
  /\ ~running /\ runId < MaxRuns
  /\ runId' = runId + 1 /\ running' = TRUE
  /\ result' = NoResult
  /\ points' = IF kind = "sweep" THEN [i \in 1..Points |-> "Pending"] ELSE <<>>
  /\ flag' = FALSE /\ asked' = FALSE /\ late' = 0
  /\ job' = [kind |-> kind, id |-> runId + 1, revision |-> revision]
  /\ plan' \in Plans /\ stage' = 1 /\ outcome' = "none"
  /\ point' = 1
  /\ pc' = IF kind = "sweep" THEN "point" ELSE "case"
  /\ Dropped /\ NoOutput /\ status' = "none"
  /\ UNCHANGED <<revision, queue>>

CancelRun ==
  /\ running
  /\ flag' = TRUE /\ asked' = TRUE
  /\ UNCHANGED <<pc, toolVars, studyVars, windowVars, workerVars, queue>>

MarkInputsChanged ==
  /\ revision < MaxRevision
  /\ revision' = revision + 1
  /\ result' = NoResult /\ points' = <<>>
  /\ IF running THEN flag' = TRUE /\ asked' = TRUE ELSE UNCHANGED flagVars
  /\ UNCHANGED <<pc, toolVars, studyVars, runId, running, workerVars, queue>>

(* A stored result replaces the inputs, and is refused while a study runs. *)
LoadResultJson ==
  /\ ~running /\ revision < MaxRevision
  /\ revision' = revision + 1
  /\ result' = [outcome |-> "Completed", for |-> revision + 1]
  /\ points' = <<>>
  /\ UNCHANGED <<pc, flagVars, toolVars, studyVars, runId, running, workerVars, queue>>

(* The gate of a message: the run and the inputs it was sent for. *)
Ours(m) == m.id = runId

(* Wrong variant, for mutation: the run alone makes a message current. *)
Current_RunOnly(m) == Ours(m)

Current(m) == Ours(m) /\ m.revision = revision

About(i) == {k \in DOMAIN queue : queue[k].kind = "point" /\ queue[k].point = i
                                  /\ Current(queue[k])}

(* The points after the messages about them, the last one last. *)
Updated ==
  [i \in DOMAIN points |->
     IF About(i) = {} THEN points[i] ELSE queue[Max(About(i))].status]

(* Wrong variant, for mutation: only the point that ran is settled. *)
Settled_RunningOnly(shown) ==
  [i \in DOMAIN shown |->
     IF flag /\ shown[i] = "Running" THEN "Cancelled" ELSE shown[i]]

(* A cancelled sweep leaves no point open. *)
Settled(shown) ==
  [i \in DOMAIN shown |->
     IF flag /\ shown[i] \in {"Pending", "Running"} THEN "Cancelled" ELSE shown[i]]

Installed(m) ==
  IF Current(m) /\ m.status # "Err" THEN [outcome |-> m.status, for |-> m.revision]
                                    ELSE result

Endings(kind) == {k \in DOMAIN queue : queue[k].kind = kind /\ Ours(queue[k])}

(* Every message sent so far, and then the end of the run if it is there:  *)
(* it clears the busy state even when the inputs have changed since.       *)
Poll ==
  /\ queue # <<>>
  /\ queue' = <<>>
  /\ running' = (running /\ Endings("run") = {} /\ Endings("sweep") = {})
  /\ result' = IF Endings("run") # {} THEN Installed(queue[Max(Endings("run"))])
                                      ELSE result
  /\ points' = IF Endings("sweep") # {} /\ Current(queue[Max(Endings("sweep"))])
                 THEN Settled(Updated) ELSE Updated
  /\ UNCHANGED <<pc, flagVars, toolVars, studyVars, revision, runId, workerVars>>

-----------------------------------------------------------------------------
(* The worker between its studies. *)

Message(kind, i, s) ==
  [kind |-> kind, id |-> job.id, revision |-> job.revision, point |-> i, status |-> s]

Send(messages) == queue' = queue \o messages

(* The top of the loop over the points; the directory of a point may fail, *)
(* which ends the sweep.                                                   *)
BeginPoint ==
  /\ pc = "point"
  /\ \/ flag /\ pc' = "end" /\ UNCHANGED queue
     \/ ~flag /\ pc' = "case" /\ Send(<<Message("point", point, "Running")>>)
     \/ ~flag /\ pc' = "end" /\ Send(<<Message("point", point, "Running"),
                                       Message("point", point, "Failed")>>)
  /\ UNCHANGED <<flagVars, toolVars, studyVars, windowVars, workerVars>>

LastPoint == flag \/ outcome = "Cancelled" \/ point = Points

PointStatus == IF outcome = "Err" THEN "Failed" ELSE outcome

ReportPoint ==
  /\ pc = "report" /\ job.kind = "sweep"
  /\ Send(<<Message("point", point, PointStatus)>>)
  /\ IF LastPoint THEN pc' = "end" /\ UNCHANGED point
                  ELSE pc' = "point" /\ point' = point + 1
  /\ UNCHANGED <<flagVars, toolVars, studyVars, windowVars, job>>

EndSweep ==
  /\ pc = "end"
  /\ Send(<<Message("sweep", 0, "none")>>)
  /\ pc' = "none"
  /\ UNCHANGED <<flagVars, toolVars, studyVars, windowVars, workerVars>>

EndRun ==
  /\ pc = "report" /\ job.kind = "run"
  /\ Send(<<Message("run", 0, outcome)>>)
  /\ pc' = "none"
  /\ UNCHANGED <<flagVars, toolVars, studyVars, windowVars, workerVars>>

-----------------------------------------------------------------------------

StudyOrTool == StudyStep \/ (ToolStep /\ UNCHANGED studyVars)
InStudy == StudyOrTool /\ UNCHANGED <<windowVars, workerVars, queue>>
Worker == InStudy \/ BeginPoint \/ ReportPoint \/ EndSweep \/ EndRun
Environment == Outside /\ UNCHANGED <<studyVars, windowVars, workerVars, queue>>
Window == (\E kind \in {"run", "sweep"} : Start(kind)) \/ CancelRun \/ MarkInputsChanged
          \/ LoadResultJson \/ Poll

Next == Worker \/ Environment \/ Window

(* The thread of the worker is scheduled, a frame polls, the clock runs.   *)
(* Nothing makes a tool exit.                                              *)
Clock == Expire /\ UNCHANGED <<studyVars, windowVars, workerVars, queue>>
Fairness == WF_vars(Worker) /\ WF_vars(Poll) /\ WF_vars(Clock)

Spec == Init /\ [][Next]_vars
FairSpec == Spec /\ Fairness

-----------------------------------------------------------------------------
(* Properties. *)

Places == {"none", "point", "case", "check", "spawn", "returned", "persist", "report", "end"}
PointStatuses == {"Pending", "Running", "Completed", "Failed", "Cancelled"}
Messages ==
  [kind : {"point", "run", "sweep"}, id : 1..MaxRuns, revision : 0..MaxRevision,
   point : 0..Points, status : PointStatuses \cup {"Err", "none"}]

(* Every variable has its type; a tool is alive only while the worker is   *)
(* in it, so a study never has two tools and never leaves one behind.      *)
TypeOK ==
  /\ pc \in Places \cup InTool
  /\ flag \in BOOLEAN /\ asked \in BOOLEAN /\ late \in Nat
  /\ child \in Exits \cup {"none", "running", "killed"}
  /\ held \in BOOLEAN /\ expired \in BOOLEAN
  /\ written \in 0..MaxOutput /\ taken \in 0..written
  /\ status \in Statuses
  /\ plan \in Plans /\ stage \in 1..Len(Tools(plan)) /\ outcome \in Outcomes
  /\ revision \in 0..MaxRevision /\ runId \in 0..MaxRuns /\ running \in BOOLEAN
  /\ job = NoJob \/ job \in [kind : {"run", "sweep"}, id : 1..MaxRuns,
                              revision : 0..MaxRevision]
  /\ point \in 0..Points /\ queue \in Seq(Messages)
  /\ DOMAIN points \in {{}, 1..Points} /\ \A i \in DOMAIN points : points[i] \in PointStatuses
  /\ result.outcome \in {"none", "Completed", "Failed", "Cancelled"}
  /\ child = "running" => pc \in InTool \ {"post"}

(* What the window shows is for the inputs it shows: a study or a point of *)
(* a sweep started before an edit or a load is not installed after it,     *)
(* whatever the order of the edit, the worker's messages and the poll      *)
(* (lifecycle.rs, the revision gate of poll).                              *)
ShownIsForTheInputs ==
  /\ result.outcome # "none" => result.for = revision
  /\ points # <<>> => job.revision = revision

(* Once a worker has been asked to stop, by the button or by an edit, it   *)
(* launches at most one more tool, the one whose look at the flag came     *)
(* first, and that tool is killed and reported as cancelled; the flag of a *)
(* run is not cleared under it by the start of another (lifecycle.rs:100). *)
OneMoreToolAtMost ==
  /\ late <= 1
  /\ late = 1 /\ pc \in {"post", "returned"} => status = "Cancelled"

(* A window that is not busy has no worker left: no tool runs, nothing is  *)
(* on its way, no point is shown as running, and a sweep that was asked to *)
(* stop shows none as pending, so that the next start has the flag, the    *)
(* channel and the table for itself.                                       *)
IdleIsQuiet ==
  ~running =>
    /\ pc = "none" /\ child # "running" /\ queue = <<>>
    /\ \A i \in DOMAIN points :
         /\ points[i] # "Running"
         /\ asked => points[i] # "Pending"

(* A busy window becomes free again, though no tool need ever exit and a   *)
(* descendant may keep a pipe open for ever: the timeout ends the tool and *)
(* the bounded drain ends the wait for its output.                         *)
BusyEnds == running ~> ~running
=============================================================================
