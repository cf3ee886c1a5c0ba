--------------------------- MODULE ScreeningStage ---------------------------
(***************************************************************************)
(* The screening stage of the product search: batches drawn from one       *)
(* seeded sample, filtered by the design-vector pre-gate, evaluated by the *)
(* native objective, until a budget, the rejection cap, the clock or a     *)
(* request ends it (crates/alas-opt/src/search/screening.rs, run; its      *)
(* evaluator is optimizer/batch.rs, evaluate_block).                       *)
(*                                                                         *)
(* A sampled point is its position in the sequence; which positions pass   *)
(* the pre-gate is the environment's choice, made once: the sequence is a  *)
(* function of the seed.  Points are taken to be pairwise different, so    *)
(* the exact-reuse cache only answers what the same batch put into it.     *)
(* The native objective answers a batch as BatchContract says it does.     *)
(***************************************************************************)
EXTENDS Naturals, Sequences, FiniteSets, FiniteSetsExt

CONSTANTS MaxEvaluations,  (* stage budget: passed points, at most         *)
          MaxRejects,      (* pre-gate rejection cap                       *)
          BatchSize,       (* BATCH_SIZE                                   *)
          MaxWorkers       (* lanes of the objective, at most (bound)      *)

ASSUME ScreeningAssumption ==
  /\ MaxEvaluations \in Nat \ {0} /\ MaxRejects \in Nat \ {0}
  /\ BatchSize \in Nat \ {0} /\ MaxWorkers \in Nat \ {0}

VARIABLES
  gate,        (* whether each point of the sample passes the pre-gate     *)
  settings,    (* stop_after, whether there is a time limit, workers       *)
  pc,          (* where `run` is                                           *)
  expired,     (* the stage clock has passed time_limit                    *)
  requested,   (* the cancellation flag                                    *)
  drawn,       (* points taken from the sequence                           *)
  points,      (* the batch: positions drawn, in order                     *)
  room,        (* passed points the batch may carry                        *)
  rejected,    (* points rejected so far                                   *)
  completed,   (* scores the evaluator returned for the batch              *)
  analysed,    (* outcome.analysed                                         *)
  scored,      (* outcome.scored: positions, in order                      *)
  lastBatch,   (* passed points of the last whole batch                    *)
  termination, (* outcome.termination                                      *)
  rows,        (* rows of the objective's history                          *)
  unstarted,   (* evaluator.cancelled_unstarted                            *)
  gateRejects  (* evaluator.pre_gate_rejects                               *)

envVars   == <<expired, requested>>
drawVars  == <<drawn, points, room, rejected, lastBatch>>
scoreVars == <<completed, analysed, scored, rows, unstarted, gateRejects>>
vars == <<gate, settings, pc, envVars, drawVars, scoreVars, termination>>

(* Longest sample a stage can draw: both limits are exact. *)
Sample == 1..(MaxEvaluations + MaxRejects)

Passed(p)      == {i \in 1..p : gate[i]}
PassedIn(c)    == Cardinality({i \in 1..c : gate[points[i]]})
AdmittedCount  == PassedIn(Len(points))
Least(a, b)    == IF a <= b THEN a ELSE b

-----------------------------------------------------------------------------
(* Wrong variants, for mutation: the cap is not tested between draws; the  *)
(* budget does not shorten a batch; a cut batch is scored whole, or does   *)
(* not end the stage, or counts its rejections as analysed; a stage out of *)
(* time goes on one wave at a time.                                        *)
Draws_Uncapped == AdmittedCount < room /\ ~requested /\ (settings.timed => ~expired)
WithinBudget_Not(count) == count
Resolved_Whole(answered) == Len(points)
CutShort_Never == FALSE
AnalysedIn_All(c) == c
NoTimeLeft_OneWave == {1}

-----------------------------------------------------------------------------
Init ==
  /\ gate \in [Sample -> BOOLEAN]
  /\ settings \in [stop_after : 1..MaxEvaluations, timed : BOOLEAN, workers : 1..MaxWorkers]
  /\ pc = "top"
  /\ expired = FALSE /\ requested = FALSE
  /\ drawn = 0 /\ points = <<>> /\ room = 0 /\ rejected = 0 /\ lastBatch = 0
  /\ completed = 0 /\ analysed = 0 /\ scored = <<>>
  /\ rows = 0 /\ unstarted = 0 /\ gateRejects = 0
  /\ termination = "evaluation_budget"

TimePasses ==
  /\ pc # "done" /\ settings.timed /\ ~expired
  /\ expired' = TRUE
  /\ UNCHANGED <<gate, settings, pc, requested, drawVars, scoreVars, termination>>

Request ==
  /\ pc # "done" /\ ~requested
  /\ requested' = TRUE
  /\ UNCHANGED <<gate, settings, pc, expired, drawVars, scoreVars, termination>>

Stop(reason) ==
  /\ pc' = "done"
  /\ termination' = reason
  /\ UNCHANGED <<gate, settings, envVars, drawVars, scoreVars>>

(* fitted_room: whole waves of one analysis per lane, at the last batch's  *)
(* pace, that fit in the time left; any number of waves may.               *)
NoTimeLeft == {0}

Fitted ==
  IF expired THEN NoTimeLeft
  ELSE IF lastBatch = 0 THEN {Least(settings.workers, BatchSize)}
  ELSE {Least(waves * Least(settings.workers, lastBatch), BatchSize) : waves \in 0..BatchSize}

WithinBudget(count) == Least(count, settings.stop_after - analysed)

Rooms == {WithinBudget(count) : count \in IF settings.timed THEN Fitted ELSE {BatchSize}}

(* The loop head, in the order of its tests. *)
BudgetReached  == pc = "top" /\ analysed >= settings.stop_after /\ Stop("evaluation_budget")
CapReached     ==
  /\ pc = "top" /\ analysed < settings.stop_after
  /\ rejected >= MaxRejects
  /\ Stop("pregate_exhausted")
InBudget       == pc = "top" /\ analysed < settings.stop_after /\ rejected < MaxRejects
NoRoom         == InBudget /\ 0 \in Rooms /\ Stop("time_budget")
RequestAtTop   == InBudget /\ Rooms # {0} /\ requested /\ Stop("cancelled")
StartBatch ==
  /\ InBudget /\ ~requested
  /\ room' \in Rooms \ {0}
  /\ points' = <<>>
  /\ pc' = "draw"
  /\ UNCHANGED <<gate, settings, envVars, drawn, rejected, lastBatch, scoreVars, termination>>

(* The inner loop's condition. *)
Draws ==
  /\ AdmittedCount < room
  /\ rejected < MaxRejects
  /\ ~requested
  /\ settings.timed => ~expired

Draw ==
  /\ pc = "draw" /\ Draws
  /\ drawn' = drawn + 1
  /\ points' = Append(points, drawn + 1)
  /\ rejected' = IF gate[drawn + 1] THEN rejected ELSE rejected + 1
  /\ UNCHANGED <<gate, settings, pc, envVars, room, lastBatch, scoreVars, termination>>

(* resolve_prefix: the scores up to the first passed point without a row. *)
Resolved(answered) == Max({c \in 0..Len(points) : PassedIn(c) <= answered})

(* The passed points among the scores returned: .filter(|&accepted| accepted). *)
AnalysedIn(c) == PassedIn(c)

(***************************************************************************)
(* evaluate_block and the accounting of its answer.  The objective analyses *)
(* a prefix of the passed points: all of them, or fewer when the deadline  *)
(* or a forwarded request stops its lanes; a forwarded request gives the   *)
(* others a cancelled_unstarted row, the deadline none.                    *)
(***************************************************************************)
Evaluate ==
  /\ pc = "draw" /\ ~Draws
  /\ \E started \in 0..AdmittedCount, forwarded \in BOOLEAN :
       LET answered == IF settings.timed /\ ~forwarded THEN started ELSE AdmittedCount
       IN  /\ forwarded => requested
           /\ ~forwarded /\ ~expired => started = AdmittedCount
           /\ rows' = rows + answered
           /\ unstarted' = unstarted + (answered - started)
           /\ completed' = Resolved(answered)
  /\ analysed' = analysed + AnalysedIn(completed')
  /\ gateRejects' = gateRejects + (completed' - PassedIn(completed'))
  /\ scored' = scored \o SubSeq(points, 1, completed')
  /\ pc' = "after"
  /\ UNCHANGED <<gate, settings, envVars, drawVars, termination>>

(* The tests after a batch, in their order. *)
CutShort == completed < Len(points)

RequestAfterBatch == pc = "after" /\ requested /\ Stop("cancelled")
TimeCutsBatch     == pc = "after" /\ ~requested /\ CutShort /\ Stop("time_budget")
NextBatch ==
  /\ pc = "after" /\ ~requested /\ ~CutShort
  /\ lastBatch' = AdmittedCount
  /\ pc' = "top"
  /\ UNCHANGED <<gate, settings, envVars, drawn, points, room, rejected, scoreVars, termination>>

Run == \/ BudgetReached \/ CapReached \/ NoRoom \/ RequestAtTop \/ StartBatch
       \/ Draw \/ Evaluate
       \/ RequestAfterBatch \/ TimeCutsBatch \/ NextBatch

Next == TimePasses \/ Request \/ Run

Spec == Init /\ [][Next]_vars

(* The stage is one thread's loop, and an evaluator that returns: the pool *)
(* of NativePool ends a batch unless a candidate itself never ends.        *)
FairSpec == Spec /\ WF_vars(Run)

-----------------------------------------------------------------------------
(* Properties. *)

(* The state is one of the stage's, and both limits bound its counters. *)
TypeOK ==
  /\ gate \in [Sample -> BOOLEAN]
  /\ settings \in [stop_after : 1..MaxEvaluations, timed : BOOLEAN, workers : 1..MaxWorkers]
  /\ pc \in {"top", "draw", "after", "done"}
  /\ expired \in BOOLEAN /\ requested \in BOOLEAN
  /\ drawn \in 0..Cardinality(Sample)
  /\ points \in Seq(Sample) /\ scored \in Seq(Sample)
  /\ room \in 0..BatchSize /\ lastBatch \in 0..BatchSize
  /\ rejected \in 0..MaxRejects
  /\ completed \in Nat /\ analysed \in 0..MaxEvaluations
  /\ rows \in Nat /\ unstarted \in Nat /\ gateRejects \in Nat
  /\ termination \in {"evaluation_budget", "pregate_exhausted", "time_budget", "cancelled"}

(***************************************************************************)
(* However the clock, the lanes and the rejections partition the sample,   *)
(* what the stage scored is a prefix of the sequence: no point is skipped, *)
(* repeated or reordered, and only a stage that ends drops drawn points.   *)
(***************************************************************************)
ScoredIsSamplePrefix ==
  /\ \A i \in 1..Len(scored) : scored[i] = i
  /\ pc = "top" => Len(scored) = drawn

(* The draws of a run that no clock stops: up to the count-th passed point *)
(* or the MaxRejects-th rejected one, whichever comes first.               *)
SequentialDraws(count) ==
  CHOOSE d \in Sample :
    /\ Cardinality(Passed(d)) = count \/ d - Cardinality(Passed(d)) = MaxRejects
    /\ \A e \in 1..(d - 1) :
         Cardinality(Passed(e)) < count /\ e - Cardinality(Passed(e)) < MaxRejects

(* Without a clock and a request, batches of any size give the result of   *)
(* the sequential loop: the same points, both limits exact to the point,   *)
(* and the termination named after the limit that was met.                 *)
UntimedRunIsSequential ==
  pc = "done" /\ ~settings.timed /\ ~requested =>
    LET d == SequentialDraws(settings.stop_after)
    IN  /\ Len(scored) = d
        /\ analysed = Cardinality(Passed(d))
        /\ termination = IF analysed = settings.stop_after
                         THEN "evaluation_budget" ELSE "pregate_exhausted"

(* A stage its clock stopped after n analysed points, n > 0, analysed the  *)
(* points its replay with stop_after = n analyses, whatever batch the      *)
(* clock cut and wherever in it.                                           *)
ReplayAnalysesTheSame ==
  pc = "done" /\ termination = "time_budget" /\ analysed > 0 =>
    {scored[i] : i \in {j \in 1..Len(scored) : gate[scored[j]]}}
      = Passed(SequentialDraws(analysed))

(* What the stage reports counts each point once: unless it was cancelled, *)
(* its replay count is its coupled analyses, and every other scored point  *)
(* is a pre-gate rejection.  Cancelled, the rows of candidates no lane     *)
(* started make up the difference.                                         *)
StageCountsAgree ==
  pc = "done" =>
    /\ analysed = rows
    /\ Len(scored) = analysed + gateRejects
    /\ termination # "cancelled" => unstarted = 0

(* Every limit is reached or the sample goes on: the stage ends. *)
StageEnds == <>(pc = "done")

(***************************************************************************)
(* What the module documentation and its tests say of a stage stopped by   *)
(* its clock: that it evaluated exactly the points of its replay.  The cut *)
(* batch also scores the pre-gate rejects drawn behind its last analysed   *)
(* point; the replay stops drawing at that point and never sees them.      *)
(***************************************************************************)
ReplayScoresTheSame ==
  pc = "done" /\ termination = "time_budget" /\ analysed > 0 =>
    Len(scored) = SequentialDraws(analysed)

=============================================================================
