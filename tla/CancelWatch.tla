---------------------------- MODULE CancelWatch ----------------------------
(***************************************************************************)
(* Cancelling a supervised run: the wall-clock guard of the preset audit   *)
(* (alas-acceptance, bin/optimization_preset_audit.rs, run_with_timeout),  *)
(* the watch it shares with the run (alas-opt, cancellation.rs), and the   *)
(* run as the watch sees it: the generations of the search, its return,    *)
(* and the reporting ladder (alas-pipeline, dual_solver/verification.rs,   *)
(* evaluate_ordered).                                                      *)
(*                                                                         *)
(* Every load and store of the watch that the other thread can get between *)
(* is a step.  The lanes of one wave are interchangeable, so a wave is the *)
(* number of its lanes at each point.  The earlier stages of the search    *)
(* enter and poll as generations do and are not repeated here.             *)
(***************************************************************************)
EXTENDS Naturals, FiniteSets

CONSTANTS MaxWorkers,      (* resolved_workers, at most (bound)            *)
          MaxGenerations,  (* generations of a search, at most (bound)     *)
          Generation,      (* candidates of a generation (bound)           *)
          Jobs,            (* nominal plus ranked finalists: `count`       *)
          Required         (* jobs that always run, before the clamp       *)

ASSUME WatchAssumption ==
  /\ MaxWorkers \in Nat \ {0} /\ MaxGenerations \in Nat
  /\ Generation \in Nat \ {0} /\ Jobs \in Nat \ {0} /\ Required \in Nat

VARIABLES
  workers,     (* resolved_workers                                         *)
  run,         (* where the run is                                         *)
  guard,       (* where the guard is                                       *)
  flag,        (* watch.flag                                               *)
  phase,       (* watch.phase                                              *)
  index,       (* watch.phase_index                                        *)
  tallies,     (* watch.evaluations_started, _completed, _after_request    *)
  record,      (* watch.requested_phase, _index, _evaluation, _ns (stamp)  *)
  observed,    (* watch.first_observed_ns is set                           *)
  reason,      (* watch.stop_reason                                        *)
  termination, (* watch.termination                                        *)
  gen,         (* generations_completed                                    *)
  answer,      (* the search's own termination                             *)
  done,        (* completed.len() of the ladder                            *)
  expired,     (* the verification reserve has run out                     *)
  lanes,       (* lanes of the wave: spawned, working, tallied             *)
  places       (* history: every place the run entered                     *)

watchVars  == <<flag, record, guard>>
placeVars  == <<phase, index, places>>
reportVars == <<reason, termination>>
ladderVars == <<done, expired, lanes>>
searchVars == <<gen, answer>>
vars == <<workers, run, watchVars, placeVars, tallies, observed, reportVars,
          searchVars, ladderVars>>

Phases == {"not_started", "de_initial_population", "de_generation",
           "search_finished", "reporting_fidelity_verification"}
Terminations == {"cancelled", "evaluation_budget"}

Biggest(a, b)  == IF a >= b THEN a ELSE b
Smallest(a, b) == IF a <= b THEN a ELSE b

NoLanes == [spawned |-> 0, working |-> 0, tallied |-> 0]

(* `required.clamp(1, count.max(1))`. *)
Needed == Smallest(Biggest(Required, 1), Jobs)

(* Most analyses that can be in flight at one time. *)
Width == Biggest(workers, Needed)

Init ==
  /\ workers \in 1..MaxWorkers
  /\ run = "start" /\ guard = "wait" /\ flag = FALSE
  /\ phase = "not_started" /\ index = 0 /\ places = {<<"not_started", 0>>}
  /\ tallies = [started |-> 0, completed |-> 0, after |-> 0]
  /\ record = [phase |-> "not_started", index |-> 0, evaluation |-> 0,
               stamp |-> FALSE]
  /\ observed = FALSE /\ reason = "none" /\ termination = "none"
  /\ gen = 0 /\ answer = "none"
  /\ done = 0 /\ expired = FALSE /\ lanes = NoLanes

-----------------------------------------------------------------------------
(* CancelScope, as the run calls it. *)

(* `enter`: the phase is stored first, the index in a second store. *)
StorePhase(p, i) ==
  /\ phase' = p
  /\ places' = places \cup {<<p, i>>}
  /\ UNCHANGED index

StoreIndex(i) == index' = i /\ UNCHANGED <<phase, places>>

(* `requested`: the first read of a set flag is recorded. *)
Poll == observed' = (observed \/ flag)

(* Several evaluations counted at once (`record_concurrent`). *)
Tallied(n, late) ==
  [started   |-> tallies.started + n,
   completed |-> tallies.completed + n,
   after     |-> tallies.after + late]

-----------------------------------------------------------------------------
(* The search. *)

(* A stage before the search fails: the run returns its error. *)
FailEarly ==
  /\ run = "start"
  /\ run' = "ended"
  /\ UNCHANGED <<workers, watchVars, placeVars, tallies, observed, reportVars,
                 searchVars, ladderVars>>

EnterInitial ==
  /\ run = "start"
  /\ StorePhase("de_initial_population", 0)
  /\ run' = "initialIndex"
  /\ UNCHANGED <<workers, watchVars, tallies, observed, reportVars,
                 searchVars, ladderVars>>

(* A generation is entered while the search has not stopped by itself. *)
EnterGeneration ==
  /\ run = "search" /\ gen < MaxGenerations
  /\ StorePhase("de_generation", gen)
  /\ run' = "generationIndex"
  /\ UNCHANGED <<workers, watchVars, tallies, observed, reportVars,
                 searchVars, ladderVars>>

EnterIndex ==
  /\ run \in {"initialIndex", "generationIndex"}
  /\ StoreIndex(IF run = "initialIndex" THEN 0 ELSE gen)
  /\ run' = IF run = "initialIndex" THEN "initialPoll" ELSE "generationPoll"
  /\ UNCHANGED <<workers, watchVars, tallies, observed, reportVars,
                 searchVars, ladderVars>>

(* The poll before a batch: a request skips it. *)
PollBeforeBatch ==
  /\ run \in {"initialPoll", "generationPoll"}
  /\ Poll
  /\ IF flag
       THEN run' = "finish" /\ answer' = "cancelled"
       ELSE /\ run' = IF run = "initialPoll" THEN "initial" ELSE "generation"
            /\ UNCHANGED answer
  /\ UNCHANGED <<workers, watchVars, placeVars, tallies, reportVars, gen,
                 ladderVars>>

(* The batch and the poll after it.  The objective answers a batch whole   *)
(* unless it was asked to stop; at most one candidate of each lane is late *)
(* (NativePool, OneLateCandidatePerLane).                                  *)
Batch ==
  /\ run \in {"initial", "generation"}
  /\ \E n \in IF flag THEN 0..Generation ELSE {Generation} :
       \E late \in IF flag THEN 0..Smallest(n, workers) ELSE {0} :
         tallies' = Tallied(n, late)
  /\ Poll
  /\ IF flag
       THEN run' = "finish" /\ answer' = "cancelled" /\ UNCHANGED gen
       ELSE /\ run' = "search"
            /\ gen' = IF run = "generation" THEN gen + 1 ELSE gen
            /\ UNCHANGED answer
  /\ UNCHANGED <<workers, watchVars, placeVars, reportVars, ladderVars>>

(* The search stops for a reason of its own. *)
SearchStops ==
  /\ run = "search"
  /\ answer' = "evaluation_budget"
  /\ run' = "finish"
  /\ UNCHANGED <<workers, watchVars, placeVars, tallies, observed, reportVars,
                 gen, ladderVars>>

(* `search_finished`: the phase, which keeps the index of the last one;    *)
(* then the stop reason, and under a second lock the termination.          *)
FinishPhase ==
  /\ run = "finish"
  /\ StorePhase("search_finished", index)
  /\ run' = "finishReason"
  /\ UNCHANGED <<workers, watchVars, tallies, observed, reportVars,
                 searchVars, ladderVars>>

FinishReason ==
  /\ run = "finishReason"
  /\ reason' = answer
  /\ run' = "finishTermination"
  /\ UNCHANGED <<workers, watchVars, placeVars, tallies, observed,
                 termination, searchVars, ladderVars>>

FinishTermination ==
  /\ run = "finishTermination"
  /\ termination' = answer
  /\ run' = "ladder"
  /\ UNCHANGED <<workers, watchVars, placeVars, tallies, observed, reason,
                 searchVars, ladderVars>>

-----------------------------------------------------------------------------
(* The reporting ladder: waves of analyses, the first of them required.    *)

(* Wrong variants, for mutation: a request does not hold a wave back; the  *)
(* required jobs are passed by one before anything does; the last wave is  *)
(* not fitted to the jobs left; every completion is counted late.          *)
HeldBack_NoRequest(late) == done >= Needed /\ late
HeldBack_OffByOne(late)  == done > Needed /\ (flag \/ late)
HeldBack(late)           == done >= Needed /\ (flag \/ late)

Outstanding == IF done >= Needed THEN 0 ELSE Needed - done

Admitted_Unfitted(late) ==
  IF late THEN Outstanding ELSE Biggest(workers, Outstanding)
Admitted(late) ==
  Smallest(IF late THEN Outstanding ELSE Biggest(workers, Outstanding),
           Jobs - done)

Late_Always == 1
Late        == IF flag THEN 1 ELSE 0

(* The poll at the head of the ladder: an error ends the run. *)
LadderStart ==
  /\ run = "ladder"
  /\ Poll
  /\ run' = IF flag THEN "ended" ELSE "wave"
  /\ UNCHANGED <<workers, watchVars, placeVars, tallies, reportVars,
                 searchVars, ladderVars>>

(* The head of the wave loop: the reserve is read, then the request when   *)
(* the required jobs are behind.                                           *)
WaveHead ==
  /\ run = "wave"
  /\ expired' \in {e \in BOOLEAN : expired => e}
  /\ observed' = (observed \/ (flag /\ done \in Needed..(Jobs - 1)))
  /\ UNCHANGED <<workers, watchVars, tallies, reportVars, searchVars, done>>

LadderEnds ==
  /\ WaveHead
  /\ done = Jobs \/ HeldBack(expired')
  /\ run' = "ended"
  /\ UNCHANGED <<placeVars, lanes>>

(* A lane's thread pool cannot be built: the run ends with an error. *)
LanesFail ==
  /\ WaveHead
  /\ done < Jobs /\ ~HeldBack(expired')
  /\ run' = "ended"
  /\ UNCHANGED <<placeVars, lanes>>

WaveEnters ==
  /\ WaveHead
  /\ done < Jobs /\ ~HeldBack(expired')
  /\ lanes' = [NoLanes EXCEPT !.spawned = Admitted(expired')]
  /\ StorePhase("reporting_fidelity_verification", done)
  /\ run' = "waveIndex"

WaveIndex ==
  /\ run = "waveIndex"
  /\ StoreIndex(done)
  /\ done' = done + lanes.spawned
  /\ run' = "join"
  /\ UNCHANGED <<workers, watchVars, tallies, observed, reportVars,
                 searchVars, expired, lanes>>

LaneBegins ==
  /\ run = "join" /\ lanes.spawned > 0
  /\ lanes' = [lanes EXCEPT !.spawned = @ - 1, !.working = @ + 1]
  /\ tallies' = [tallies EXCEPT !.started = @ + 1]
  /\ UNCHANGED <<workers, run, watchVars, placeVars, observed, reportVars,
                 searchVars, done, expired>>

(* The analysis ends; its monitor may have read the flag meanwhile. *)
LaneCompletes ==
  /\ run = "join" /\ lanes.working > 0
  /\ lanes' = [lanes EXCEPT !.working = @ - 1, !.tallied = @ + 1]
  /\ tallies' = [tallies EXCEPT !.completed = @ + 1]
  /\ observed' \in {observed, observed \/ flag}
  /\ UNCHANGED <<workers, run, watchVars, placeVars, reportVars, searchVars,
                 done, expired>>

(* `evaluation` reads the flag after it has counted the completion. *)
LaneCounts ==
  /\ run = "join" /\ lanes.tallied > 0
  /\ lanes' = [lanes EXCEPT !.tallied = @ - 1]
  /\ tallies' = [tallies EXCEPT !.after = @ + Late]
  /\ UNCHANGED <<workers, run, watchVars, placeVars, observed, reportVars,
                 searchVars, done, expired>>

(* All lanes joined; `stop` looks at the results and may end the ladder. *)
WaveJoined ==
  /\ run = "join" /\ lanes = NoLanes
  /\ run' \in {"wave", "ended"}
  /\ UNCHANGED <<workers, watchVars, placeVars, tallies, observed, reportVars,
                 searchVars, ladderVars>>

Run == \/ FailEarly \/ EnterInitial \/ EnterGeneration \/ EnterIndex
       \/ PollBeforeBatch \/ Batch \/ SearchStops
       \/ FinishPhase \/ FinishReason \/ FinishTermination
       \/ LadderStart \/ LadderEnds \/ LanesFail
       \/ WaveEnters \/ WaveIndex
       \/ LaneBegins \/ LaneCompletes \/ LaneCounts \/ WaveJoined

-----------------------------------------------------------------------------
(* The guard. *)

runVars == <<workers, run, placeVars, tallies, observed, searchVars,
             ladderVars>>

(* The worker's result arrives in time. *)
ReceiveResult ==
  /\ guard = "wait" /\ run = "ended"
  /\ guard' = "done"
  /\ UNCHANGED <<runVars, flag, record, reportVars>>

(* `recv_timeout` gives up; the result may already be on its way. *)
TimesOut ==
  /\ guard = "wait"
  /\ guard' = "copyPhase"
  /\ UNCHANGED <<runVars, flag, record, reportVars>>

CopyPhase ==
  /\ guard = "copyPhase"
  /\ record' = [record EXCEPT !.phase = phase]
  /\ guard' = "copyIndex"
  /\ UNCHANGED <<runVars, flag, reportVars>>

CopyIndex ==
  /\ guard = "copyIndex"
  /\ record' = [record EXCEPT !.index = index]
  /\ guard' = "copyEvaluations"
  /\ UNCHANGED <<runVars, flag, reportVars>>

(* Wrong variant, for mutation: the flag goes up before the stamp. *)
CopyEvaluations_AndRaise ==
  /\ guard = "copyEvaluations"
  /\ record' = [record EXCEPT !.evaluation = tallies.completed]
  /\ flag' = TRUE
  /\ guard' = "stamp"
  /\ UNCHANGED <<runVars, reportVars>>

CopyEvaluations ==
  /\ guard = "copyEvaluations"
  /\ record' = [record EXCEPT !.evaluation = tallies.completed]
  /\ guard' = "stamp"
  /\ UNCHANGED <<runVars, flag, reportVars>>

Stamp ==
  /\ guard = "stamp"
  /\ record' = [record EXCEPT !.stamp = TRUE]
  /\ guard' = "raise"
  /\ UNCHANGED <<runVars, flag, reportVars>>

Raise ==
  /\ guard = "raise"
  /\ flag' = TRUE
  /\ guard' = "drain"
  /\ UNCHANGED <<runVars, record, reportVars>>

(* Wrong variant, for mutation: the guard does not wait for the worker. *)
Collected_Early == TRUE
Collected       == run = "ended"

(* The worker is received and joined; what it left is classified. *)
Join ==
  /\ guard = "drain" /\ Collected
  /\ guard' = "done"
  /\ reason' = "external_guard_timeout"
  /\ UNCHANGED <<runVars, flag, record, termination>>

Guard == \/ ReceiveResult \/ TimesOut
         \/ CopyPhase \/ CopyIndex \/ CopyEvaluations \/ Stamp \/ Raise
         \/ Join

Next == Run \/ Guard

Spec == Init /\ [][Next]_vars

(* Both threads run on; every analysis ends. *)
FairSpec == Spec /\ WF_vars(Run) /\ WF_vars(Guard)

-----------------------------------------------------------------------------
(* Properties. *)

(* The watch and the two threads hold values of the program; a wave is no  *)
(* wider than its lanes, and the ladder never passes its last job.         *)
TypeOK ==
  /\ workers \in 1..MaxWorkers
  /\ run \in {"start", "initialIndex", "initialPoll", "initial", "search",
              "generationIndex", "generationPoll", "generation", "finish",
              "finishReason", "finishTermination", "ladder", "wave",
              "waveIndex", "join", "ended"}
  /\ guard \in {"wait", "copyPhase", "copyIndex", "copyEvaluations", "stamp",
                "raise", "drain", "done"}
  /\ flag \in BOOLEAN /\ observed \in BOOLEAN /\ expired \in BOOLEAN
  /\ phase \in Phases /\ index \in Nat
  /\ places \subseteq Phases \X Nat
  /\ tallies \in [started : Nat, completed : Nat, after : Nat]
  /\ record \in [phase : Phases, index : Nat, evaluation : Nat,
                 stamp : BOOLEAN]
  /\ reason \in Terminations \cup {"none", "external_guard_timeout"}
  /\ termination \in Terminations \cup {"none"}
  /\ answer \in Terminations \cup {"none"}
  /\ gen \in 0..MaxGenerations /\ done \in 0..Jobs
  /\ lanes \in [spawned : 0..Width, working : 0..Width, tallied : 0..Width]

(* Cancelling costs at most one analysis for each lane: of everything the  *)
(* run finishes after the flag, in the search or in the ladder, no more is *)
(* counted late than can be in flight at once.                             *)
DrainCostBounded == tallies.after <= Width

(* The two figures of the record may both count an analysis, one that has  *)
(* been counted complete and not yet looked at the flag; there are never   *)
(* more of these than lanes.                                               *)
CountedAtMostTwice ==
  flag => record.evaluation + tallies.after <= tallies.completed + Width

(* The request is on record, whole, before the flag can be read, and the   *)
(* record is not touched again.                                            *)
RecordIsFinal == [][flag => record.stamp /\ record' = record]_vars

(* The row the guard reports names the guard when it asked and the search  *)
(* when it did not, and carries the search's own termination either way:   *)
(* the run's last words and the guard's never overwrite each other.        *)
ReportNamesTheRequester ==
  guard = "done" =>
    /\ run = "ended"
    /\ termination = answer
    /\ reason = IF flag THEN "external_guard_timeout" ELSE answer

(* A supervised run is always collected: no wave is left empty for ever.   *)
RunIsCollected == <>(guard = "done")

(***************************************************************************)
(* What `request_cancellation` and the snapshot's fields say of the record *)
(* of a request: the phase in flight and the index in that phase.  They    *)
(* are two loads against two stores, so the pair on record need not be a   *)
(* place the run was ever at.                                              *)
(***************************************************************************)
RecordedPlaceWasEntered ==
  flag => <<record.phase, record.index>> \in places
=============================================================================
