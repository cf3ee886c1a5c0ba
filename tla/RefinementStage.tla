-------------------------- MODULE RefinementStage --------------------------
(***************************************************************************)
(* The refinement stage of the product search and its replay: the L-SHADE  *)
(* kernel and, when that found nothing feasible, the restoration polls,    *)
(* run once under a clock and once more with the counts the first run      *)
(* recorded (alas-opt: search_methods/lshade_de.rs, run_with_admission;    *)
(* lshade_de_evaluation.rs; restoration.rs; product_de.rs, stage_limits;   *)
(* called by optimizer/product_search.rs and feasibility_restoration.rs).  *)
(*                                                                         *)
(* A trial is a function of the seed and of the scores before it, so a     *)
(* phase draws the same points as long as its batches were the same.  A    *)
(* point is its position among those of its phase, and whether it passes   *)
(* the pre-gate and whether the winner is feasible once it is scored is    *)
(* the environment's choice, made when it is first drawn.  An analysed     *)
(* infeasible point has a finite violation.  The request, the clock and    *)
(* the lanes cut a batch as BatchContract and ScreeningStage say.          *)
(***************************************************************************)
EXTENDS Naturals, Sequences, FiniteSets, FiniteSetsExt, SequencesExt

CONSTANTS Budgets,       (* max_evaluations, verification reserve off      *)
          MaxRejects,    (* pre-gate rejection cap                         *)
          Schedules,     (* planned budgets the schedule is laid out on    *)
          Reserve,       (* infeasible_reserve                             *)
          Population,    (* initial population, as planned                 *)
          Minimum,       (* minimum population                             *)
          OperatorMin,   (* OPERATOR_MIN_POPULATION                        *)
          Free,          (* free variables                                 *)
          MaxPolls       (* MAX_POLLS                                      *)

ASSUME RefinementAssumption ==
  /\ {MaxRejects, Population, Minimum, OperatorMin, Free, MaxPolls} \subseteq Nat \ {0}
  /\ Minimum <= Population /\ Reserve \in Nat
  /\ Budgets \subseteq Nat \ {0} /\ Schedules \subseteq Nat \ {0}

VARIABLES
  setting,     (* budget, schedule, clock, deadline inside a batch, after  *)
               (* how many generations it stagnates, gradient trials       *)
  sample,      (* what each point of a phase is worth, as far as drawn     *)
  run,         (* which run: original or replay                            *)
  stop,        (* analysed points a phase stops at                         *)
  pc,          (* where the stage is                                       *)
  expired,     (* the clock has passed the time limit                      *)
  requested,   (* the cancellation flag                                    *)
  size,        (* population size                                          *)
  generations, (* generations_completed                                    *)
  polls,       (* restoration iterations                                   *)
  limit,       (* restoration budget                                       *)
  analysed,    (* scores of a phase that passed the pre-gate               *)
  rejects,     (* scores of a phase that did not                           *)
  log,         (* batches of a phase: points scored before, and points     *)
               (* drawn, scored and analysed                               *)
  termination, (* outcome.termination                                      *)
  recorded     (* what the original run reports                            *)

Phases == {"kernel", "restoration"}
Kinds  == {"rejected", "infeasible", "valid"}

envVars   == <<setting, run, stop>>
countVars == <<analysed, rejects, log>>
vars == <<envVars, sample, pc, expired, requested, size, generations, polls, limit,
          countVars, termination, recorded>>

Least(a, b) == IF a <= b THEN a ELSE b
Most(a, b)  == IF a >= b THEN a ELSE b
Minus(a, b) == IF a >= b THEN a - b ELSE 0   (* saturating_sub *)

(* The limits as the kernel clamps them: a budget below the population     *)
(* leaves less than the operators need.                                    *)
Budget   == setting.budget
Schedule == Least(setting.schedule, Budget)
Initial  == Least(Population, Budget)
Floor    == Least(Minimum, Initial)

Base(phase)    == analysed[phase] + rejects[phase]
FoundValid     == \E phase \in Phases : \E i \in 1..Base(phase) : sample[phase][i] = "valid"
Timed          == run = "original" /\ setting.timed
Passed(s, b, c) == Cardinality({i \in (b + 1)..(b + c) : s[i] # "rejected"})

-----------------------------------------------------------------------------
Zero == [p \in Phases |-> 0]

Init ==
  /\ setting \in [budget : Budgets, schedule : Schedules, timed : BOOLEAN, intra : BOOLEAN,
                  stagnates : 0..1, gradient : BOOLEAN]
  /\ setting.timed \/ ~setting.intra
  /\ sample = [p \in Phases |-> <<>>]
  /\ run = "original" /\ stop = [kernel |-> Budget, restoration |-> Budget]
  /\ expired \in {FALSE, setting.timed} /\ requested = FALSE
  /\ pc = "enter" /\ size = Initial /\ generations = 0 /\ polls = 0 /\ limit = 0
  /\ analysed = Zero /\ rejects = Zero
  /\ log = [p \in Phases |-> <<>>]
  /\ termination = "evaluation_budget"
  /\ recorded = <<>>

(* The replay is the same code; its cancellation would show nothing new. *)
Request ==
  /\ run = "original" /\ pc # "done" /\ ~requested
  /\ requested' = TRUE
  /\ UNCHANGED <<envVars, sample, pc, expired, size, generations, polls, limit, countVars,
                 termination, recorded>>

(***************************************************************************)
(* One batch: `evaluate` for `count` points of a phase of which `remaining`*)
(* may be analysed.  A batch that fits is handed over whole; the last one  *)
(* of a replay goes point by point until the next point to pass is one too *)
(* many.  The deadline leaves the scores up to the first unanswered point. *)
(***************************************************************************)
Longer(s, n) ==
  IF Len(s) >= n THEN {s}
  ELSE {w \in {s \o t : t \in [1..(n - Len(s)) -> Kinds]} :
          \A i \in 1..n : w[i] = "valid" => \A j \in i..n : w[j] # "infeasible"}

Prefix(s, b, count, allowed) ==
  Max({c \in 0..count : Passed(s, b, c) <= allowed})

Wave(phase, count, remaining) ==
  \E s \in Longer(sample[phase], Base(phase) + count) :
    LET b   == Base(phase)
        all == Passed(s, b, count)
    IN  \E answered \in IF Timed /\ setting.intra THEN 0..all ELSE {all} :
          LET scored == Prefix(s, b, count, Least(answered, remaining))
              passed == Passed(s, b, scored)
          IN  (* Of a point cut off it only matters that it passes. *)
              /\ Len(sample[phase]) <= b + scored /\ scored < count =>
                   s[b + scored + 1] # "valid"
              /\ sample' = [sample EXCEPT ![phase] =
                   SubSeq(s, 1, Most(Len(@), b + Least(scored + 1, count)))]
              /\ expired' \in IF answered < all THEN {TRUE} ELSE {expired, Timed}
              /\ analysed' = [analysed EXCEPT ![phase] = @ + passed]
              /\ rejects' = [rejects EXCEPT ![phase] = @ + (scored - passed)]
              /\ log' = [log EXCEPT ![phase] =
                           Append(@, [from |-> b, drawn |-> count, scored |-> scored,
                                      analysed |-> passed])]

LastBatch(phase) == Last(log[phase])
Short(phase)     == LastBatch(phase).scored < LastBatch(phase).drawn

-----------------------------------------------------------------------------
(* The kernel. *)

(* The kernel returns; feasibility_restoration.rs looks at its outcome. *)
KernelEnds(why) ==
  /\ pc' = "restore" /\ termination' = why
  /\ UNCHANGED <<envVars, sample, expired, requested, size, generations, polls, limit,
                 countVars, recorded>>

InitialCancelled == pc = "enter" /\ requested /\ KernelEnds("cancelled")

InitialPopulation ==
  /\ pc = "enter" /\ ~requested
  /\ Wave("kernel", Initial, stop["kernel"])
  /\ pc' = "initial"
  /\ UNCHANGED <<envVars, requested, size, generations, polls, limit, termination, recorded>>

PrefixTermination ==
  IF analysed["kernel"] >= stop["kernel"] THEN "evaluation_budget" ELSE "time_budget"

InitialEnds ==
  /\ pc = "initial" /\ (requested \/ Short("kernel"))
  /\ KernelEnds(IF requested THEN "cancelled" ELSE PrefixTermination)

InitialDone ==
  /\ pc = "initial" /\ ~requested /\ ~Short("kernel")
  /\ pc' = "top"
  /\ UNCHANGED <<envVars, sample, expired, requested, size, generations, polls, limit,
                 countVars, termination, recorded>>

(* Wrong variant, for mutation: nothing is kept back for the restoration. *)
EvaluationLimit_Whole == Budget
EvaluationLimit ==
  IF FoundValid THEN Budget ELSE Minus(Schedule, Reserve)

Count == Least(size, Minus(EvaluationLimit, analysed["kernel"]))

(* The tests at the head of a generation, in their order. *)
OperatorsStop == pc = "top" /\ size < OperatorMin /\ KernelEnds("evaluation_budget")
InLoop        == pc = "top" /\ size >= OperatorMin
Reached       == analysed["kernel"] >= stop["kernel"]
Capped        == rejects["kernel"] >= MaxRejects
CountReached  == InLoop /\ Reached /\ KernelEnds("evaluation_budget")
CapReached    == InLoop /\ ~Reached /\ Capped /\ KernelEnds("pregate_exhausted")
MayGenerate   == InLoop /\ ~Reached /\ ~Capped
LimitReached  == MayGenerate /\ Count = 0 /\ KernelEnds("evaluation_budget")

(* The guard projects a generation unless the batch itself can be cut. *)
TimeReached ==
  /\ MayGenerate /\ Count > 0 /\ Timed
  /\ expired \/ ~setting.intra
  /\ KernelEnds("time_budget")

GenerationCancelled ==
  /\ MayGenerate /\ Count > 0 /\ (Timed => ~expired)
  /\ requested
  /\ KernelEnds("cancelled")

Generation ==
  /\ MayGenerate /\ Count > 0 /\ (Timed => ~expired)
  /\ ~requested
  /\ Wave("kernel", Count, stop["kernel"] - analysed["kernel"])
  /\ pc' = "generation"
  /\ UNCHANGED <<envVars, requested, size, generations, polls, limit, termination, recorded>>

BatchCancelled == pc = "generation" /\ requested /\ KernelEnds("cancelled")

(* The generation counts, then its missing trials end the search. *)
GenerationCut ==
  /\ pc = "generation" /\ ~requested /\ Short("kernel")
  /\ generations' = generations + 1
  /\ pc' = "restore" /\ termination' = PrefixTermination
  /\ UNCHANGED <<envVars, sample, expired, requested, size, polls, limit, countVars, recorded>>

(* linear_reduced_size, the nearest integer, and quantized_size. *)
Linear(e) ==
  LET done == Least(e, Schedule)
      n    == Schedule
  IN  (2 * (Initial * n - (Initial - Floor) * done) + n) \div (2 * n)

(* Wrong variant, for mutation: past the schedule the line goes on down. *)
NextSize_Extrapolated ==
  LET n == Schedule
  IN  (2 * (Initial * n - (Initial - Floor) * analysed["kernel"]) + n) \div (2 * n)
NextSize         == Least(Most(Linear(analysed["kernel"]), Floor), Most(size, Floor))

(* Stagnation is asked about only once something feasible was found. *)
Settled == FoundValid /\ generations + 1 = setting.stagnates

GenerationDone ==
  /\ pc = "generation" /\ ~requested /\ ~Short("kernel")
  /\ generations' = generations + 1
  /\ size' = Least(NextSize, size)
  /\ IF Settled THEN pc' = "restore" /\ termination' = "stagnated"
                ELSE pc' = "top" /\ UNCHANGED termination
  /\ UNCHANGED <<envVars, sample, expired, requested, polls, limit, countVars, recorded>>

Kernel == \/ InitialCancelled \/ InitialPopulation \/ InitialEnds \/ InitialDone
          \/ OperatorsStop \/ CountReached \/ CapReached \/ LimitReached \/ TimeReached
          \/ GenerationCancelled \/ Generation \/ BatchCancelled \/ GenerationCut
          \/ GenerationDone

-----------------------------------------------------------------------------
(* The restoration. *)

MaxScores == Least(Budget - analysed["kernel"], Minus(MaxRejects, rejects["kernel"]))

Ends(why) ==
  /\ pc' = "done" /\ termination' = why
  /\ UNCHANGED <<envVars, sample, expired, requested, size, generations, polls, limit,
                 countVars, recorded>>

NeedsRestoration ==
  MaxScores > 0 /\ ~FoundValid /\ termination # "cancelled" /\ analysed["kernel"] > 0

NoRestoration == pc = "restore" /\ ~NeedsRestoration /\ Ends(termination)

RestorationCancelled == pc = "restore" /\ NeedsRestoration /\ requested /\ Ends("cancelled")

(* Outside a replay the stop is what the kernel left of its own. *)
StartRestoration ==
  /\ pc = "restore" /\ NeedsRestoration /\ ~requested
  /\ stop' = IF run = "original"
               THEN [stop EXCEPT !["restoration"] = Minus(stop["kernel"], analysed["kernel"])]
               ELSE stop
  /\ limit' = Least(MaxPolls * (2 * Free + 1), MaxScores)
  /\ pc' = "poll"
  /\ UNCHANGED <<setting, run, sample, expired, requested, size, generations, polls,
                 countVars, termination, recorded>>

(* A wave that would not fit is not started. *)
Fits == Base("restoration") + 2 * Free <= limit

MayPoll ==
  /\ pc = "poll" /\ polls < MaxPolls /\ Fits
  /\ analysed["restoration"] < stop["restoration"]
  /\ Timed => ~expired

PollsEnd == pc = "poll" /\ ~MayPoll /\ Ends(termination)

PollCancelled == MayPoll /\ requested /\ Ends("cancelled")

Poll ==
  /\ MayPoll /\ ~requested
  /\ Wave("restoration", 2 * Free, stop["restoration"] - analysed["restoration"])
  /\ pc' = "polled"
  /\ UNCHANGED <<envVars, requested, size, generations, polls, limit, termination, recorded>>

(* A wave completes before its winner stops the phase. *)
PollStops ==
  /\ pc \in {"polled", "tried"}
  /\ requested \/ FoundValid \/ (pc = "polled" /\ Short("restoration"))
  /\ polls' = IF pc = "polled" /\ ~requested THEN polls + 1 ELSE polls
  /\ pc' = "done"
  /\ termination' = IF requested THEN "cancelled" ELSE termination
  /\ UNCHANGED <<envVars, sample, expired, requested, size, generations, limit, countVars,
                 recorded>>

MayTry ==
  /\ setting.gradient /\ Base("restoration") < limit
  /\ analysed["restoration"] < stop["restoration"]
  /\ Timed => ~expired

Try ==
  /\ pc = "polled" /\ ~requested /\ ~FoundValid /\ ~Short("restoration") /\ MayTry
  /\ Wave("restoration", 1, 1)
  /\ polls' = polls + 1
  /\ pc' = "tried"
  /\ UNCHANGED <<envVars, requested, size, generations, limit, termination, recorded>>

(* The radius is halved at worst and outlasts MAX_POLLS. *)
PollDone ==
  /\ \/ pc = "polled" /\ ~Short("restoration") /\ ~MayTry
     \/ pc = "tried"
  /\ ~requested /\ ~FoundValid
  /\ polls' = IF pc = "polled" THEN polls + 1 ELSE polls
  /\ pc' = "poll"
  /\ UNCHANGED <<envVars, sample, expired, requested, size, generations, limit, countVars,
                 termination, recorded>>

Restoration == \/ NoRestoration \/ RestorationCancelled \/ StartRestoration
               \/ PollsEnd \/ PollCancelled \/ Poll \/ PollStops \/ Try \/ PollDone

-----------------------------------------------------------------------------
(* The replay. *)

(* Wrong variant, for mutation: the combined count stops the kernel. *)
ReplayStop_Combined(total, restored) ==
  [kernel |-> Least(total, Budget), restoration |-> restored]

(* stage_limits, refinement_settings and restoration_replay. *)
ReplayStop(total, restored) ==
  [kernel |-> Minus(Least(Most(total, 1), Budget), restored), restoration |-> restored]

Total == analysed["kernel"] + analysed["restoration"]

(* The configuration refuses a replay of nothing. *)
Unreplayable ==
  /\ run = "original" /\ pc = "done" /\ Total = 0
  /\ pc' = "unreplayable"
  /\ UNCHANGED <<envVars, sample, expired, requested, size, generations, polls, limit,
                 countVars, termination, recorded>>

Replay ==
  /\ run = "original" /\ pc = "done" /\ Total > 0
  /\ recorded' = [analysed |-> analysed, generations |-> generations, log |-> log,
                  valid |-> FoundValid, termination |-> termination]
  /\ run' = "replay"
  /\ stop' = ReplayStop(Total, analysed["restoration"])
  /\ expired' = FALSE /\ requested' = FALSE
  /\ pc' = "enter" /\ size' = Initial /\ generations' = 0 /\ polls' = 0 /\ limit' = 0
  /\ analysed' = Zero /\ rejects' = Zero
  /\ log' = [p \in Phases |-> <<>>]
  /\ termination' = "evaluation_budget"
  /\ UNCHANGED <<setting, sample>>

Next == Request \/ Kernel \/ Restoration \/ Unreplayable \/ Replay

Spec == Init /\ [][Next]_vars

-----------------------------------------------------------------------------
(* Properties. *)

Batch == [from : Nat, drawn : Nat, scored : Nat, analysed : Nat]

(* Where the i-th batch of a phase ends.                                   *)
End(p, i) == IF i = 0 THEN 0 ELSE log[p][i].from + log[p][i].scored

(* The state is one of the stage's, the schedule keeps the population      *)
(* between its floor and where it started, and the batches of a phase      *)
(* follow one another up to its counters.                                  *)
TypeOK ==
  /\ sample \in [Phases -> Seq(Kinds)] /\ run \in {"original", "replay"}
  /\ stop \in [Phases -> 0..Budget]
  /\ pc \in {"enter", "initial", "top", "generation", "restore", "poll", "polled", "tried",
             "done", "unreplayable"}
  /\ expired \in BOOLEAN /\ requested \in BOOLEAN
  /\ size \in Floor..Initial /\ generations \in Nat /\ polls \in 0..MaxPolls
  /\ limit \in Nat
  /\ analysed \in [Phases -> Nat] /\ rejects \in [Phases -> Nat]
  /\ log \in [Phases -> Seq(Batch)]
  /\ termination \in {"evaluation_budget", "pregate_exhausted", "time_budget", "cancelled",
                      "stagnated"}
  /\ \A p \in Phases : /\ Base(p) = End(p, Len(log[p]))
                        /\ \A i \in 1..Len(log[p]) : log[p][i].from = End(p, i - 1)

(* The phases share one budget and one rejection cap.  Rejections pass the *)
(* cap by less than a generation, in the kernel only; until something      *)
(* feasible is found the kernel leaves the reserve to the restoration; a   *)
(* poll that would not fit is not started; and only the last batch of a    *)
(* phase is short, so no phase goes on without scoring anything.           *)
LimitsHold ==
  /\ Total <= Budget
  /\ rejects["kernel"] < MaxRejects + Initial
  /\ rejects["restoration"] <= Minus(MaxRejects, rejects["kernel"])
  /\ ~FoundValid => analysed["kernel"] <= Most(Initial, Minus(Schedule, Reserve))
  /\ Base("restoration") <= limit
  /\ \A p \in Phases : \A i \in 1..(Len(log[p]) - 1) :
       log[p][i].scored = log[p][i].drawn /\ log[p][i].drawn > 0

(***************************************************************************)
(* A replay with the counts a run recorded repeats it: each phase sends    *)
(* the same batches, cut at the same point, analyses the same candidates   *)
(* and finds the same winner.  What it does not repeat are batches at the  *)
(* end of a phase of which nothing was analysed, and a generation among    *)
(* them still counts as completed in the original.                         *)
(***************************************************************************)
ReplayIsTheRun ==
  run = "replay" /\ pc = "done" /\ termination # "cancelled"
      /\ recorded.termination # "cancelled" =>
    /\ analysed = recorded.analysed
    /\ FoundValid = recorded.valid
    /\ generations <= recorded.generations
    /\ \A p \in Phases :
         /\ IsPrefix(log[p], recorded.log[p])
         /\ \A i \in (Len(log[p]) + 1)..Len(recorded.log[p]) :
              recorded.log[p][i].analysed = 0
=============================================================================
