------------------------ MODULE CancelWatch_proofs ------------------------
(***************************************************************************)
(* Proofs about CancelWatch, for every number of workers, generations,     *)
(* jobs and required jobs.                                                 *)
(*                                                                         *)
(* None of the properties is inductive.  GuardInv adds where the guard is  *)
(* when the flag goes up; ReportInv which words each of the two has        *)
(* written by then; CostInv that a wave begun after the flag is the first  *)
(* one, so that what is counted late and what is in flight never exceed    *)
(* one wave together.                                                      *)
(***************************************************************************)
EXTENDS CancelWatch, TLAPS

Searching == {"start", "initialIndex", "initialPoll", "initial", "search",
              "generationIndex", "generationPoll", "generation"}
Ladder    == {"ladder", "wave", "waveIndex", "join", "ended"}
Copying   == {"wait", "copyPhase", "copyIndex", "copyEvaluations", "stamp", "raise"}

GuardInv ==
  /\ guard \in Copying => ~flag
  /\ guard = "drain" => flag
  /\ guard = "raise" \/ flag => record.stamp
  /\ record.evaluation <= tallies.completed

ReportInv ==
  /\ run \in Searching => answer = "none"
  /\ run \in Searching \cup {"finish", "finishReason"} => reason = "none" /\ termination = "none"
  /\ run = "finishTermination" => reason = answer
  /\ run \in Ladder => termination = answer
  /\ run \in Ladder /\ guard # "done" => reason = answer
  /\ guard = "done" => run = "ended" /\ reason = IF flag THEN "external_guard_timeout" ELSE answer

CostInv ==
  /\ ~flag => tallies.after = 0
  /\ run \in Searching => tallies.after = 0
  /\ run \in Searching \cup {"finish", "finishReason", "finishTermination", "ladder"} => done = 0
  /\ run \notin {"waveIndex", "join"} => lanes = NoLanes
  /\ run = "wave" => tallies.after = 0 \/ done >= Needed
  /\ run = "waveIndex" => done + lanes.spawned >= Needed /\ done + lanes.spawned <= Jobs
  /\ run = "join" => done >= Needed
  /\ run \in {"generationIndex", "generationPoll", "generation"} => gen < MaxGenerations
  /\ tallies.after + lanes.spawned + lanes.working + lanes.tallied <= Width

WatchInv == TypeOK /\ GuardInv /\ ReportInv /\ CostInv

-----------------------------------------------------------------------------
(* The widths of a wave. *)

LEMMA Widths ==
  ASSUME TypeOK
  PROVE  /\ workers \in Nat \ {0} /\ Jobs \in Nat \ {0} /\ Width \in Nat
         /\ Needed \in 1..Jobs /\ workers <= Width /\ Needed <= Width
BY WatchAssumption DEF TypeOK, Width, Needed, Biggest, Smallest

(* A wave fits in its lanes and in the jobs left, and the first one covers *)
(* the required jobs.                                                      *)
LEMMA WaveFits ==
  ASSUME TypeOK, NEW e \in BOOLEAN, done < Jobs
  PROVE  /\ Admitted(e) \in 0..Width /\ done + Admitted(e) <= Jobs
         /\ done + Admitted(e) >= Needed
<1>1. /\ workers \in Nat \ {0} /\ Jobs \in Nat \ {0} /\ Width \in Nat
      /\ Needed \in 1..Jobs /\ workers <= Width /\ Needed <= Width
  BY Widths
<1>2. done \in 0..Jobs BY DEF TypeOK
<1>3. Outstanding \in 0..Needed /\ done + Outstanding >= Needed /\ done + Outstanding <= Jobs
  BY <1>1, <1>2 DEF Outstanding
<1> HIDE DEF Needed, Width, Outstanding
<1> QED BY <1>1, <1>2, <1>3 DEF Admitted, Biggest, Smallest

-----------------------------------------------------------------------------
(* The initial state. *)

LEMMA InitWatch == Init => WatchInv
<1> SUFFICES ASSUME Init PROVE WatchInv OBVIOUS
<1> USE DEF Init, NoLanes
<1>0. workers \in Nat \ {0} BY WatchAssumption
<1>1. Width \in Nat BY <1>0, WatchAssumption DEF Width, Needed, Biggest, Smallest
<1> HIDE DEF Width
<1>2. TypeOK
  <2>1. <<"not_started", 0>> \in Phases \X Nat BY DEF Phases
  <2>2. lanes \in [spawned : 0..Width, working : 0..Width, tallied : 0..Width] BY <1>1
  <2>3. gen \in 0..MaxGenerations /\ done \in 0..Jobs BY WatchAssumption
  <2>4. tallies \in [started : Nat, completed : Nat, after : Nat]
        /\ record \in [phase : Phases, index : Nat, evaluation : Nat, stamp : BOOLEAN]
    BY DEF Phases
  <2>5. phase \in Phases /\ places \subseteq Phases \X Nat BY <2>1 DEF Phases
  <2> QED BY <2>2, <2>3, <2>4, <2>5 DEF TypeOK
<1>3. GuardInv BY DEF GuardInv, Copying
<1>4. ReportInv BY DEF ReportInv, Searching, Ladder
<1>5. CostInv
  <2>1. tallies.after + lanes.spawned + lanes.working + lanes.tallied = 0
    <3>1. tallies.after = 0 /\ lanes.spawned = 0 /\ lanes.working = 0 /\ lanes.tallied = 0
      OBVIOUS
    <3> QED BY <3>1
  <2>2. tallies.after = 0 /\ done = 0 /\ run = "start" /\ lanes = NoLanes OBVIOUS
  <2> QED BY <1>1, <2>1, <2>2 DEF CostInv
<1> QED BY <1>2, <1>3, <1>4, <1>5 DEF WatchInv

-----------------------------------------------------------------------------
(* The guard's steps leave the run alone, and the run's the record. *)

LEMMA GuardKeeps == WatchInv /\ Guard => WatchInv'
<1> SUFFICES ASSUME WatchInv, Guard PROVE WatchInv' OBVIOUS
<1> USE DEF WatchInv
<1>1. UNCHANGED runVars
  BY DEF Guard, ReceiveResult, TimesOut, CopyPhase, CopyIndex, CopyEvaluations, Stamp, Raise,
         Join
<1>2. flag => flag' /\ guard' \notin Copying
  BY DEF Guard, ReceiveResult, TimesOut, CopyPhase, CopyIndex, CopyEvaluations, Stamp, Raise,
         Join, GuardInv, Copying
<1>3. CostInv' BY <1>1, <1>2 DEF CostInv, runVars, placeVars, searchVars, ladderVars, Width
<1>4. ASSUME TypeOK', GuardInv', ReportInv' PROVE WatchInv' BY <1>3, <1>4
<1>w. Width' = Width BY <1>1 DEF Width, runVars
<1> USE <1>w DEF runVars, placeVars, searchVars, ladderVars, reportVars
<1>5. CASE ReceiveResult
  <2>1. TypeOK' BY <1>5 DEF ReceiveResult, TypeOK
  <2>2. GuardInv' BY <1>5 DEF ReceiveResult, GuardInv, Copying
  <2>3. ReportInv' BY <1>5 DEF ReceiveResult, ReportInv, GuardInv, Copying, Ladder, Searching
  <2> QED BY <1>4, <2>1, <2>2, <2>3
<1>6. CASE TimesOut
  <2>1. TypeOK' BY <1>6 DEF TimesOut, TypeOK
  <2>2. GuardInv' BY <1>6 DEF TimesOut, GuardInv, Copying
  <2>3. ReportInv' BY <1>6 DEF TimesOut, ReportInv
  <2> QED BY <1>4, <2>1, <2>2, <2>3
<1>7. CASE CopyPhase
  <2>1. TypeOK' BY <1>7 DEF CopyPhase, TypeOK
  <2>2. GuardInv' BY <1>7 DEF CopyPhase, GuardInv, Copying, TypeOK
  <2>3. ReportInv' BY <1>7 DEF CopyPhase, ReportInv
  <2> QED BY <1>4, <2>1, <2>2, <2>3
<1>8. CASE CopyIndex
  <2>1. TypeOK' BY <1>8 DEF CopyIndex, TypeOK
  <2>2. GuardInv' BY <1>8 DEF CopyIndex, GuardInv, Copying, TypeOK
  <2>3. ReportInv' BY <1>8 DEF CopyIndex, ReportInv
  <2> QED BY <1>4, <2>1, <2>2, <2>3
<1>9. CASE CopyEvaluations
  <2>1. TypeOK' BY <1>9 DEF CopyEvaluations, TypeOK
  <2>2. GuardInv' BY <1>9 DEF CopyEvaluations, GuardInv, Copying, TypeOK
  <2>3. ReportInv' BY <1>9 DEF CopyEvaluations, ReportInv
  <2> QED BY <1>4, <2>1, <2>2, <2>3
<1>10. CASE Stamp
  <2>1. TypeOK' BY <1>10, ZenonT(30) DEF Stamp, TypeOK
  <2>2. GuardInv' BY <1>10 DEF Stamp, GuardInv, Copying, TypeOK
  <2>3. ReportInv' BY <1>10 DEF Stamp, ReportInv
  <2> QED BY <1>4, <2>1, <2>2, <2>3
<1>11. CASE Raise
  <2>1. TypeOK' BY <1>11 DEF Raise, TypeOK
  <2>2. GuardInv' BY <1>11 DEF Raise, GuardInv, Copying
  <2>3. ReportInv' BY <1>11 DEF Raise, ReportInv
  <2> QED BY <1>4, <2>1, <2>2, <2>3
<1>12. CASE Join
  <2>1. TypeOK' BY <1>12 DEF Join, TypeOK
  <2>2. GuardInv' BY <1>12 DEF Join, GuardInv, Copying
  <2>3. ReportInv' BY <1>12 DEF Join, Collected, ReportInv, GuardInv, Ladder, Searching
  <2> QED BY <1>4, <2>1, <2>2, <2>3
<1> QED BY <1>5, <1>6, <1>7, <1>8, <1>9, <1>10, <1>11, <1>12 DEF Guard

(* What a step of the run owes beyond its own bookkeeping. *)
LEMMA RunFrame ==
  ASSUME WatchInv, UNCHANGED <<workers, watchVars>>, run # "ended",
         TypeOK', ReportInv', CostInv', tallies.completed <= tallies'.completed
  PROVE  WatchInv'
<1>1. GuardInv'
  <2>1. record.evaluation \in Nat /\ tallies.completed \in Nat /\ tallies'.completed \in Nat
    BY DEF WatchInv, TypeOK
  <2> QED BY <2>1 DEF WatchInv, GuardInv, watchVars
<1> QED BY <1>1 DEF WatchInv

(* The guard has not reported on a run that goes on. *)
LEMMA RunIsLive == ASSUME WatchInv, run # "ended" PROVE guard # "done"
BY DEF WatchInv, ReportInv

-----------------------------------------------------------------------------
(* The run. *)

(* Until the ladder nothing is in flight between two steps. *)
LEMMA SearchKeeps ==
  ASSUME WatchInv,
         \/ FailEarly \/ EnterInitial \/ EnterGeneration \/ EnterIndex \/ PollBeforeBatch
         \/ SearchStops \/ FinishPhase \/ FinishReason \/ FinishTermination
  PROVE  WatchInv'
<1> USE DEF StorePhase, StoreIndex, Poll
<1>0. TypeOK /\ ReportInv /\ CostInv BY DEF WatchInv
<1>1. /\ UNCHANGED <<workers, watchVars, tallies, ladderVars>> /\ run # "ended"
      /\ run' \in Searching \cup Ladder \cup {"finish", "finishReason", "finishTermination"}
      /\ run' \notin {"wave", "waveIndex", "join"}
      /\ run' \in Searching => run \in Searching
      /\ run' # "ended" => run' \notin Ladder \/ run' = "ladder"
      /\ run \notin Ladder
  BY DEF FailEarly, EnterInitial, EnterGeneration, EnterIndex, PollBeforeBatch, SearchStops,
         FinishPhase, FinishReason, FinishTermination, Searching, Ladder
<1>2. guard # "done" BY <1>1, RunIsLive
<1>3. tallies.completed <= tallies'.completed BY <1>0, <1>1 DEF TypeOK
<1>4. ReportInv'
  <2>1. guard' # "done" BY <1>1, <1>2 DEF watchVars
  <2> USE <1>0, <2>1 DEF ReportInv, Searching, Ladder
  <2>2. CASE FailEarly BY <2>2 DEF FailEarly, searchVars, reportVars
  <2>3. CASE EnterInitial BY <2>3 DEF EnterInitial, searchVars, reportVars
  <2>4. CASE EnterGeneration BY <2>4 DEF EnterGeneration, searchVars, reportVars
  <2>5. CASE EnterIndex BY <2>5 DEF EnterIndex, searchVars, reportVars
  <2>6. CASE PollBeforeBatch BY <2>6 DEF PollBeforeBatch, reportVars
  <2>7. CASE SearchStops BY <2>7 DEF SearchStops, reportVars
  <2>8. CASE FinishPhase BY <2>8 DEF FinishPhase, searchVars, reportVars
  <2>9. CASE FinishReason BY <2>9 DEF FinishReason, searchVars
  <2>10. CASE FinishTermination BY <2>10 DEF FinishTermination, searchVars
  <2> QED BY <2>2, <2>3, <2>4, <2>5, <2>6, <2>7, <2>8, <2>9, <2>10
<1>5. CostInv'
  <2>1. Width' = Width BY <1>1 DEF Width
  <2>2. (lanes = NoLanes /\ done = 0) \/ run = "ended"
    <3>1. run \in Searching \cup {"finish", "finishReason", "finishTermination"}
      BY DEF FailEarly, EnterInitial, EnterGeneration, EnterIndex, PollBeforeBatch,
             SearchStops, FinishPhase, FinishReason, FinishTermination, Searching
    <3> QED BY <1>0, <3>1 DEF CostInv, Searching
  <2>3. run' \in {"generationIndex", "generationPoll", "generation"} => gen' < MaxGenerations
    BY <1>0 DEF FailEarly, EnterInitial, EnterGeneration, EnterIndex, PollBeforeBatch,
                SearchStops, FinishPhase, FinishReason, FinishTermination, CostInv, searchVars
  <2> QED BY <1>0, <1>1, <2>1, <2>2, <2>3 DEF CostInv, watchVars, ladderVars
<1>6. TypeOK'
  <2>0. Width' = Width BY <1>1 DEF Width
  <2> USE <1>0, <2>0 DEF TypeOK, watchVars, ladderVars, searchVars, reportVars, Phases,
                         Terminations
  <2>2. CASE FailEarly BY <2>2 DEF FailEarly, placeVars
  <2>3. CASE EnterInitial BY <2>3 DEF EnterInitial
  <2>4. CASE EnterGeneration BY <2>4, WatchAssumption DEF EnterGeneration
  <2>5. CASE EnterIndex BY <2>5, WatchAssumption DEF EnterIndex
  <2>6. CASE PollBeforeBatch BY <2>6 DEF PollBeforeBatch, placeVars
  <2>7. CASE SearchStops BY <2>7 DEF SearchStops, placeVars
  <2>8. CASE FinishPhase BY <2>8 DEF FinishPhase
  <2>9. CASE FinishReason BY <2>9 DEF FinishReason, placeVars
  <2>10. CASE FinishTermination BY <2>10 DEF FinishTermination, placeVars
  <2> QED BY <2>2, <2>3, <2>4, <2>5, <2>6, <2>7, <2>8, <2>9, <2>10
<1> QED BY <1>1, <1>3, <1>4, <1>5, <1>6, RunFrame

(* A batch counts late no more candidates than it has lanes, and the run   *)
(* then goes to its end.                                                   *)
LEMMA BatchKeeps == ASSUME WatchInv, Batch PROVE WatchInv'
<1>0. TypeOK /\ ReportInv /\ CostInv BY DEF WatchInv
<1>1. PICK n \in Nat, late \in Nat :
        /\ late <= workers /\ (~flag => late = 0) /\ tallies' = Tallied(n, late)
  <2>1. workers \in Nat /\ Generation \in Nat BY <1>0, WatchAssumption DEF TypeOK
  <2>2. PICK n \in IF flag THEN 0..Generation ELSE {Generation} :
          \E late \in IF flag THEN 0..Smallest(n, workers) ELSE {0} :
            tallies' = Tallied(n, late)
    BY DEF Batch
  <2>3. n \in Nat BY <2>1, <2>2
  <2>4. PICK late \in IF flag THEN 0..Smallest(n, workers) ELSE {0} :
          tallies' = Tallied(n, late)
    BY <2>2
  <2>5. late \in Nat /\ late <= workers /\ (~flag => late = 0)
    BY <2>1, <2>3, <2>4 DEF Smallest
  <2> QED BY <2>3, <2>4, <2>5
<1>2. /\ run \in {"initial", "generation"} /\ run' = IF flag THEN "finish" ELSE "search"
      /\ UNCHANGED <<workers, watchVars, placeVars, reportVars, ladderVars>>
      /\ flag => answer' = "cancelled" /\ gen' = gen
      /\ ~flag => answer' = answer /\ gen' = IF run = "generation" THEN gen + 1 ELSE gen
  BY DEF Batch
<1>3. /\ tallies' \in [started : Nat, completed : Nat, after : Nat]
      /\ tallies'.after = tallies.after + late /\ tallies'.completed = tallies.completed + n
  BY <1>0, <1>1 DEF TypeOK, Tallied
<1>4. tallies.after = 0 /\ lanes = NoLanes /\ done = 0
  BY <1>0, <1>2 DEF CostInv, Searching
<1>5. CostInv'
  <2>1. Width' = Width /\ workers <= Width /\ Width \in Nat /\ workers \in Nat
    BY <1>0, <1>2, Widths DEF Width
  <2> HIDE DEF Width
  <2>2. flag' = flag /\ lanes' = NoLanes /\ done' = 0 /\ tallies'.after = late
    BY <1>2, <1>3, <1>4 DEF watchVars, ladderVars
  <2>3. tallies'.after + lanes'.spawned + lanes'.working + lanes'.tallied <= Width'
    BY <1>1, <2>1, <2>2 DEF NoLanes
  <2> QED BY <1>1, <1>2, <2>2, <2>3 DEF CostInv, Searching, Ladder
<1>6. ReportInv'
  <2>1. guard # "done" BY <1>2, RunIsLive
  <2> QED BY <1>0, <1>2, <2>1 DEF ReportInv, Searching, Ladder, watchVars, reportVars
<1>7. TypeOK'
  <2>1. Width' = Width BY <1>2 DEF Width
  <2>2. gen' \in 0..MaxGenerations
    BY <1>0, <1>2, WatchAssumption DEF TypeOK, CostInv
  <2>3. observed' \in BOOLEAN BY <1>0 DEF Batch, Poll, TypeOK
  <2> QED BY <1>0, <1>2, <1>3, <2>1, <2>2, <2>3
          DEF TypeOK, watchVars, placeVars, reportVars, ladderVars, Terminations
<1>8. tallies.completed <= tallies'.completed BY <1>0, <1>1, <1>3 DEF TypeOK
<1> QED BY <1>2, <1>5, <1>6, <1>7, <1>8, RunFrame

(* The ladder: a wave begins with nothing counted late, unless the jobs    *)
(* that always run are behind it, and then none begins after a request.    *)
LEMMA LadderKeeps ==
  ASSUME WatchInv,
         \/ LadderStart \/ LadderEnds \/ LanesFail \/ WaveEnters \/ WaveIndex \/ WaveJoined
  PROVE  WatchInv'
<1> USE DEF StorePhase, StoreIndex, Poll
<1>0. TypeOK /\ ReportInv /\ CostInv BY DEF WatchInv
<1>1. /\ UNCHANGED <<workers, watchVars, tallies, reportVars, searchVars>>
      /\ run # "ended" /\ run \in Ladder /\ run' \in Ladder \ {"ladder"}
  BY DEF LadderStart, LadderEnds, LanesFail, WaveEnters, WaveIndex, WaveJoined, WaveHead, Ladder
<1>2. guard # "done" BY <1>1, RunIsLive
<1>3. tallies.completed <= tallies'.completed BY <1>0, <1>1 DEF TypeOK
<1>4. ReportInv'
  BY <1>0, <1>1, <1>2 DEF ReportInv, Searching, Ladder, watchVars, reportVars, searchVars
<1>w. Width' = Width BY <1>1 DEF Width
<1>5. /\ Jobs \in Nat \ {0} /\ Width \in Nat /\ Needed \in 1..Jobs /\ done \in 0..Jobs
      /\ tallies.after \in Nat
  BY <1>0, Widths DEF TypeOK
<1> DEFINE Rest == TypeOK' /\ CostInv'
<1>6. ASSUME Rest PROVE WatchInv' BY <1>1, <1>3, <1>4, <1>6, RunFrame
<1> HIDE DEF Width, Needed
<1>7. CASE LadderStart
  <2>1. TypeOK' BY <1>0, <1>w, <1>1, <1>7
                DEF LadderStart, TypeOK, watchVars, placeVars, reportVars, searchVars, ladderVars
  <2>2. CostInv' BY <1>0, <1>w, <1>1, <1>7
                 DEF LadderStart, CostInv, watchVars, ladderVars, searchVars, Searching, Ladder
  <2> QED BY <1>6, <2>1, <2>2
<1>8. CASE LadderEnds \/ LanesFail
  <2>1. /\ run = "wave" /\ run' = "ended" /\ UNCHANGED <<placeVars, lanes, done>>
        /\ expired' \in BOOLEAN /\ observed' \in BOOLEAN
    BY <1>0, <1>8 DEF LadderEnds, LanesFail, WaveHead, TypeOK
  <2>2. TypeOK' BY <1>0, <1>w, <1>1, <2>1
                DEF TypeOK, watchVars, placeVars, reportVars, searchVars
  <2>3. CostInv' BY <1>0, <1>w, <1>1, <2>1 DEF CostInv, watchVars, searchVars, Searching
  <2> QED BY <1>6, <2>2, <2>3
<1>9. CASE WaveEnters
  <2>1. /\ run = "wave" /\ run' = "waveIndex" /\ UNCHANGED <<index, done>>
        /\ expired' \in BOOLEAN /\ observed' \in BOOLEAN
        /\ done < Jobs /\ ~HeldBack(expired')
        /\ lanes' = [NoLanes EXCEPT !.spawned = Admitted(expired')]
        /\ phase' = "reporting_fidelity_verification"
        /\ places' = places \cup {<<"reporting_fidelity_verification", done>>}
    BY <1>0, <1>9 DEF WaveEnters, WaveHead, TypeOK
  <2>2. /\ Admitted(expired') \in 0..Width /\ done + Admitted(expired') <= Jobs
        /\ done + Admitted(expired') >= Needed
    BY <1>0, <2>1, WaveFits
  <2>3. lanes' = [spawned |-> Admitted(expired'), working |-> 0, tallied |-> 0]
    BY <2>1 DEF NoLanes
  <2> HIDE DEF Admitted
  <2>4. tallies.after = 0
    BY <1>0, <1>5, <2>1 DEF CostInv, HeldBack
  <2>5. TypeOK'
    <3>1. lanes' \in [spawned : 0..Width, working : 0..Width, tallied : 0..Width]
      BY <1>5, <2>2, <2>3
    <3>2. phase' \in Phases /\ places' \subseteq Phases \X Nat
      BY <1>0, <1>5, <2>1 DEF TypeOK, Phases
    <3> QED BY <1>0, <1>w, <1>1, <2>1, <3>1, <3>2
            DEF TypeOK, watchVars, reportVars, searchVars
  <2>6. CostInv'
    <3>1. tallies'.after = 0 /\ lanes'.spawned = Admitted(expired') /\ lanes'.working = 0
          /\ lanes'.tallied = 0 /\ done' = done
      BY <1>1, <2>1, <2>3, <2>4
    <3>2. tallies'.after + lanes'.spawned + lanes'.working + lanes'.tallied <= Width
      BY <1>5, <2>2, <3>1
    <3> QED BY <1>5, <1>w, <2>1, <2>2, <3>1, <3>2 DEF CostInv, Searching
  <2> QED BY <1>6, <2>5, <2>6
<1>10. CASE WaveIndex
  <2>1. /\ run = "waveIndex" /\ run' = "join" /\ index' = done /\ done' = done + lanes.spawned
        /\ UNCHANGED <<phase, places, observed, expired, lanes>>
    BY <1>10 DEF WaveIndex
  <2>2. lanes.spawned \in Nat BY <1>0 DEF TypeOK
  <2>3. done' \in 0..Jobs /\ done' >= Needed BY <1>0, <1>5, <2>1, <2>2 DEF CostInv
  <2>4. TypeOK' BY <1>0, <1>w, <1>1, <1>5, <2>1, <2>3
                DEF TypeOK, watchVars, reportVars, searchVars
  <2>5. CostInv' BY <1>0, <1>w, <1>1, <2>1, <2>3 DEF CostInv, Searching, watchVars
  <2> QED BY <1>6, <2>4, <2>5
<1>11. CASE WaveJoined
  <2>1. /\ run = "join" /\ lanes = NoLanes /\ run' \in {"wave", "ended"}
        /\ UNCHANGED <<placeVars, observed, ladderVars>>
    BY <1>11 DEF WaveJoined
  <2>2. TypeOK' BY <1>0, <1>w, <1>1, <2>1
                DEF TypeOK, watchVars, placeVars, reportVars, searchVars, ladderVars
  <2>3. CostInv' BY <1>0, <1>w, <1>1, <2>1 DEF CostInv, Searching, watchVars, ladderVars
  <2> QED BY <1>6, <2>2, <2>3
<1> QED BY <1>7, <1>8, <1>9, <1>10, <1>11

(* A lane moves on, and counts late at most once. *)
LEMMA LaneKeeps == ASSUME WatchInv, LaneBegins \/ LaneCompletes \/ LaneCounts PROVE WatchInv'
<1>0. TypeOK /\ ReportInv /\ CostInv BY DEF WatchInv
<1>1. /\ run = "join" /\ run' = run
      /\ UNCHANGED <<workers, watchVars, placeVars, reportVars, searchVars, done, expired>>
      /\ observed' \in BOOLEAN
  BY <1>0 DEF LaneBegins, LaneCompletes, LaneCounts, TypeOK
<1>w. Width' = Width BY <1>1 DEF Width
<1>2. /\ Width \in Nat /\ tallies \in [started : Nat, completed : Nat, after : Nat]
      /\ lanes \in [spawned : 0..Width, working : 0..Width, tallied : 0..Width]
      /\ tallies.after + lanes.spawned + lanes.working + lanes.tallied <= Width
      /\ ~flag => tallies.after = 0
  BY <1>0, Widths DEF TypeOK, CostInv
<1> HIDE DEF Width
<1>3. /\ tallies' \in [started : Nat, completed : Nat, after : Nat]
      /\ lanes' \in [spawned : 0..Width, working : 0..Width, tallied : 0..Width]
      /\ tallies'.after + lanes'.spawned + lanes'.working + lanes'.tallied <= Width
      /\ ~flag => tallies'.after = 0
      /\ tallies.completed <= tallies'.completed
  <2>1. CASE LaneBegins
    <3>1. /\ lanes.spawned > 0
          /\ lanes' = [lanes EXCEPT !.spawned = lanes.spawned - 1, !.working = lanes.working + 1]
          /\ tallies' = [tallies EXCEPT !.started = tallies.started + 1]
      BY <2>1 DEF LaneBegins
    <3>2. /\ lanes'.spawned = lanes.spawned - 1 /\ lanes'.working = lanes.working + 1
          /\ lanes'.tallied = lanes.tallied /\ tallies'.after = tallies.after
          /\ tallies'.completed = tallies.completed
      BY <1>2, <3>1
    <3>3. tallies' \in [started : Nat, completed : Nat, after : Nat] BY <1>2, <3>1
    <3>4. lanes' \in [spawned : 0..Width, working : 0..Width, tallied : 0..Width]
      <4>1. lanes.working < Width BY <1>2, <3>1
      <4>2. lanes'
              = [spawned |-> lanes.spawned - 1, working |-> lanes.working + 1, tallied |-> lanes.tallied]
        BY <1>2, <3>1
      <4> QED BY <1>2, <3>1, <4>1, <4>2
    <3>5. tallies'.after + lanes'.spawned + lanes'.working + lanes'.tallied <= Width
      BY <1>2, <3>1, <3>2
    <3> QED BY <1>2, <3>2, <3>3, <3>4, <3>5
  <2>2. CASE LaneCompletes
    <3>1. /\ lanes.working > 0
          /\ lanes' = [lanes EXCEPT !.working = lanes.working - 1, !.tallied = lanes.tallied + 1]
          /\ tallies' = [tallies EXCEPT !.completed = tallies.completed + 1]
      BY <2>2 DEF LaneCompletes
    <3>2. /\ lanes'.spawned = lanes.spawned /\ lanes'.working = lanes.working - 1
          /\ lanes'.tallied = lanes.tallied + 1 /\ tallies'.after = tallies.after
          /\ tallies'.completed = tallies.completed + 1
      BY <1>2, <3>1
    <3>3. tallies' \in [started : Nat, completed : Nat, after : Nat] BY <1>2, <3>1
    <3>4. lanes' \in [spawned : 0..Width, working : 0..Width, tallied : 0..Width]
      <4>1. lanes.tallied < Width BY <1>2, <3>1
      <4>2. lanes'
              = [spawned |-> lanes.spawned, working |-> lanes.working - 1, tallied |-> lanes.tallied + 1]
        BY <1>2, <3>1
      <4> QED BY <1>2, <3>1, <4>1, <4>2
    <3>5. tallies'.after + lanes'.spawned + lanes'.working + lanes'.tallied <= Width
      BY <1>2, <3>1, <3>2
    <3> QED BY <1>2, <3>2, <3>3, <3>4, <3>5
  <2>3. CASE LaneCounts
    <3>1. /\ lanes.tallied > 0 /\ Late \in {0, 1} /\ (~flag => Late = 0)
          /\ lanes' = [lanes EXCEPT !.tallied = lanes.tallied - 1]
          /\ tallies' = [tallies EXCEPT !.after = tallies.after + Late]
      BY <2>3 DEF LaneCounts, Late
    <3>2. /\ lanes'.spawned = lanes.spawned /\ lanes'.working = lanes.working
          /\ lanes'.tallied = lanes.tallied - 1 /\ tallies'.after = tallies.after + Late
          /\ tallies'.completed = tallies.completed
      BY <1>2, <3>1
    <3> QED BY <1>2, <3>1, <3>2
  <2> QED BY <2>1, <2>2, <2>3
<1>4. TypeOK' BY <1>0, <1>w, <1>1, <1>3
              DEF TypeOK, watchVars, placeVars, reportVars, searchVars
<1>5. CostInv' BY <1>0, <1>w, <1>1, <1>3 DEF CostInv, Searching, watchVars, searchVars
<1>6. ReportInv' BY <1>0, <1>1 DEF ReportInv, watchVars, reportVars, searchVars
<1> QED BY <1>1, <1>3, <1>4, <1>5, <1>6, RunFrame

LEMMA StutterKeeps == ASSUME WatchInv, UNCHANGED vars PROVE WatchInv'
<1> USE DEF vars, watchVars, placeVars, reportVars, searchVars, ladderVars
<1>1. Width' = Width BY DEF Width
<1>2. TypeOK' BY <1>1 DEF WatchInv, TypeOK
<1>3. GuardInv' /\ ReportInv' BY DEF WatchInv, GuardInv, ReportInv
<1>4. CostInv' BY <1>1 DEF WatchInv, CostInv
<1> QED BY <1>2, <1>3, <1>4 DEF WatchInv

LEMMA StepWatch == WatchInv /\ [Next]_vars => WatchInv'
BY GuardKeeps, SearchKeeps, BatchKeeps, LadderKeeps, LaneKeeps, StutterKeeps DEF Next, Run

THEOREM SafeWatch == Spec => []WatchInv
BY InitWatch, StepWatch, PTL DEF Spec

-----------------------------------------------------------------------------
(* The properties. *)

(* TypeOK: no wave is wider than its lanes, and the ladder never passes    *)
(* its last job (verification.rs, evaluate_ordered).                       *)
THEOREM TypeTheorem == Spec => []TypeOK
<1>1. WatchInv => TypeOK BY DEF WatchInv
<1> QED BY <1>1, SafeWatch, PTL

LEMMA LateAndInFlight ==
  ASSUME WatchInv
  PROVE  tallies.after \in Nat /\ Width \in Nat /\ tallies.after <= Width
<1>1. TypeOK /\ tallies.after + lanes.spawned + lanes.working + lanes.tallied <= Width
  BY DEF WatchInv, CostInv
<1>2. Width \in Nat BY <1>1, Widths
<1> HIDE DEF Width
<1>3. /\ tallies.after \in Nat /\ lanes.spawned \in Nat /\ lanes.working \in Nat
      /\ lanes.tallied \in Nat
  BY <1>1, <1>2 DEF TypeOK
<1> QED BY <1>1, <1>2, <1>3

(* DrainCostBounded: whatever the number of generations and jobs, a        *)
(* request costs at most one analysis for each lane (cancellation.rs, the  *)
(* evaluations after a request).                                           *)
THEOREM DrainTheorem == Spec => []DrainCostBounded
<1>1. ASSUME WatchInv PROVE DrainCostBounded BY <1>1, LateAndInFlight DEF DrainCostBounded
<1> QED BY <1>1, SafeWatch, PTL

(* CountedAtMostTwice: the two figures of the record overlap by no more    *)
(* analyses than there are lanes (cancellation.rs, evaluation).            *)
THEOREM CountTheorem == Spec => []CountedAtMostTwice
<1>1. ASSUME WatchInv PROVE CountedAtMostTwice
  <2>1. tallies.after \in Nat /\ Width \in Nat /\ tallies.after <= Width
    BY <1>1, LateAndInFlight
  <2>2. record.evaluation \in Nat /\ tallies.completed \in Nat
        /\ record.evaluation <= tallies.completed
    BY <1>1 DEF WatchInv, TypeOK, GuardInv
  <2> HIDE DEF Width
  <2>3. record.evaluation + tallies.after <= tallies.completed + Width BY <2>1, <2>2
  <2> QED BY <2>3 DEF CountedAtMostTwice
<1> QED BY <1>1, SafeWatch, PTL

(* ReportNamesTheRequester: the run's last words and the guard's never     *)
(* overwrite each other (optimization_preset_audit.rs, run_with_timeout).  *)
THEOREM ReportTheorem == Spec => []ReportNamesTheRequester
<1>1. WatchInv => ReportNamesTheRequester
  BY DEF WatchInv, ReportInv, Ladder, ReportNamesTheRequester
<1> QED BY <1>1, SafeWatch, PTL

(* RecordIsFinal: the record is whole before the flag can be read and is   *)
(* not touched after (cancellation.rs, request_cancellation).              *)
THEOREM RecordTheorem == Spec => RecordIsFinal
<1>1. WatchInv /\ [Next]_vars => [flag => record.stamp /\ record' = record]_vars
  <2> SUFFICES ASSUME WatchInv, Next, flag PROVE record.stamp /\ record' = record
    OBVIOUS
  <2>1. guard \notin Copying /\ record.stamp BY DEF WatchInv, GuardInv
  <2>2. CASE Run
    BY <2>1, <2>2 DEF Run, FailEarly, EnterInitial, EnterGeneration, EnterIndex,
       PollBeforeBatch, Batch, SearchStops, FinishPhase, FinishReason, FinishTermination,
       LadderStart, LadderEnds, LanesFail, WaveEnters, WaveHead, WaveIndex, LaneBegins,
       LaneCompletes, LaneCounts, WaveJoined, watchVars
  <2>3. CASE Guard
    BY <2>1, <2>3 DEF Guard, ReceiveResult, TimesOut, CopyPhase, CopyIndex, CopyEvaluations,
       Stamp, Raise, Join, Copying
  <2> QED BY <2>2, <2>3 DEF Next
<1> QED BY <1>1, SafeWatch, PTL DEF Spec, RecordIsFinal
=============================================================================
