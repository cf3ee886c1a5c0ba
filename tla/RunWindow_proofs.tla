------------------------- MODULE RunWindow_proofs -------------------------
(***************************************************************************)
(* Proofs about RunWindow, for every set of analyses, number of sections   *)
(* and workers, runs and cases.                                            *)
(*                                                                         *)
(* ShownIsWhatItClaims is not inductive: a message read after the window   *)
(* had moved to another case would be shown for the wrong one.  WindowInv  *)
(* adds that a worker and its messages keep the window busy until the end  *)
(* of the run is read, and that a busy window stays in the case of the run.*)
(* SerialInv says where the sections and the lanes are (StageIsSerial),    *)
(* CumulativeInv how the publisher's lock orders the snapshots.            *)
(***************************************************************************)
EXTENDS RunWindow, WellFoundedInduction, NaturalsInduction, TLAPS

Messages == [kind : {"snapshot", "result", "error"}, of : SUBSET Branches]

Published == merged \subseteq Branches /\ copy \in [Branches -> SUBSET Branches]

BusyInv ==
  /\ queue \in Seq(Messages)
  /\ pc # "none" => running
  /\ queue # <<>> => running
  /\ Ended => pc = "none"
  /\ running => startedIn = case

ClaimInv ==
  /\ ShownIsWhatItClaims
  /\ InSandbox /\ prior.result.kind # "none" => prior.result.case = prior.case

WindowInv == Published /\ BusyInv /\ ClaimInv

-----------------------------------------------------------------------------
(* Sets of numbers.                                                        *)

LEMMA Least ==
  ASSUME NEW S \in SUBSET Nat, S # {}
  PROVE  \E least \in S : \A n \in S : least <= n
<1> DEFINE Less == {ss \in Nat \X Nat : ss[1] < ss[2]}
<1>1. IsWellFoundedOn(Less, Nat) BY NatLessThanWellFounded, Zenon DEF OpToRel
<1>2. PICK least \in S : \A n \in S : ~(<<n, least>> \in Less)
  <2> HIDE DEF Less
  <2> QED BY <1>1, WFMin
<1>3. ASSUME NEW n \in S PROVE least <= n
  <2>1. least \in Nat /\ n \in Nat OBVIOUS
  <2>2. ~(n < least) BY <1>2, <2>1
  <2> QED BY <2>1, <2>2
<1> QED BY <1>3

(* A bounded set that is not empty has its maximum in it: the least of its *)
(* upper bounds is one of its members.                                     *)
LEMMA MaxIsIn ==
  ASSUME NEW S \in SUBSET Nat, S # {}, NEW top \in Nat, \A x \in S : x <= top
  PROVE  Max(S) \in S /\ \A x \in S : x <= Max(S)
<1> DEFINE Bounds == {n \in Nat : \A x \in S : x <= n}
<1>1. PICK least \in Bounds : \A n \in Bounds : least <= n
  <2>1. Bounds \in SUBSET Nat /\ Bounds # {} OBVIOUS
  <2> HIDE DEF Bounds
  <2> QED BY <2>1, Least
<1>2. least \in Nat /\ \A x \in S : x <= least OBVIOUS
<1>3. least \in S
  <2>1. SUFFICES ASSUME least \notin S PROVE FALSE OBVIOUS
  <2>2. \A x \in S : x < least BY <1>2, <2>1
  <2>3. PICK x \in S : TRUE OBVIOUS
  <2>4. least - 1 \in Bounds BY <1>2, <2>2, <2>3
  <2> QED BY <1>1, <1>2, <2>4
<1>4. \E x \in S : \A y \in S : x >= y BY <1>2, <1>3
<1>5. Max(S) \in S /\ \A y \in S : Max(S) >= y
  <2>1. Max(S) = CHOOSE x \in S : \A y \in S : x >= y BY DEF Max
  <2> QED BY <1>4, <2>1, Zenon
<1>6. Max(S) \in Nat BY <1>5
<1> QED BY <1>5, <1>6

-----------------------------------------------------------------------------
(* The queue. *)

(* One message more is the end of the run only if it says so. *)
LEMMA SendEnds ==
  ASSUME queue \in Seq(Messages), NEW m \in Messages, Send(m)
  PROVE  /\ queue' \in Seq(Messages) /\ queue' # <<>>
         /\ Ended' => Ended \/ m.kind # "snapshot"
<1>1. queue' = Append(queue, m) BY DEF Send
<1>2. queue' \in Seq(Messages) /\ Len(queue') = Len(queue) + 1 BY <1>1
<1>3. ASSUME NEW k \in DOMAIN queue', queue'[k].kind # "snapshot"
      PROVE  Ended \/ m.kind # "snapshot"
  <2>1. CASE k = Len(queue) + 1 BY <1>1, <1>3, <2>1
  <2>2. CASE k # Len(queue) + 1
    <3>1. k \in DOMAIN queue /\ queue'[k] = queue[k] BY <1>1, <1>2, <2>2
    <3> QED BY <3>1, <1>3 DEF Ended
  <2> QED BY <2>1, <2>2
<1> QED BY <1>2, <1>3 DEF Ended

LEMMA SnapshotIsMessage == ASSUME NEW of \in SUBSET Branches PROVE Snapshot(of) \in Messages
BY DEF Snapshot, Messages

-----------------------------------------------------------------------------
(* The worker. *)

(* Between two actions of the window nothing it shows changes. *)
LEMMA WorkerClaims ==
  ClaimInv /\ UNCHANGED <<runs, running, requested, startedIn, caseVars, shownVars>> => ClaimInv'
BY DEF ClaimInv, ShownIsWhatItClaims, InSandbox, caseVars, shownVars

(* A worker sends messages and ends; it is running until then. *)
LEMMA Sending ==
  ASSUME BusyInv, pc # "none", NEW m \in Messages, Send(m),
         UNCHANGED <<running, startedIn, case>>,
         m.kind # "snapshot" => pc' = "none"
  PROVE  BusyInv'
<1>1. queue' \in Seq(Messages) /\ (Ended' => Ended \/ m.kind # "snapshot")
  BY SendEnds DEF BusyInv
<1> QED BY <1>1 DEF BusyInv

LEMMA Silent ==
  ASSUME BusyInv, pc # "none", UNCHANGED <<queue, running, startedIn, case>>
  PROVE  BusyInv'
BY DEF BusyInv, Ended

LEMMA FinishKeeps ==
  ASSUME BusyInv, pc # "none", NEW kind \in {"result", "error"}, NEW of \in SUBSET Branches,
         Finish(kind, of), UNCHANGED <<running, startedIn, case>>
  PROVE  BusyInv'
<1>1. [kind |-> kind, of |-> of] \in Messages BY DEF Messages
<1> QED BY <1>1, Sending DEF Finish

LEMMA StageKeeps ==
  ASSUME Published, BusyInv, Analyse, UNCHANGED <<running, startedIn, case>>
  PROVE  Published' /\ BusyInv'
<1>1. pc = "downstream" /\ pc' = pc /\ StageStep BY DEF Analyse
<1>2. CASE UNCHANGED <<queue, publisherVars>>
  BY <1>1, <1>2, Silent DEF Published, publisherVars
<1>3. CASE PoolStep /\ UNCHANGED <<stageVars, queue>>
  BY <1>2, <1>3 DEF stageVars
<1>4. CASE ReturnPolars BY <1>2, <1>4 DEF ReturnPolars
<1>5. ASSUME NEW b \in Branches, Begin(b) PROVE Published' /\ BusyInv'
  BY <1>2, <1>5 DEF Begin
<1>6. ASSUME NEW b \in Branches, Return(b) PROVE Published' /\ BusyInv'
  BY <1>2, <1>6 DEF Return
<1>7. ASSUME NEW b \in Branches, Merge(b) PROVE Published' /\ BusyInv'
  <2>1. Published' BY <1>7 DEF Merge, Published
  <2>2. UNCHANGED queue BY <1>7 DEF Merge
  <2> QED BY <1>1, <2>1, <2>2, Silent
<1>8. ASSUME NEW b \in Branches, Publish(b) PROVE Published' /\ BusyInv'
  <2>1. Published' BY <1>8 DEF Publish, Published
  <2>2. Snapshot(copy[b]) \in Messages BY SnapshotIsMessage DEF Published
  <2>3. Send(Snapshot(copy[b])) BY <1>8 DEF Publish
  <2>4. Snapshot(copy[b]).kind = "snapshot" BY DEF Snapshot
  <2> QED BY <1>1, <2>1, <2>2, <2>3, <2>4, Sending
<1> QED BY <1>1, <1>3, <1>4, <1>5, <1>6, <1>7, <1>8 DEF StageStep

LEMMA WorkerKeeps == WindowInv /\ Worker => WindowInv'
<1> SUFFICES ASSUME WindowInv, Worker PROVE WindowInv' OBVIOUS
<1>1. UNCHANGED <<runs, running, requested, startedIn, caseVars, shownVars>> BY DEF Worker
<1>2. ClaimInv' BY <1>1, WorkerClaims DEF WindowInv
<1>3. UNCHANGED <<running, startedIn, case>> BY <1>1 DEF caseVars
<1> SUFFICES Published' /\ BusyInv' BY <1>2 DEF WindowInv
<1>4. Published /\ BusyInv BY DEF WindowInv
<1>5. ASSUME UNCHANGED stageVars PROVE Published'
  BY <1>4, <1>5 DEF Published, stageVars, publisherVars
<1>6. {} \in SUBSET Branches /\ merged \in SUBSET Branches BY <1>4 DEF Published
<1>7. CASE EarlyStages
  <2>1. CASE Finish("error", {}) /\ UNCHANGED stageVars
    BY <1>3, <1>4, <1>5, <1>6, <1>7, <2>1, FinishKeeps DEF EarlyStages
  <2>2. CASE pc' = "snapshot" /\ BeginStage
    <3>1. Published' BY <1>4, <2>2 DEF BeginStage, Published, publisherVars
    <3>2. Snapshot({}) \in Messages /\ Snapshot({}).kind = "snapshot"
      BY <1>6, SnapshotIsMessage DEF Snapshot
    <3>3. Send(Snapshot({})) BY <2>2 DEF BeginStage
    <3> QED BY <1>3, <1>4, <1>7, <3>1, <3>2, <3>3, Sending DEF EarlyStages
  <2> QED BY <1>7, <2>1, <2>2 DEF EarlyStages
<1>8. CASE ExportGeometry
  BY <1>3, <1>4, <1>5, <1>6, <1>8, FinishKeeps, Silent DEF ExportGeometry, GoTo
<1>9. CASE Analyse BY <1>3, <1>4, <1>9, StageKeeps
<1>10. CASE LeaveStage
  BY <1>3, <1>4, <1>5, <1>6, <1>10, FinishKeeps, Silent DEF LeaveStage, GoTo
<1>11. CASE Finalise
  BY <1>3, <1>4, <1>5, <1>6, <1>11, FinishKeeps, Silent DEF Finalise, GoTo
<1>12. CASE Deliver
  BY <1>3, <1>4, <1>5, <1>6, <1>12, FinishKeeps DEF Deliver
<1> QED BY <1>7, <1>8, <1>9, <1>10, <1>11, <1>12 DEF Worker

-----------------------------------------------------------------------------
(* The window. *)

LEMMA InitWindow == Init => WindowInv
<1> SUFFICES ASSUME Init PROVE WindowInv OBVIOUS
<1>1. Published BY DEF Init, NoStage, NoCopy, Published
<1>2. BusyInv BY DEF Init, BusyInv, Ended
<1>3. ClaimInv BY DEF Init, ClaimInv, ShownIsWhatItClaims, InSandbox, NoPrior, NoResult
<1> QED BY <1>1, <1>2, <1>3 DEF WindowInv

(* What is shown is for the case the run was started in, which is the one  *)
(* on view as long as there is anything to read.                           *)
LEMMA PollKeeps == WindowInv /\ PollWorker => WindowInv'
<1> SUFFICES ASSUME WindowInv, PollWorker PROVE WindowInv' OBVIOUS
<1>1. UNCHANGED <<pc, startedIn, case, cases, prior, restored, merged, copy>>
  BY DEF PollWorker, caseVars, stageVars, publisherVars
<1>2. Published' BY <1>1 DEF WindowInv, Published
<1>3. running /\ startedIn = case BY DEF WindowInv, BusyInv, PollWorker
<1>4. BusyInv'
  <2>1. queue' = <<>> /\ (running' <=> running /\ ~Ended) BY DEF PollWorker
  <2>2. ~Ended' /\ queue' \in Seq(Messages) BY <2>1 DEF Ended
  <2> QED BY <1>1, <1>3, <2>1, <2>2 DEF WindowInv, BusyInv
<1>5. ClaimInv'
  <2>1. complete' <=> Last(queue).kind = "result" BY DEF PollWorker
  <2>2. CASE Last(queue).kind = "result"
    <3>1. result' = Shown("final", Last(queue).of) BY <2>2 DEF PollWorker
    <3>2. result'.kind = "final" /\ result'.case = startedIn BY <3>1 DEF Shown
    <3> QED BY <1>1, <1>3, <3>2 DEF WindowInv, ClaimInv, ShownIsWhatItClaims, InSandbox
  <2>3. CASE Last(queue).kind # "result" /\ SnapshotsAt # {}
    <3>1. result' = Shown("snapshot", LastSnapshot.of) BY <2>3 DEF PollWorker
    <3>2. result'.case = startedIn BY <3>1 DEF Shown
    <3> QED BY <1>1, <1>3, <2>1, <2>3, <3>2
            DEF WindowInv, ClaimInv, ShownIsWhatItClaims, InSandbox
  <2>4. CASE Last(queue).kind # "result" /\ SnapshotsAt = {}
    <3>1. result' = result BY <2>4 DEF PollWorker
    <3> QED BY <1>1, <2>1, <2>4, <3>1
            DEF WindowInv, ClaimInv, ShownIsWhatItClaims, InSandbox
  <2> QED BY <2>2, <2>3, <2>4
<1> QED BY <1>2, <1>4, <1>5 DEF WindowInv

LEMMA StartKeeps == WindowInv /\ StartPipeline => WindowInv'
<1> SUFFICES ASSUME WindowInv, StartPipeline PROVE WindowInv' OBVIOUS
<1>1. queue = <<>> /\ queue' = <<>> BY DEF WindowInv, BusyInv, StartPipeline
<1>2. Published' BY DEF StartPipeline, NewStage, NoCopy, Published
<1>3. BusyInv'
  <2>1. ~Ended' /\ queue' \in Seq(Messages) BY <1>1 DEF Ended
  <2> QED BY <1>1, <2>1 DEF BusyInv, StartPipeline
<1>4. ClaimInv'
  BY DEF WindowInv, ClaimInv, ShownIsWhatItClaims, StartPipeline, NoResult, InSandbox
<1> QED BY <1>2, <1>3, <1>4 DEF WindowInv

(* A move between two cases is for an idle window: nothing is on its way.  *)
LEMMA CaseMoveKeeps ==
  ASSUME WindowInv, ~running, ClaimInv',
         UNCHANGED <<stageVars, queue, runVars>>
  PROVE  WindowInv'
<1>1. Published' BY DEF WindowInv, Published, stageVars, publisherVars
<1>2. BusyInv' BY DEF WindowInv, BusyInv, Ended, runVars
<1> QED BY <1>1, <1>2 DEF WindowInv

LEMMA StepWindow == WindowInv /\ [Next]_vars => WindowInv'
<1> SUFFICES ASSUME WindowInv, [Next]_vars PROVE WindowInv' OBVIOUS
<1> USE DEF InSandbox
<1>0. ClaimInv BY DEF WindowInv
<1>1. CASE Worker BY <1>1, WorkerKeeps
<1>2. CASE StartPipeline BY <1>2, StartKeeps
<1>3. CASE PollWorker BY <1>3, PollKeeps
<1>4. CASE RequestCancel
  <2>1. UNCHANGED <<merged, copy, queue, pc, running, startedIn, caseVars, shownVars>>
    BY <1>4 DEF RequestCancel, stageVars, publisherVars
  <2> QED BY <2>1 DEF WindowInv, Published, BusyInv, Ended, ClaimInv, ShownIsWhatItClaims,
                      caseVars, shownVars
<1>5. CASE EnterSandbox
  <2>1. ClaimInv'
    BY <1>0, <1>5 DEF EnterSandbox, Open, NoResult, ClaimInv, ShownIsWhatItClaims
  <2> QED BY <1>5, <2>1, CaseMoveKeeps DEF EnterSandbox
<1>6. CASE NewSandbox
  <2>1. ClaimInv'
    BY <1>0, <1>6 DEF NewSandbox, Open, NoResult, ClaimInv, ShownIsWhatItClaims
  <2> QED BY <1>6, <2>1, CaseMoveKeeps DEF NewSandbox
<1>7. CASE Discard
  <2>1. ClaimInv' BY <1>0, <1>7 DEF Discard, ClaimInv, ShownIsWhatItClaims
  <2> QED BY <1>7, <2>1, CaseMoveKeeps DEF Discard
<1>8. CASE Promote
  <2>1. ClaimInv' BY <1>0, <1>8 DEF Promote, NoResult, ClaimInv, ShownIsWhatItClaims
  <2> QED BY <1>8, <2>1, CaseMoveKeeps DEF Promote
<1>9. CASE UNCHANGED vars
  <2>1. UNCHANGED <<merged, copy, queue, pc, running, startedIn, caseVars, shownVars>>
    BY <1>9 DEF vars, stageVars, publisherVars, runVars
  <2> QED BY <2>1 DEF WindowInv, Published, BusyInv, Ended, ClaimInv, ShownIsWhatItClaims,
                      caseVars, shownVars
<1> QED BY <1>1, <1>2, <1>3, <1>4, <1>5, <1>6, <1>7, <1>8, <1>9 DEF Next

(* ShownIsWhatItClaims: whatever analyses run, on however many threads, a  *)
(* result on view is the one of the case on view, and what is taken for    *)
(* final is final unless a case was put back (run.rs; sandbox/case.rs).    *)
THEOREM ClaimTheorem == Spec => []ShownIsWhatItClaims
<1>1. WindowInv => ShownIsWhatItClaims BY DEF WindowInv, ClaimInv
<1> QED BY <1>1, InitWindow, StepWindow, PTL DEF Spec

-----------------------------------------------------------------------------
(* The stage leaves what the serial loop leaves.  The invariant follows a  *)
(* section through the pool: once claimed it is with a worker, solved, or  *)
(* skipped, and only a cancelled run skips.                                *)

TaskOf(w) == solver[w].task
Holds(w) == solver[w].step \in {"claimed", "solving"}

PoolShape ==
  /\ next \in Nat /\ polars \subseteq Tasks
  /\ solver \in [Solvers -> [step : {"out", "idle", "claimed", "solving"}, task : Tasks]]

Accounted ==
  \A i \in Tasks : i < next =>
    \/ i \in polars
    \/ \E w \in Solvers : Holds(w) /\ TaskOf(w) = i
    \/ i > 0 /\ cancel

(* The first worker leaves only a counter that has run out. *)
OutIsLast == solver[1].step = "out" => next >= Sections

PolarsAreSerial ==
  available /\ branch[Mses] \in {"ready", "merged", "done"} =>
    /\ \E last \in Tasks : sections = 0..last
    /\ sections # Tasks => cancel

SerialInv ==
  /\ branch \in [Branches -> Places]
  /\ PoolShape
  /\ available /\ branch[Mses] = "running" => Accounted /\ OutIsLast
  /\ PolarsAreSerial
  /\ pc # "downstream" => AllDone \/ \A b \in Branches : branch[b] = "waiting"

(* A set of sections with its predecessors is an interval. *)
LEMMA Interval ==
  ASSUME NEW S, S \subseteq Tasks, 0 \in S, \A i \in S : \A j \in Tasks : j < i => j \in S
  PROVE  \E last \in Tasks : S = 0..last
<1>1. Sections \in Nat \ {0} BY PoolAssumption
<1> DEFINE Missing == {n \in Nat : n \notin S}
<1>2. Sections \in Missing /\ Missing \subseteq Nat BY <1>1 DEF Tasks
<1>3. PICK least \in Missing : \A n \in Missing : least <= n
  <2> HIDE DEF Missing
  <2> QED BY <1>2, Least
<1>4. least \in Nat /\ \A n \in Nat : n < least => n \in S BY <1>3
<1>5. least > 0 /\ least <= Sections BY <1>1, <1>3, <1>4 DEF Tasks
<1>6. ASSUME NEW i \in S PROVE i < least
  <2>1. i \in Nat /\ least \in Nat BY <1>4 DEF Tasks
  <2>2. CASE i = least BY <1>3, <2>2
  <2>3. CASE least < i
    <3>1. least \in Tasks BY <1>1, <1>4, <2>1, <2>3 DEF Tasks
    <3> QED BY <1>3, <2>3, <3>1
  <2> QED BY <2>1, <2>2, <2>3
<1>7. S = 0..(least - 1)
  <2>1. ASSUME NEW i \in 0..(least - 1) PROVE i \in S BY <1>4, <2>1
  <2>2. ASSUME NEW i \in S PROVE i \in 0..(least - 1) BY <1>4, <1>6 DEF Tasks
  <2> QED BY <2>1, <2>2
<1>8. least - 1 \in Tasks BY <1>1, <1>4, <1>5 DEF Tasks
<1> QED BY <1>7, <1>8

(* What a pool that has run dry returns. *)
LEMMA DryPool ==
  ASSUME PoolShape, Accounted, OutIsLast, PoolDone
  PROVE  /\ \E last \in Tasks : Kept = 0..last
         /\ Kept # Tasks => cancel
<1>1. Sections \in Nat \ {0} /\ PoolSize \in Nat \ {0} BY PoolAssumption
<1>2. 1 \in Solvers BY <1>1 DEF Solvers
<1>3. next >= Sections BY <1>2 DEF OutIsLast, PoolDone
<1>4. ASSUME NEW i \in Tasks PROVE i \in polars \/ (i > 0 /\ cancel)
  <2>1. i < next BY <1>1, <1>3 DEF Tasks, PoolShape
  <2> QED BY <2>1 DEF Accounted, Holds, PoolDone
<1>5. 0 \in Tasks BY <1>1 DEF Tasks
<1>6. 0 \in Kept BY <1>4, <1>5 DEF Kept
<1>7. Kept \subseteq Tasks BY DEF Kept, PoolShape
<1>8. ASSUME NEW i \in Kept, NEW j \in Tasks, j < i PROVE j \in Kept
  <2>1. i \in Nat /\ j \in Nat BY <1>7 DEF Tasks
  <2>2. CASE j = 0 BY <1>6, <2>2
  <2>3. CASE j > 0
    <3>1. j \in 1..i BY <1>8, <2>1, <2>3
    <3>2. j \in polars BY <3>1 DEF Kept
    <3>3. ASSUME NEW k \in Tasks, k \in 1..j PROVE k \in polars
      <4>1. k \in 1..i BY <1>8, <2>1, <3>3
      <4> QED BY <4>1, <3>3 DEF Kept
    <3> QED BY <3>2, <3>3 DEF Kept
  <2> QED BY <2>1, <2>2, <2>3
<1>9. Kept # Tasks => cancel
  <2>1. SUFFICES ASSUME ~cancel PROVE Tasks \subseteq Kept BY <1>7
  <2> QED BY <1>4, <2>1 DEF Kept
<1> QED BY <1>6, <1>7, <1>8, <1>9, Interval

Steps == [step : {"out", "idle", "claimed", "solving"}, task : Tasks]

(* One step of a worker of the pool. *)
LEMMA PoolStepKeeps ==
  ASSUME PoolShape, PoolStep
  PROVE  PoolShape' /\ (Accounted => Accounted') /\ (OutIsLast => OutIsLast')
<1>1. Sections \in Nat \ {0} /\ 0 \in Tasks BY PoolAssumption DEF Tasks
<1>2. next \in Nat /\ polars \subseteq Tasks /\ solver \in [Solvers -> Steps]
  BY DEF PoolShape, Steps
<1>3. ASSUME NEW w \in Solvers, Claim(w)
      PROVE  PoolShape' /\ (Accounted => Accounted') /\ (OutIsLast => OutIsLast')
  <2>1. /\ solver[w].step = "idle" /\ next' = next + 1 /\ UNCHANGED <<cancel, polars>>
        /\ solver' = [solver EXCEPT ![w] =
             IF next < Sections THEN [step |-> "claimed", task |-> next] ELSE Out]
    BY <1>3 DEF Claim
  <2>2. (IF next < Sections THEN [step |-> "claimed", task |-> next] ELSE Out) \in Steps
    BY <1>1, <1>2 DEF Steps, Out, Tasks
  <2>3. PoolShape' BY <1>2, <2>1, <2>2 DEF PoolShape, Steps
  <2>4. ASSUME Accounted PROVE Accounted'
    <3> SUFFICES ASSUME NEW i \in Tasks, i < next + 1, i \notin polars, ~(i > 0 /\ cancel)
                 PROVE  \E v \in Solvers : Holds(v)' /\ TaskOf(v)' = i
      BY <2>1 DEF Accounted
    <3>1. CASE i = next
      <4>1. i < Sections BY <1>1 DEF Tasks
      <4>2. solver'[w] = [step |-> "claimed", task |-> next] BY <1>2, <2>1, <3>1, <4>1
      <4> QED BY <3>1, <4>2 DEF Holds, TaskOf
    <3>2. CASE i # next
      <4>1. i < next BY <1>2, <3>2 DEF Tasks
      <4>2. PICK v \in Solvers : Holds(v) /\ TaskOf(v) = i BY <2>4, <4>1 DEF Accounted
      <4>3. v # w BY <2>1, <4>2 DEF Holds
      <4>4. solver'[v] = solver[v] BY <1>2, <2>1, <4>3
      <4> QED BY <4>2, <4>4 DEF Holds, TaskOf
    <3> QED BY <3>1, <3>2
  <2>5. ASSUME OutIsLast PROVE OutIsLast'
    <3>1. CASE w = 1 BY <1>1, <1>2, <1>3, <2>1, <3>1 DEF OutIsLast, Out
    <3>2. CASE w # 1
      <4>1. solver'[1] = solver[1] \/ 1 \notin Solvers BY <1>2, <2>1, <3>2
      <4>2. 1 \in Solvers BY PoolAssumption DEF Solvers
      <4> QED BY <1>1, <1>2, <2>1, <2>5, <4>1, <4>2 DEF OutIsLast
    <3> QED BY <3>1, <3>2
  <2> QED BY <2>3, <2>4, <2>5
<1>4. ASSUME NEW w \in Solvers, NEW s \in Steps, solver' = [solver EXCEPT ![w] = s],
             s.step # "out", UNCHANGED <<cancel, next>>,
             polars \subseteq polars', polars' \subseteq Tasks, Holds(w),
             \/ s.step = "solving" /\ s.task = TaskOf(w)
             \/ TaskOf(w) \in polars'
             \/ TaskOf(w) > 0 /\ cancel
      PROVE  PoolShape' /\ (Accounted => Accounted') /\ (OutIsLast => OutIsLast')
  <2>1. PoolShape' BY <1>2, <1>4 DEF PoolShape, Steps
  <2>2. ASSUME Accounted PROVE Accounted'
    <3> SUFFICES ASSUME NEW i \in Tasks, i < next, i \notin polars', ~(i > 0 /\ cancel)
                 PROVE  \E v \in Solvers : Holds(v)' /\ TaskOf(v)' = i
      BY <1>4 DEF Accounted
    <3>1. PICK v \in Solvers : Holds(v) /\ TaskOf(v) = i BY <1>4, <2>2 DEF Accounted
    <3>2. CASE v = w
      <4>1. s.step = "solving" /\ s.task = i BY <1>4, <3>1, <3>2
      <4>2. solver'[v] = s BY <1>2, <1>4, <3>2
      <4> QED BY <4>1, <4>2 DEF Holds, TaskOf
    <3>3. CASE v # w
      <4>1. solver'[v] = solver[v] BY <1>2, <1>4, <3>3
      <4> QED BY <3>1, <4>1 DEF Holds, TaskOf
    <3> QED BY <3>2, <3>3
  <2>3. ASSUME OutIsLast PROVE OutIsLast'
    <3>1. solver'[1].step = "out" => solver[1].step = "out"
      <4>1. 1 \in Solvers BY PoolAssumption DEF Solvers
      <4> QED BY <1>2, <1>4, <4>1
    <3> QED BY <1>4, <2>3, <3>1 DEF OutIsLast
  <2> QED BY <2>1, <2>2, <2>3
<1>5. ASSUME NEW w \in Solvers, LookAtCancel(w)
      PROVE  PoolShape' /\ (Accounted => Accounted') /\ (OutIsLast => OutIsLast')
  <2>1. solver[w] \in Steps /\ Holds(w) /\ UNCHANGED <<cancel, next, polars>>
    BY <1>2, <1>5 DEF LookAtCancel, Holds
  <2>2. CASE solver[w].task > 0 /\ cancel
    <3>1. solver' = [solver EXCEPT ![w] = Idle] BY <1>5, <2>2 DEF LookAtCancel
    <3>2. Idle \in Steps /\ Idle.step # "out" BY <1>1 DEF Idle, Steps
    <3> QED BY <1>2, <1>4, <2>1, <2>2, <3>1, <3>2 DEF TaskOf
  <2>3. CASE ~(solver[w].task > 0 /\ cancel)
    <3> DEFINE s == [step |-> "solving", task |-> solver[w].task]
    <3>1. [solver[w] EXCEPT !.step = "solving"] = s BY <2>1 DEF Steps
    <3>2. solver' = [solver EXCEPT ![w] = s]
      BY <1>5, <2>3, <3>1 DEF LookAtCancel
    <3>3. s \in Steps /\ s.step = "solving" /\ s.task = TaskOf(w)
      BY <2>1 DEF Steps, TaskOf
    <3> HIDE DEF s
    <3> QED BY <1>2, <1>4, <2>1, <3>2, <3>3
  <2> QED BY <2>2, <2>3
<1>6. ASSUME NEW w \in Solvers, Solve(w)
      PROVE  PoolShape' /\ (Accounted => Accounted') /\ (OutIsLast => OutIsLast')
  <2>1. /\ solver[w] \in Steps /\ Holds(w) /\ UNCHANGED <<cancel, next>>
        /\ polars' = polars \cup {TaskOf(w)} /\ solver' = [solver EXCEPT ![w] = Idle]
    BY <1>2, <1>6 DEF Solve, Holds, TaskOf
  <2>2. Idle \in Steps /\ Idle.step # "out" BY <1>1 DEF Idle, Steps
  <2>3. TaskOf(w) \in Tasks BY <2>1 DEF TaskOf, Steps
  <2> QED BY <1>2, <1>4, <2>1, <2>2, <2>3
<1> QED BY <1>3, <1>5, <1>6 DEF PoolStep

(* A move of one analysis inside the stage. *)
LEMMA MoveKeeps ==
  ASSUME SerialInv, NEW b \in Branches, NEW place \in Places, At(b, place),
         pc = "downstream", pc' = pc, PoolShape', PolarsAreSerial',
         available' = available,
         available /\ branch'[Mses] = "running" => Accounted' /\ OutIsLast'
  PROVE  SerialInv'
<1>1. branch' \in [Branches -> Places] BY DEF SerialInv, At
<1> QED BY <1>1 DEF SerialInv

(* An analysis other than the MSES stage leaves the pool and its polars.   *)
LEMMA OtherKeeps ==
  ASSUME SerialInv, NEW b \in Branches \ {Mses}, NEW place \in Places, At(b, place),
         pc = "downstream", pc' = pc, UNCHANGED <<cancel, available, sections, poolVars>>
  PROVE  SerialInv'
<1>1. Mses \in Branches /\ branch'[Mses] = branch[Mses]
  BY BranchAssumption DEF SerialInv, At
<1>2. PoolShape' BY DEF SerialInv, PoolShape, poolVars
<1>3. Accounted => Accounted' BY DEF Accounted, Holds, TaskOf, poolVars
<1>4. OutIsLast => OutIsLast' BY DEF OutIsLast, poolVars
<1>5. PolarsAreSerial' BY <1>1 DEF SerialInv, PolarsAreSerial
<1> QED BY <1>1, <1>2, <1>3, <1>4, <1>5, MoveKeeps DEF SerialInv

(* The MSES stage, once it has its polars. *)
LEMMA MsesKeeps ==
  ASSUME SerialInv, branch[Mses] \in {"ready", "merged"}, NEW place \in {"merged", "done"},
         At(Mses, place), pc = "downstream", pc' = pc, UNCHANGED <<cancel, available, sections, poolVars>>
  PROVE  SerialInv'
<1>1. Mses \in Branches /\ branch'[Mses] = place
  BY BranchAssumption DEF SerialInv, At
<1>2. PoolShape' BY DEF SerialInv, PoolShape, poolVars
<1>3. PolarsAreSerial' BY <1>1 DEF SerialInv, PolarsAreSerial
<1>4. place \in Places BY DEF Places
<1> QED BY <1>1, <1>2, <1>3, <1>4, MoveKeeps

(* A pool of workers at the start of its tasks. *)
LEMMA EmptyPool ==
  ASSUME next' = 0, polars' = {}, solver' \in [Solvers -> {Idle, Out}]
  PROVE  PoolShape' /\ Accounted'
<1>1. 0 \in Tasks BY PoolAssumption DEF Tasks
<1>2. {Idle, Out} \subseteq Steps BY <1>1 DEF Idle, Out, Steps
<1>3. PoolShape' BY <1>1, <1>2 DEF PoolShape, Steps
<1>4. Accounted'
  <2>1. \A i \in Tasks : ~(i < 0) BY PoolAssumption DEF Tasks
  <2> QED BY <2>1 DEF Accounted
<1> QED BY <1>3, <1>4

LEMMA StageSerial == SerialInv /\ Analyse => SerialInv'
<1> SUFFICES ASSUME SerialInv, Analyse PROVE SerialInv' OBVIOUS
<1> USE DEF options
<1>1. pc = "downstream" /\ pc' = pc /\ StageStep BY DEF Analyse
<1>2. Mses \in Branches BY BranchAssumption
<1>3. branch \in [Branches -> Places] BY DEF SerialInv
<1>4. CASE PoolStep /\ UNCHANGED <<stageVars, queue>>
  <2>1. UNCHANGED <<available, branch, sections>> BY <1>4 DEF stageVars
  <2>2. UNCHANGED cancel BY <1>4 DEF PoolStep, Claim, LookAtCancel, Solve
  <2>3. PoolShape' /\ (Accounted => Accounted') /\ (OutIsLast => OutIsLast')
    BY <1>4, PoolStepKeeps DEF SerialInv
  <2>4. PolarsAreSerial' BY <2>1, <2>2 DEF SerialInv, PolarsAreSerial
  <2> QED BY <1>1, <2>1, <2>3, <2>4 DEF SerialInv
<1>5. CASE ReturnPolars /\ UNCHANGED cancel
  <2>1. /\ branch[Mses] = "running" /\ PoolDone /\ At(Mses, "ready") /\ sections' = Kept /\ NewPool
        /\ available' = available
    BY <1>5 DEF ReturnPolars
  <2>2. available => (\E last \in Tasks : Kept = 0..last) /\ (Kept # Tasks => cancel)
    BY <2>1, DryPool DEF SerialInv
  <2>3. PolarsAreSerial' BY <1>5, <2>1, <2>2 DEF PolarsAreSerial
  <2>4. solver' \in [Solvers -> {Idle, Out}] BY <2>1 DEF NewPool, NoSolver
  <2>5. PoolShape' BY <2>1, <2>4, EmptyPool DEF NewPool
  <2>6. branch'[Mses] = "ready" /\ "ready" \in Places BY <1>2, <1>3, <2>1 DEF At, Places
  <2> QED BY <1>1, <1>2, <2>1, <2>3, <2>5, <2>6, MoveKeeps
<1>6. ASSUME NEW b \in Branches, Begin(b), UNCHANGED cancel PROVE SerialInv'
  <2>1. At(b, "running") /\ UNCHANGED <<available, sections>> /\ "running" \in Places
    BY <1>6 DEF Begin, Places
  <2>2. CASE b # Mses BY <1>1, <1>6, <2>1, <2>2, OtherKeeps DEF Begin
  <2>3. CASE b = Mses
    <3>1. PolarsAreSerial' BY <1>2, <1>3, <2>1, <2>3 DEF PolarsAreSerial, At
    <3>2. CASE ~available
      <4>1. UNCHANGED poolVars BY <1>6, <2>3, <3>2 DEF Begin
      <4>2. PoolShape' BY <4>1 DEF SerialInv, PoolShape, poolVars
      <4> QED BY <1>1, <2>1, <3>1, <3>2, <4>2, MoveKeeps
    <3>3. CASE available
      <4>1. StartPool BY <1>6, <2>3, <3>3 DEF Begin
      <4>2. next' = 0 /\ polars' = {} BY <4>1 DEF StartPool
      <4>3. PICK size \in Solvers :
              solver' = [w \in Solvers |-> IF w <= size THEN Idle ELSE Out]
        BY <4>1 DEF StartPool
      <4>4. PoolShape' /\ Accounted' BY <4>2, <4>3, EmptyPool
      <4>5. OutIsLast'
        <5>1. 1 \in Solvers /\ 1 <= size BY PoolAssumption DEF Solvers
        <5>2. solver'[1] = Idle BY <4>3, <5>1
        <5> QED BY <5>2 DEF OutIsLast, Idle
      <4> QED BY <1>1, <2>1, <3>1, <4>4, <4>5, MoveKeeps
    <3> QED BY <3>2, <3>3
  <2> QED BY <2>2, <2>3
<1>7. ASSUME NEW b \in Branches, Return(b), UNCHANGED cancel PROVE SerialInv'
  <2>1. b # Mses /\ UNCHANGED <<available, sections, poolVars>> BY <1>7 DEF Return
  <2>2. CASE At(b, "ready") BY <1>1, <1>7, <2>1, <2>2, OtherKeeps DEF Places
  <2>3. CASE At(b, "done") BY <1>1, <1>7, <2>1, <2>3, OtherKeeps DEF Places
  <2> QED BY <1>7, <2>2, <2>3 DEF Return
<1>8. ASSUME NEW b \in Branches, UNCHANGED cancel, Merge(b) PROVE SerialInv'
  <2>1. branch[b] = "ready" /\ At(b, "merged") /\ UNCHANGED <<available, sections, poolVars>>
    BY <1>8 DEF Merge
  <2>2. CASE b # Mses BY <1>1, <1>8, <2>1, <2>2, OtherKeeps DEF Places
  <2>3. CASE b = Mses BY <1>1, <1>8, <2>1, <2>3, MsesKeeps
  <2> QED BY <2>2, <2>3
<1>9. ASSUME NEW b \in Branches, UNCHANGED cancel, Publish(b) PROVE SerialInv'
  <2>1. branch[b] = "merged" /\ At(b, "done") /\ UNCHANGED <<available, sections, poolVars>>
    BY <1>9 DEF Publish
  <2>2. CASE b # Mses BY <1>1, <1>9, <2>1, <2>2, OtherKeeps DEF Places
  <2>3. CASE b = Mses BY <1>1, <1>9, <2>1, <2>3, MsesKeeps
  <2> QED BY <2>2, <2>3
<1> QED BY <1>1, <1>4, <1>5, <1>6, <1>7, <1>8, <1>9 DEF StageStep

(* Outside the stage nothing of it moves, and a raised flag stays up until *)
(* the next run.                                                           *)
LEMMA StillKeeps ==
  ASSUME SerialInv, UNCHANGED <<poolVars, available, branch, sections>>, cancel => cancel',
         pc' = pc \/ pc # "downstream" \/ pc' = "downstream" \/ AllDone
  PROVE  SerialInv'
<1>1. PoolShape' BY DEF SerialInv, PoolShape, poolVars
<1>2. Accounted => Accounted' BY DEF Accounted, Holds, TaskOf, poolVars
<1>3. OutIsLast => OutIsLast' BY DEF OutIsLast, poolVars
<1>4. PolarsAreSerial' BY DEF SerialInv, PolarsAreSerial
<1>5. (pc # "downstream" => AllDone \/ \A b \in Branches : branch[b] = "waiting")'
  BY DEF SerialInv, AllDone
<1> QED BY <1>1, <1>2, <1>3, <1>4, <1>5 DEF SerialInv

(* A run starts with the pool and the stage as they were at the beginning. *)
LEMMA FreshSerial ==
  ASSUME NewPool, NewStage
  PROVE  SerialInv'
<1>1. branch' = Waiting BY DEF NewStage
<1>2. branch' \in [Branches -> Places] /\ \A b \in Branches : branch'[b] = "waiting"
  BY <1>1 DEF Waiting, Places
<1>3. branch'[Mses] = "waiting" BY <1>2, BranchAssumption
<1>4. solver' \in [Solvers -> {Idle, Out}] BY DEF NewPool, NoSolver
<1>5. PoolShape' BY <1>4, EmptyPool DEF NewPool
<1> QED BY <1>2, <1>3, <1>5 DEF SerialInv, PolarsAreSerial

LEMMA InitSerial == Init => SerialInv
<1> SUFFICES ASSUME Init PROVE SerialInv OBVIOUS
<1>1. branch = Waiting BY DEF Init, NoStage
<1>2. branch \in [Branches -> Places] /\ \A b \in Branches : branch[b] = "waiting"
  BY <1>1 DEF Waiting, Places
<1>3. branch[Mses] = "waiting" BY <1>2, BranchAssumption
<1>4. PoolShape
  <2>1. 0 \in Tasks BY PoolAssumption DEF Tasks
  <2> QED BY <2>1 DEF Init, NoPool, NoSolver, Out, PoolShape
<1> QED BY <1>2, <1>3, <1>4 DEF SerialInv, PolarsAreSerial

LEMMA StepSerial == SerialInv /\ [Next]_vars => SerialInv'
<1> SUFFICES ASSUME SerialInv, [Next]_vars PROVE SerialInv' OBVIOUS
<1> USE DEF stageVars
<1>1. CASE Worker
  <2>1. CASE EarlyStages
    BY <2>1, StillKeeps DEF EarlyStages, BeginStage
  <2>2. CASE ExportGeometry BY <2>2, StillKeeps DEF ExportGeometry
  <2>3. CASE Analyse BY <2>3, StageSerial
  <2>4. CASE LeaveStage BY <2>4, StillKeeps DEF LeaveStage, Joined
  <2>5. CASE Finalise BY <2>5, StillKeeps DEF Finalise
  <2>6. CASE Deliver BY <2>6, StillKeeps DEF Deliver
  <2> QED BY <1>1, <2>1, <2>2, <2>3, <2>4, <2>5, <2>6 DEF Worker
<1>2. CASE StartPipeline BY <1>2, FreshSerial DEF StartPipeline
<1>3. CASE RequestCancel BY <1>3, StillKeeps DEF RequestCancel
<1>4. CASE PollWorker BY <1>4, StillKeeps DEF PollWorker
<1>5. CASE EnterSandbox BY <1>5, StillKeeps DEF EnterSandbox, runVars
<1>6. CASE NewSandbox BY <1>6, StillKeeps DEF NewSandbox, runVars
<1>7. CASE Discard BY <1>7, StillKeeps DEF Discard, runVars
<1>8. CASE Promote BY <1>8, StillKeeps DEF Promote, runVars
<1>9. CASE UNCHANGED vars BY <1>9, StillKeeps DEF vars, runVars
<1> QED BY <1>1, <1>2, <1>3, <1>4, <1>5, <1>6, <1>7, <1>8, <1>9 DEF Next

(* StageIsSerial: in parallel or not, whichever analysis or section fails  *)
(* or is skipped, the stage is left with every analysis returned and, if   *)
(* MSES is available, with the root and the sections up to the first       *)
(* skipped one (pipeline.rs, mses_polars.rs).                              *)
THEOREM SerialTheorem == Spec => []StageIsSerial
<1>1. SerialInv => StageIsSerial BY DEF SerialInv, PolarsAreSerial, StageIsSerial
<1> QED BY <1>1, InitSerial, StepSerial, PTL DEF Spec

-----------------------------------------------------------------------------
(* The types.                                                              *)

StageType ==
  /\ cancel \in BOOLEAN
  /\ parallel \in BOOLEAN /\ available \in BOOLEAN
  /\ failed \in BOOLEAN /\ sections \subseteq Tasks
  /\ lock \in Branches \cup {"free"}
  /\ \A b \in Branches : branch[b] = "merged" <=> lock = b

RunType ==
  /\ pc \in {"none", "start", "snapshot", "downstream", "feasibility", "final"}
  /\ runs \in 0..MaxRuns /\ running \in BOOLEAN /\ requested \in BOOLEAN

CaseType ==
  /\ case \in 0..MaxCases /\ startedIn \in 0..MaxCases /\ cases \in 0..MaxCases
  /\ result \in Results /\ complete \in BOOLEAN /\ restored \in BOOLEAN
  /\ prior = NoPrior \/ (prior.case \in 0..MaxCases /\ prior.result \in Results)

TypeInv == SerialInv /\ WindowInv /\ StageType /\ RunType /\ CaseType

-----------------------------------------------------------------------------
(* The snapshots are cumulative.                                           *)

InStage == pc \in {"snapshot", "downstream", "feasibility", "final"}

(* While an analysis publishes, the copy it took under the lock is all     *)
(* there is.                                                               *)
CumulativeInv ==
  /\ \A j, k \in SnapshotsAt : j <= k => queue[j].of \subseteq queue[k].of
  /\ pc = "start" => queue = <<>> /\ result = NoResult /\ merged = {} /\ lock = "free"
  /\ InStage =>
       /\ \A k \in SnapshotsAt : result.of \subseteq queue[k].of /\ queue[k].of \subseteq merged
       /\ result.of \subseteq merged
       /\ lock = "free" => Latest = merged
       /\ lock # "free" => copy[lock] = merged

SnapshotInv == TypeInv /\ CumulativeInv

LEMMA InitSnapshots == Init => SnapshotInv
<1> SUFFICES ASSUME Init PROVE SnapshotInv OBVIOUS
<1>1. SerialInv /\ WindowInv BY InitSerial, InitWindow
<1>2. branch = Waiting /\ lock = "free" /\ sections = {} /\ failed = FALSE
      /\ parallel = FALSE /\ available = FALSE
      /\ cancel = FALSE
  BY DEF Init, NoStage
<1>3. StageType
  <2>1. \A b \in Branches : branch[b] # "merged" /\ lock # b
    BY <1>2, BranchAssumption DEF Waiting
  <2> QED BY <1>2, <2>1 DEF StageType
<1>4. RunType
  <2>1. pc = "none" /\ runs = 0 /\ running = FALSE /\ requested = FALSE BY DEF Init
  <2>2. runs \in 0..MaxRuns BY <2>1, WindowAssumption
  <2>3. running \in BOOLEAN /\ requested \in BOOLEAN BY <2>1
  <2> QED BY <2>1, <2>2, <2>3 DEF RunType
<1>5. CaseType
  <2>1. 0 \in 0..MaxCases BY WindowAssumption
  <2>2. NoResult \in Results BY <2>1 DEF NoResult, Results
  <2> QED BY <2>1, <2>2 DEF Init, CaseType
<1>6. CumulativeInv
  <2>1. SnapshotsAt = {} /\ pc = "none" BY DEF Init, SnapshotsAt
  <2> QED BY <2>1 DEF CumulativeInv, InStage
<1> QED BY <1>1, <1>3, <1>4, <1>5, <1>6 DEF SnapshotInv, TypeInv

(* The snapshots of a queue with one message more. *)
LEMMA OneMore ==
  ASSUME queue \in Seq(Messages), NEW m \in Messages, Send(m)
  PROVE  /\ Len(queue) + 1 \in DOMAIN queue' /\ queue'[Len(queue) + 1] = m
         /\ SnapshotsAt' = IF m.kind = "snapshot" THEN SnapshotsAt \cup {Len(queue) + 1}
                                                  ELSE SnapshotsAt
         /\ SnapshotsAt \subseteq 1..Len(queue) /\ Len(queue) \in Nat
         /\ \A k \in SnapshotsAt : queue'[k] = queue[k]
<1> DEFINE n == Len(queue) + 1
<1>1. queue' = Append(queue, m) BY DEF Send
<1>2. /\ Len(queue) \in Nat /\ DOMAIN queue = 1..Len(queue) /\ DOMAIN queue' = 1..n
      /\ queue'[n] = m /\ \A k \in 1..Len(queue) : queue'[k] = queue[k]
  BY <1>1
<1>3. SnapshotsAt \subseteq 1..Len(queue) BY <1>2 DEF SnapshotsAt
<1>4. SnapshotsAt' = {k \in 1..n : queue'[k].kind = "snapshot"} BY <1>2 DEF SnapshotsAt
<1>5. \A k : k \in 1..n <=> k \in 1..Len(queue) \/ k = n BY <1>2
<1>6. CASE m.kind = "snapshot" BY <1>2, <1>4, <1>5, <1>6 DEF SnapshotsAt
<1>7. CASE m.kind # "snapshot" BY <1>2, <1>4, <1>5, <1>7 DEF SnapshotsAt
<1> QED BY <1>2, <1>3, <1>6, <1>7

LEMMA LastIsIn ==
  ASSUME queue \in Seq(Messages), SnapshotsAt # {}
  PROVE  Max(SnapshotsAt) \in SnapshotsAt /\ LastSnapshot \in Messages
<1>1. SnapshotsAt \in SUBSET Nat /\ \A k \in SnapshotsAt : k <= Len(queue)
  BY DEF SnapshotsAt
<1>2. Len(queue) \in Nat OBVIOUS
<1>3. Max(SnapshotsAt) \in SnapshotsAt BY <1>1, <1>2, MaxIsIn
<1> QED BY <1>3 DEF SnapshotsAt, LastSnapshot

(* A snapshot with all that was merged, sent last. *)
LEMMA SendLatest ==
  ASSUME queue \in Seq(Messages), Published, CumulativeInv, InStage \/ pc = "start",
         Send(Snapshot(merged)), UNCHANGED <<merged, result>>,
         pc' # "start", lock' = "free"
  PROVE  CumulativeInv'
<1> DEFINE n == Len(queue) + 1
           m == Snapshot(merged)
<1>1. m \in Messages /\ m.kind = "snapshot" /\ m.of = merged
  BY SnapshotIsMessage DEF Published, Snapshot
<1> HIDE DEF m
<1>2. /\ SnapshotsAt' = SnapshotsAt \cup {n} /\ SnapshotsAt \subseteq 1..Len(queue)
      /\ Len(queue) \in Nat /\ queue'[n] = m /\ \A k \in SnapshotsAt : queue'[k] = queue[k]
  BY <1>1, OneMore DEF m
<1> HIDE DEF n
<1>2a. n \in Nat /\ \A k \in SnapshotsAt : k \in Nat /\ k < n BY <1>2 DEF n
<1>3. /\ result.of \subseteq merged
      /\ \A k \in SnapshotsAt : result.of \subseteq queue[k].of /\ queue[k].of \subseteq merged
  <2>1. CASE InStage BY <2>1 DEF CumulativeInv
  <2>2. CASE pc = "start"
    <3>1. SnapshotsAt = {} /\ result.of = {} BY <2>2 DEF CumulativeInv, SnapshotsAt, NoResult
    <3> QED BY <3>1
  <2> QED BY <2>1, <2>2
<1>4. \A j, k \in SnapshotsAt' : j <= k => queue'[j].of \subseteq queue'[k].of
  <2> SUFFICES ASSUME NEW j \in SnapshotsAt', NEW k \in SnapshotsAt', j <= k
               PROVE  queue'[j].of \subseteq queue'[k].of
    OBVIOUS
  <2>1. CASE k = n BY <1>1, <1>2, <1>3, <2>1
  <2>2. CASE k # n
    <3>1. k \in SnapshotsAt /\ j \in SnapshotsAt BY <1>2, <1>2a, <2>2
    <3> QED BY <1>2, <3>1 DEF CumulativeInv
  <2> QED BY <2>1, <2>2
<1>5. \A k \in SnapshotsAt' : result.of \subseteq queue'[k].of /\ queue'[k].of \subseteq merged
  BY <1>1, <1>2, <1>3
<1>6. Latest' = merged
  <2>1. Max(SnapshotsAt') = n
    <3>1. SnapshotsAt' \in SUBSET Nat /\ n \in SnapshotsAt' /\ n \in Nat
          /\ \A x \in SnapshotsAt' : x <= n
      BY <1>2, <1>2a
    <3>2. Max(SnapshotsAt') \in SnapshotsAt' /\ n <= Max(SnapshotsAt')
      <4> DEFINE S == SnapshotsAt'
      <4>1. S \in SUBSET Nat /\ S # {} /\ n \in S BY <3>1
      <4> HIDE DEF S
      <4> QED BY <3>1, <4>1, MaxIsIn
    <3>3. Max(SnapshotsAt') \in Nat /\ Max(SnapshotsAt') <= n BY <3>1, <3>2
    <3> QED BY <3>1, <3>2, <3>3
  <2> QED BY <1>1, <1>2, <2>1 DEF Latest, LastSnapshot
<1> QED BY <1>3, <1>4, <1>5, <1>6 DEF CumulativeInv, InStage

(* The worker goes on without a message. *)
LEMMA CumulativeSilent ==
  ASSUME CumulativeInv, UNCHANGED <<queue, publisherVars, result>>, pc' # "start",
         InStage' => InStage
  PROVE  CumulativeInv'
BY DEF CumulativeInv, SnapshotsAt, LastSnapshot, Latest, publisherVars

(* The end of the run is no snapshot. *)
LEMMA CumulativeEnd ==
  ASSUME queue \in Seq(Messages), CumulativeInv, NEW kind \in {"result", "error"},
         NEW of \in SUBSET Branches, Finish(kind, of)
  PROVE  CumulativeInv'
<1> DEFINE m == [kind |-> kind, of |-> of]
<1>1. m \in Messages /\ m.kind # "snapshot" BY DEF Messages
<1>2. Send(m) /\ pc' = "none" BY DEF Finish
<1>3. SnapshotsAt' = SnapshotsAt /\ \A k \in SnapshotsAt : queue'[k] = queue[k]
  BY <1>1, <1>2, OneMore
<1> QED BY <1>2, <1>3 DEF CumulativeInv, InStage

(* An analysis that is not in the publisher moves to a place that is not   *)
(* in it either.                                                           *)
LEMMA LockKeeps ==
  ASSUME branch \in [Branches -> Places], StageType, NEW b \in Branches, branch[b] # "merged",
         NEW place \in Places \ {"merged"}, At(b, place), UNCHANGED lock
  PROVE  \A c \in Branches : branch'[c] = "merged" <=> lock' = c
BY DEF StageType, At

LEMMA StageSnapshots ==
  ASSUME SnapshotInv, Analyse, result' = result
  PROVE  StageType' /\ CumulativeInv'
<1> USE DEF options
<1>1. pc = "downstream" /\ pc' = pc /\ StageStep BY DEF Analyse
<1>2. queue \in Seq(Messages) /\ Published /\ StageType /\ CumulativeInv
      /\ branch \in [Branches -> Places]
  BY DEF SnapshotInv, TypeInv, WindowInv, BusyInv, SerialInv
<1>3. Mses \in Branches /\ "free" \notin Branches BY BranchAssumption
<1>4. CASE PoolStep /\ UNCHANGED <<stageVars, queue>>
  <2>1. UNCHANGED cancel BY <1>4 DEF PoolStep, Claim, LookAtCancel, Solve
  <2>2. StageType' BY <1>2, <1>4, <2>1 DEF StageType, stageVars, publisherVars
  <2>3. CumulativeInv'
    BY <1>1, <1>2, <1>4, CumulativeSilent DEF stageVars, InStage
  <2> QED BY <2>2, <2>3
<1>5. ASSUME UNCHANGED <<cancel, publisherVars, queue>>,
             parallel' \in BOOLEAN, available' = available, failed' \in BOOLEAN, sections' \subseteq Tasks,
             NEW b \in Branches, NEW place \in Places \ {"merged"}, branch[b] # "merged", At(b, place)
      PROVE  StageType' /\ CumulativeInv'
  <2>1. UNCHANGED lock BY <1>5 DEF publisherVars
  <2>2. \A c \in Branches : branch'[c] = "merged" <=> lock' = c BY <1>2, <1>5, <2>1, LockKeeps
  <2>3. StageType' BY <1>2, <1>5, <2>1, <2>2 DEF StageType
  <2>4. CumulativeInv' BY <1>1, <1>2, <1>5, CumulativeSilent DEF InStage
  <2> QED BY <2>3, <2>4
<1>6. CASE ReturnPolars /\ UNCHANGED cancel
  <2>1. Kept \subseteq Tasks BY DEF Kept, SnapshotInv, TypeInv, SerialInv, PoolShape
  <2> QED BY <1>2, <1>3, <1>5, <1>6, <2>1 DEF ReturnPolars, StageType, Places
<1>7. ASSUME NEW b \in Branches, Begin(b), UNCHANGED cancel PROVE StageType' /\ CumulativeInv'
  BY <1>2, <1>5, <1>7 DEF Begin, StageType, Places
<1>8. ASSUME NEW b \in Branches, Return(b), UNCHANGED cancel PROVE StageType' /\ CumulativeInv'
  <2>1. UNCHANGED <<parallel, available, sections, publisherVars, queue>> /\ branch[b] = "running"
    BY <1>8 DEF Return
  <2>2. PICK place \in {"ready", "done"} : At(b, place) /\ failed' \in BOOLEAN
    BY <1>2, <1>8 DEF Return, StageType
  <2> QED BY <1>2, <1>5, <1>8, <2>1, <2>2 DEF StageType, Places
<1>9. ASSUME NEW b \in Branches, Merge(b), UNCHANGED cancel PROVE StageType' /\ CumulativeInv'
  <2>1. /\ lock = "free" /\ lock' = b /\ b # "free" /\ branch[b] = "ready"
        /\ merged' = merged \cup {b} /\ copy' = [copy EXCEPT ![b] = merged \cup {b}]
        /\ branch' = [branch EXCEPT ![b] = "merged"]
        /\ UNCHANGED <<parallel, available, failed, sections, queue>>
    BY <1>3, <1>9 DEF Merge, At
  <2>2. \A c \in Branches : branch'[c] = "merged" <=> lock' = c
    BY <1>2, <1>3, <2>1 DEF StageType
  <2>3. StageType' BY <1>2, <1>9, <2>1, <2>2 DEF StageType
  <2>4. copy'[lock'] = merged' BY <1>2, <2>1 DEF Published
  <2>5. SnapshotsAt' = SnapshotsAt BY <2>1 DEF SnapshotsAt
  <2>6. CumulativeInv' BY <1>1, <1>2, <2>1, <2>4, <2>5 DEF CumulativeInv, InStage
  <2> QED BY <2>3, <2>6
<1>10. ASSUME NEW b \in Branches, Publish(b), UNCHANGED cancel PROVE StageType' /\ CumulativeInv'
  <2>1. /\ lock' = "free" /\ branch[b] = "merged" /\ Send(Snapshot(copy[b]))
        /\ branch' = [branch EXCEPT ![b] = "done"] /\ copy' = [copy EXCEPT ![b] = {}]
        /\ UNCHANGED <<parallel, available, failed, sections, merged>>
    BY <1>10 DEF Publish, At
  <2>2. lock = b BY <1>2, <2>1 DEF StageType
  <2>3. \A c \in Branches : branch'[c] = "merged" <=> lock' = c
    BY <1>2, <1>3, <2>1, <2>2 DEF StageType
  <2>4. StageType' BY <1>2, <1>10, <2>1, <2>3 DEF StageType
  <2>5. copy[b] = merged BY <1>1, <1>2, <1>3, <2>2 DEF CumulativeInv, InStage
  <2>6. CumulativeInv' BY <1>1, <1>2, <2>1, <2>5, SendLatest DEF InStage
  <2> QED BY <2>4, <2>6
<1> QED BY <1>1, <1>4, <1>6, <1>7, <1>8, <1>9, <1>10 DEF StageStep

LEMMA WorkerSnapshots ==
  ASSUME SnapshotInv, Worker
  PROVE  StageType' /\ RunType' /\ CaseType' /\ CumulativeInv'
<1>1. UNCHANGED <<runs, running, requested, case, cases, prior, restored, startedIn, result,
                  complete>>
  BY DEF Worker, caseVars, shownVars
<1>2. /\ queue \in Seq(Messages) /\ Published /\ StageType /\ RunType /\ CaseType
      /\ CumulativeInv
  BY DEF SnapshotInv, TypeInv, WindowInv, BusyInv
<1>3. CaseType' BY <1>1, <1>2 DEF CaseType
<1>4. RunType'
  <2>1. pc' \in {"none", "start", "snapshot", "downstream", "feasibility", "final"}
    BY <1>2 DEF Worker, EarlyStages, ExportGeometry, Analyse, LeaveStage, Finalise, Deliver,
       Finish, GoTo, RunType
  <2> QED BY <1>1, <1>2, <2>1 DEF RunType
<1>5. {} \in SUBSET Branches /\ merged \in SUBSET Branches BY <1>2 DEF Published
<1>6. ASSUME NEW kind \in {"result", "error"}, NEW of \in SUBSET Branches, Finish(kind, of),
             UNCHANGED <<cancel, stageVars>>
      PROVE  StageType' /\ CumulativeInv'
  <2>1. StageType' BY <1>2, <1>6 DEF StageType, stageVars, publisherVars
  <2> QED BY <1>2, <1>6, <2>1, CumulativeEnd
<1>7. ASSUME InStage, NEW place \in {"downstream", "feasibility", "final"}, GoTo(place),
             UNCHANGED <<cancel, stageVars>>
      PROVE  StageType' /\ CumulativeInv'
  <2>1. StageType' BY <1>2, <1>7 DEF StageType, stageVars, publisherVars
  <2> QED BY <1>1, <1>2, <1>7, <2>1, CumulativeSilent DEF GoTo, stageVars
<1>8. CASE EarlyStages
  <2>1. CASE Finish("error", {}) /\ UNCHANGED stageVars
    BY <1>3, <1>4, <1>5, <1>6, <1>8, <2>1 DEF EarlyStages
  <2>2. CASE pc' = "snapshot" /\ BeginStage
    <3>1. pc = "start" /\ UNCHANGED cancel BY <1>8 DEF EarlyStages
    <3>2. merged = {} /\ lock = "free" BY <1>2, <3>1 DEF CumulativeInv
    <3>3. StageType' BY <1>2, <2>2, <3>1 DEF BeginStage, StageType, publisherVars
    <3>4. CumulativeInv'
      BY <1>1, <1>2, <2>2, <3>1, <3>2, SendLatest DEF BeginStage, publisherVars
    <3> QED BY <1>3, <1>4, <3>3, <3>4
  <2> QED BY <1>8, <2>1, <2>2 DEF EarlyStages
<1>9. CASE ExportGeometry
  BY <1>3, <1>4, <1>5, <1>6, <1>7, <1>9 DEF ExportGeometry, InStage
<1>10. CASE Analyse BY <1>1, <1>3, <1>4, <1>10, StageSnapshots
<1>11. CASE LeaveStage BY <1>3, <1>4, <1>5, <1>6, <1>7, <1>11 DEF LeaveStage, InStage
<1>12. CASE Finalise BY <1>3, <1>4, <1>5, <1>6, <1>7, <1>12 DEF Finalise, InStage
<1>13. CASE Deliver BY <1>3, <1>4, <1>5, <1>6, <1>13 DEF Deliver
<1> QED BY <1>8, <1>9, <1>10, <1>11, <1>12, <1>13 DEF Worker

(* What a poll puts on view is what was published last.                    *)
LEMMA PollSnapshots ==
  ASSUME SnapshotInv, PollWorker
  PROVE  StageType' /\ RunType' /\ CaseType' /\ CumulativeInv'
<1>1. UNCHANGED <<cancel, stageVars, pc, runs, startedIn, case, cases, prior, restored>>
      /\ queue # <<>> /\ queue' = <<>>
  BY DEF PollWorker, caseVars
<1>2. /\ queue \in Seq(Messages) /\ Published /\ StageType /\ RunType /\ CaseType
      /\ CumulativeInv /\ BusyInv
  BY DEF SnapshotInv, TypeInv, WindowInv, BusyInv
<1>3. StageType' BY <1>1, <1>2 DEF StageType, stageVars, publisherVars
<1>4. RunType'
  <2>1. running' \in BOOLEAN /\ requested' \in BOOLEAN BY DEF PollWorker
  <2> QED BY <1>1, <1>2, <2>1 DEF RunType
<1>5. Last(queue) \in Messages BY <1>1, <1>2 DEF Last
<1>6. SnapshotsAt # {} => LastSnapshot \in Messages BY <1>2, LastIsIn
<1>7. startedIn \in 0..MaxCases /\ result \in Results BY <1>2 DEF CaseType
<1>8. CaseType'
  <2>1. CASE Last(queue).kind = "result"
    <3>1. result' = Shown("final", Last(queue).of) BY <2>1 DEF PollWorker
    <3>2. Last(queue).of \in SUBSET Branches BY <1>5 DEF Messages
    <3>3. result' \in Results BY <1>7, <3>1, <3>2 DEF Shown, Results
    <3>4. complete' \in BOOLEAN BY DEF PollWorker
    <3> QED BY <1>1, <1>2, <3>3, <3>4 DEF CaseType
  <2>2. CASE Last(queue).kind # "result"
    <3>1. result' = IF SnapshotsAt # {} THEN Shown("snapshot", LastSnapshot.of) ELSE result
      BY <2>2 DEF PollWorker
    <3>2. SnapshotsAt # {} => LastSnapshot.of \in SUBSET Branches BY <1>6 DEF Messages
    <3>3. result' \in Results BY <1>7, <3>1, <3>2 DEF Shown, Results
    <3>4. complete' \in BOOLEAN BY DEF PollWorker
    <3> QED BY <1>1, <1>2, <3>3, <3>4 DEF CaseType
  <2> QED BY <2>1, <2>2
<1>9. CumulativeInv'
  <2>1. SnapshotsAt' = {} BY <1>1 DEF SnapshotsAt
  <2>2. pc # "start" BY <1>1, <1>2 DEF CumulativeInv
  <2>3. ASSUME InStage PROVE Latest' = Latest /\ result'.of \subseteq merged
    <3>1. ~Ended BY <1>2, <2>3 DEF BusyInv, InStage
    <3>2. Len(queue) \in DOMAIN queue /\ Last(queue) = queue[Len(queue)] BY <1>1, <1>2 DEF Last
    <3>3. Last(queue).kind = "snapshot" /\ SnapshotsAt # {}
      BY <3>1, <3>2 DEF Ended, SnapshotsAt
    <3>4. result' = Shown("snapshot", LastSnapshot.of) BY <3>3 DEF PollWorker
    <3>5. result'.of = LastSnapshot.of BY <3>4 DEF Shown
    <3>6. LastSnapshot.of \subseteq merged
      BY <1>2, <2>3, <3>3, LastIsIn DEF CumulativeInv, LastSnapshot
    <3> QED BY <2>1, <3>3, <3>5, <3>6 DEF Latest
  <2> QED BY <1>1, <1>2, <2>1, <2>2, <2>3 DEF CumulativeInv, InStage, stageVars, publisherVars
<1> QED BY <1>3, <1>4, <1>8, <1>9

(* While nothing runs there is nothing to read, and no stage.              *)
LEMMA IdleSnapshots ==
  ASSUME SnapshotInv, ~running, UNCHANGED <<queue, pc>>
  PROVE  CumulativeInv'
<1>1. queue = <<>> /\ pc = "none" BY DEF SnapshotInv, TypeInv, WindowInv, BusyInv
<1>2. SnapshotsAt' = {} BY <1>1 DEF SnapshotsAt
<1> QED BY <1>1, <1>2 DEF CumulativeInv, InStage

LEMMA StartSnapshots ==
  ASSUME SnapshotInv, StartPipeline
  PROVE  StageType' /\ RunType' /\ CaseType' /\ CumulativeInv'
<1>1. RunType /\ CaseType BY DEF SnapshotInv, TypeInv
<1>2. branch' = Waiting /\ lock' = "free" /\ sections' = {}
      /\ parallel' = FALSE /\ available' \in BOOLEAN /\ failed' = FALSE /\ cancel' = FALSE /\ merged' = {}
  BY DEF StartPipeline, NewStage
<1>3. StageType'
  <2>1. \A b \in Branches : branch'[b] # "merged" /\ lock' # b
    BY <1>2, BranchAssumption DEF Waiting
  <2> QED BY <1>2, <2>1 DEF StageType
<1>4. RunType'
  <2>1. runs' \in 0..MaxRuns BY <1>1, WindowAssumption DEF StartPipeline, RunType
  <2>2. running' = TRUE /\ requested' = FALSE /\ pc' \in {"start", "none"} BY DEF StartPipeline
  <2>3. running' \in BOOLEAN /\ requested' \in BOOLEAN BY <2>2
  <2> QED BY <2>1, <2>2, <2>3 DEF RunType
<1>5. CaseType'
  <2>1. 0 \in 0..MaxCases BY WindowAssumption
  <2>2. result' \in Results BY <2>1 DEF StartPipeline, NoResult, Results
  <2>3. complete' = FALSE /\ restored' = FALSE /\ startedIn' = case
        /\ UNCHANGED <<case, cases, prior>>
    BY DEF StartPipeline
  <2>4. complete' \in BOOLEAN /\ restored' \in BOOLEAN BY <2>3
  <2> QED BY <1>1, <2>2, <2>3, <2>4 DEF CaseType
<1>6. CumulativeInv'
  <2>1. queue' = <<>> /\ result' = NoResult /\ pc' \in {"start", "none"}
    BY DEF StartPipeline, SnapshotInv, TypeInv, WindowInv, BusyInv
  <2>2. SnapshotsAt' = {} BY <2>1 DEF SnapshotsAt
  <2> QED BY <1>2, <2>1, <2>2 DEF CumulativeInv, InStage
<1> QED BY <1>3, <1>4, <1>5, <1>6

(* A move between two cases.                                               *)
LEMMA CaseMoveSnapshots ==
  ASSUME SnapshotInv, EnterSandbox \/ NewSandbox \/ Discard \/ Promote
  PROVE  StageType' /\ RunType' /\ CaseType' /\ CumulativeInv'
<1>1. StageType /\ RunType /\ CaseType BY DEF SnapshotInv, TypeInv
<1>2. ~running /\ UNCHANGED <<cancel, stageVars, queue, pc, runs, running, requested, startedIn,
                              complete>>
  BY DEF EnterSandbox, NewSandbox, Discard, Promote, runVars
<1>3. StageType' BY <1>1, <1>2 DEF StageType, stageVars, publisherVars
<1>4. RunType' BY <1>1, <1>2 DEF RunType
<1>5. CumulativeInv' BY <1>2, IdleSnapshots
<1>6. NoResult \in Results BY WindowAssumption DEF NoResult, Results
<1>7. CaseType'
  <2>1. ASSUME Open(cases + 1)
        PROVE  case' \in 0..MaxCases /\ cases' \in 0..MaxCases /\ result' \in Results
    BY <1>1, <1>6, <2>1, WindowAssumption DEF Open, CaseType
  <2>2. CASE EnterSandbox
    <3>1. prior'.case = case /\ prior'.result = result /\ UNCHANGED restored
      BY <2>2 DEF EnterSandbox
    <3> QED BY <1>1, <1>2, <2>1, <2>2, <3>1 DEF EnterSandbox, CaseType
  <2>3. CASE NewSandbox BY <1>1, <1>2, <2>1, <2>3 DEF NewSandbox, CaseType
  <2>4. CASE Discard
    <3>1. prior.case \in 0..MaxCases /\ prior.result \in Results
      BY <1>1, <2>4 DEF Discard, InSandbox, CaseType
    <3>2. restored' = TRUE BY <2>4 DEF Discard
    <3>3. restored' \in BOOLEAN BY <3>2
    <3> QED BY <1>1, <1>2, <2>4, <3>1, <3>3 DEF Discard, CaseType
  <2>5. CASE Promote BY <1>1, <1>2, <1>6, <2>5 DEF Promote, CaseType
  <2> QED BY <2>2, <2>3, <2>4, <2>5
<1> QED BY <1>3, <1>4, <1>5, <1>7

LEMMA StepSnapshots == SnapshotInv /\ [Next]_vars => SnapshotInv'
<1> SUFFICES ASSUME SnapshotInv, [Next]_vars
             PROVE  StageType' /\ RunType' /\ CaseType' /\ CumulativeInv'
  BY StepSerial, StepWindow DEF SnapshotInv, TypeInv
<1>1. CASE Worker BY <1>1, WorkerSnapshots
<1>2. CASE StartPipeline BY <1>2, StartSnapshots
<1>3. CASE PollWorker BY <1>3, PollSnapshots
<1>4. CASE EnterSandbox \/ NewSandbox \/ Discard \/ Promote BY <1>4, CaseMoveSnapshots
<1>5. CASE RequestCancel \/ UNCHANGED vars
  <2>1. UNCHANGED <<stageVars, queue, pc, runs, startedIn, caseVars, shownVars>>
        /\ cancel' \in BOOLEAN /\ requested' \in BOOLEAN /\ UNCHANGED running
    <3>1. CASE RequestCancel
      <4>1. cancel' = TRUE /\ requested' = TRUE BY <3>1 DEF RequestCancel
      <4>2. cancel' \in BOOLEAN /\ requested' \in BOOLEAN BY <4>1
      <4> QED BY <3>1, <4>2 DEF RequestCancel
    <3>2. CASE UNCHANGED vars
      BY <3>2 DEF vars, runVars, SnapshotInv, TypeInv, StageType, RunType
    <3> QED BY <1>5, <3>1, <3>2
  <2>2. StageType' BY <2>1 DEF SnapshotInv, TypeInv, StageType, stageVars, publisherVars
  <2>3. RunType' BY <2>1 DEF SnapshotInv, TypeInv, RunType
  <2>4. CaseType' BY <2>1 DEF SnapshotInv, TypeInv, CaseType, caseVars, shownVars
  <2>5. UNCHANGED <<pc, queue, publisherVars, result>> BY <2>1 DEF stageVars, shownVars
  <2>6. CumulativeInv'
    BY <2>5 DEF SnapshotInv, CumulativeInv, SnapshotsAt, LastSnapshot, Latest, InStage,
       publisherVars
  <2> QED BY <2>2, <2>3, <2>4, <2>6
<1> QED BY <1>1, <1>2, <1>3, <1>4, <1>5 DEF Next

(* TypeOK: every variable keeps its type, and the publisher is held by     *)
(* exactly the analysis that has merged and not yet published              *)
(* (snapshots.rs, update).                                                 *)
THEOREM TypeTheorem == Spec => []TypeOK
<1>1. SnapshotInv => TypeOK
  <2> SUFFICES ASSUME SnapshotInv PROVE TypeOK OBVIOUS
  <2>1. SerialInv /\ WindowInv /\ StageType /\ RunType /\ CaseType
    BY DEF SnapshotInv, TypeInv
  <2>2. prior.case \in -1..MaxCases /\ prior.result \in Results
    <3>1. NoResult \in Results BY WindowAssumption DEF NoResult, Results
    <3>2. CASE prior = NoPrior BY <3>1, <3>2, WindowAssumption DEF NoPrior
    <3>3. CASE prior.case \in 0..MaxCases /\ prior.result \in Results BY <3>3, WindowAssumption
    <3> QED BY <2>1, <3>2, <3>3 DEF CaseType
  <2>3. PoolShape /\ branch \in [Branches -> Places] BY <2>1 DEF SerialInv
  <2>4. Published /\ queue \in Seq(Messages) BY <2>1 DEF WindowInv, BusyInv
  <2> QED BY <2>1, <2>2, <2>3, <2>4 DEF TypeOK, StageType, RunType, CaseType, PoolShape,
                                       Published, Messages
<1> QED BY <1>1, InitSnapshots, StepSnapshots, PTL DEF Spec

(* SnapshotsAreCumulative: in whatever order the analyses return, on       *)
(* however many threads, and whenever the window reads, no snapshot is     *)
(* behind an earlier one, and the latest has every result once the         *)
(* publisher is free (snapshots.rs: "a slow worker cannot overwrite a      *)
(* newer snapshot").                                                       *)
THEOREM SnapshotTheorem == Spec => []SnapshotsAreCumulative
<1>1. SnapshotInv => SnapshotsAreCumulative
  BY DEF SnapshotInv, CumulativeInv, SnapshotsAreCumulative, InStage
<1> QED BY <1>1, InitSnapshots, StepSnapshots, PTL DEF Spec
=============================================================================
