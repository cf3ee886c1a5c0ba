------------------------ MODULE CfdLifecycle_proofs ------------------------
(***************************************************************************)
(* Proofs about CfdLifecycle, for every number of sweep points, runs and   *)
(* edits, every set of studies and every amount of output.                 *)
(*                                                                         *)
(* ShownIsForTheInputs is inductive by itself.  OneMoreToolAtMost is not:  *)
(* StopInv adds that the flag and the request go together from the start   *)
(* of a run to its end, and where a worker can be that has launched a late *)
(* tool.  IdleIsQuiet needs the most: QuietInv says what the worker and    *)
(* the messages on their way may still tell the window.                    *)
(***************************************************************************)
EXTENDS CfdLifecycle, SequenceTheorems, WellFoundedInduction, NaturalsInduction, TLAPS

(* The worker after a late launch: never back at the head of a loop. *)
Leaving == {"drain", "cancel", "post", "returned", "persist", "report", "end", "none"}

StopInv ==
  /\ flag \in BOOLEAN /\ asked = flag
  /\ late \in {0, 1}
  /\ late = 1 =>
       /\ flag /\ pc \in Leaving
       /\ pc \in {"post", "returned"} => status = "Cancelled"

-----------------------------------------------------------------------------
(* What is shown. *)

LEMMA InitShown == Init => ShownIsForTheInputs
BY DEF Init, ShownIsForTheInputs, NoResult

(* A poll shows no point where none was shown.                             *)
LEMMA NoPointAppears == Poll => (points' # <<>> => points # <<>>)
<1> SUFFICES ASSUME Poll, points = <<>> PROVE points' = <<>> OBVIOUS
<1>1. DOMAIN points = {} OBVIOUS
<1>2. DOMAIN Updated = {} BY <1>1 DEF Updated
<1>3. points' = [i \in {} |-> points'[i]]
  <2>1. points' = Updated \/ points' = Settled(Updated) BY DEF Poll
  <2>2. Updated = [i \in {} |-> Updated[i]] BY <1>1 DEF Updated
  <2>3. Settled(Updated) = [i \in {} |-> Settled(Updated)[i]] BY <1>2 DEF Settled
  <2> QED BY <2>1, <2>2, <2>3
<1> QED BY <1>3

(* A poll installs only what is for the current inputs.                    *)
LEMMA PollShown == ShownIsForTheInputs /\ Poll => ShownIsForTheInputs'
<1> SUFFICES ASSUME ShownIsForTheInputs, Poll PROVE ShownIsForTheInputs' OBVIOUS
<1>1. UNCHANGED <<revision, job>> BY DEF Poll, workerVars
<1>2. result'.outcome # "none" => result'.for = revision
  <2>1. CASE Endings("run") = {} BY <2>1 DEF Poll, ShownIsForTheInputs
  <2>2. CASE Endings("run") # {}
    <3> DEFINE m == queue[Max(Endings("run"))]
    <3>1. result' = Installed(m) BY <2>2 DEF Poll
    <3>2. CASE Current(m) /\ m.status # "Err"
      <4>1. result' = [outcome |-> m.status, for |-> m.revision] BY <3>1, <3>2 DEF Installed
      <4>2. m.revision = revision BY <3>2 DEF Current
      <4> QED BY <4>1, <4>2
    <3>3. CASE ~(Current(m) /\ m.status # "Err")
      BY <3>1, <3>3 DEF Installed, ShownIsForTheInputs
    <3> QED BY <3>2, <3>3
  <2> QED BY <2>1, <2>2
<1>3. points' # <<>> => points # <<>> BY NoPointAppears
<1> QED BY <1>1, <1>2, <1>3 DEF ShownIsForTheInputs

LEMMA StepShown == ShownIsForTheInputs /\ [Next]_vars => ShownIsForTheInputs'
<1> SUFFICES ASSUME ShownIsForTheInputs, [Next]_vars PROVE ShownIsForTheInputs' OBVIOUS
<1> DEFINE Same == UNCHANGED <<revision, points, result, job>>
<1>0. Same => ShownIsForTheInputs' BY DEF ShownIsForTheInputs
<1>1. CASE InStudy BY <1>0, <1>1 DEF InStudy, windowVars, workerVars
<1>2. CASE BeginPoint BY <1>0, <1>2 DEF BeginPoint, windowVars, workerVars
<1>3. CASE ReportPoint BY <1>0, <1>3 DEF ReportPoint, windowVars
<1>4. CASE EndSweep BY <1>0, <1>4 DEF EndSweep, windowVars, workerVars
<1>5. CASE EndRun BY <1>0, <1>5 DEF EndRun, windowVars, workerVars
<1>6. CASE Environment BY <1>0, <1>6 DEF Environment, windowVars, workerVars
<1>7. ASSUME NEW kind \in {"run", "sweep"}, Start(kind) PROVE ShownIsForTheInputs'
  <2>1. result' = NoResult /\ revision' = revision
        /\ job' = [kind |-> kind, id |-> runId + 1, revision |-> revision]
    BY <1>7 DEF Start
  <2> QED BY <2>1 DEF ShownIsForTheInputs, NoResult
<1>8. CASE CancelRun BY <1>0, <1>8 DEF CancelRun, windowVars, workerVars
<1>9. CASE MarkInputsChanged BY <1>9 DEF MarkInputsChanged, ShownIsForTheInputs, NoResult
<1>10. CASE LoadResultJson BY <1>10 DEF LoadResultJson, ShownIsForTheInputs
<1>11. CASE Poll BY <1>11, PollShown
<1>12. CASE UNCHANGED vars BY <1>0, <1>12 DEF vars, windowVars, workerVars
<1> QED BY <1>1, <1>2, <1>3, <1>4, <1>5, <1>6, <1>7, <1>8, <1>9, <1>10, <1>11, <1>12
        DEF Next, Worker, Window

(* ShownIsForTheInputs: no result and no point survives an edit or a load, *)
(* in whatever order the worker's messages, the edit and the poll come     *)
(* (lifecycle.rs, poll; selection.rs, mark_inputs_changed).                *)
THEOREM ShownTheorem == Spec => []ShownIsForTheInputs
BY InitShown, StepShown, PTL DEF Spec

-----------------------------------------------------------------------------
(* The request to stop. *)

LEMMA InitStop == Init => StopInv
<1> SUFFICES ASSUME Init PROVE StopInv OBVIOUS
<1>1. flag = FALSE /\ asked = FALSE BY DEF Init
<1>2. late \in {0, 1} /\ late # 1 BY DEF Init, NoTool
<1> QED BY <1>1, <1>2, Zenon DEF StopInv

(* The worker inside a tool. *)
LEMMA ToolStop == StopInv /\ ToolStep => StopInv'
<1> SUFFICES ASSUME StopInv, ToolStep PROVE StopInv' OBVIOUS
<1> USE DEF StopInv, Leaving, flagVars
<1>1. CASE Spawn BY <1>1 DEF Spawn
<1>2. CASE Drain BY <1>2 DEF Drain
<1>3. CASE LookAtFlag BY <1>3 DEF LookAtFlag, Ended
<1>4. CASE LookAtChild BY <1>4 DEF LookAtChild, Ended
<1>5. CASE PostDrain BY <1>5 DEF PostDrain
<1> QED BY <1>1, <1>2, <1>3, <1>4, <1>5 DEF ToolStep

(* The worker between two tools of a study. *)
LEMMA StudyStop == StopInv /\ StudyStep => StopInv'
<1> SUFFICES ASSUME StopInv, StudyStep PROVE StopInv' OBVIOUS
<1> USE DEF StopInv, Leaving, flagVars
<1>1. CASE Prepare BY <1>1 DEF Prepare
<1>2. CASE EnterStage BY <1>2 DEF EnterStage, Stop
<1>3. CASE Record BY <1>3 DEF Record, Proceed, Stop, GoOn
<1>4. CASE Persist BY <1>4 DEF Persist, toolVars
<1> QED BY <1>1, <1>2, <1>3, <1>4 DEF StudyStep

LEMMA StepStop == StopInv /\ [Next]_vars => StopInv'
<1> SUFFICES ASSUME StopInv, [Next]_vars PROVE StopInv' OBVIOUS
<1> DEFINE Same == UNCHANGED <<pc, flagVars, late, status>>
<1>0. Same => StopInv' BY DEF StopInv, flagVars
<1>1. CASE InStudy BY <1>1, ToolStop, StudyStop DEF InStudy, StudyOrTool
<1>2. CASE Environment
  <2>1. Same BY <1>2 DEF Environment, Outside, Write, Exit, Expire
  <2> QED BY <1>0, <2>1
<1>3. CASE Poll BY <1>0, <1>3 DEF Poll, toolVars
<1>4. CASE LoadResultJson BY <1>0, <1>4 DEF LoadResultJson, toolVars
<1>5. CASE UNCHANGED vars BY <1>0, <1>5 DEF vars, toolVars
<1> USE DEF StopInv, Leaving, flagVars, toolVars
<1>6. CASE BeginPoint BY <1>6 DEF BeginPoint
<1>7. CASE ReportPoint BY <1>7 DEF ReportPoint, LastPoint
<1>8. CASE EndSweep BY <1>8 DEF EndSweep
<1>9. CASE EndRun BY <1>9 DEF EndRun
<1>10. ASSUME NEW kind \in {"run", "sweep"}, Start(kind) PROVE StopInv'
  <2>1. flag' = FALSE /\ asked' = FALSE BY <1>10 DEF Start
  <2>2. late' \in {0, 1} /\ late' # 1 BY <1>10 DEF Start
  <2> QED BY <2>1, <2>2, Zenon DEF StopInv
<1>11. CASE CancelRun BY <1>11 DEF CancelRun
<1>12. CASE MarkInputsChanged BY <1>12 DEF MarkInputsChanged
<1> QED BY <1>1, <1>2, <1>3, <1>4, <1>5, <1>6, <1>7, <1>8, <1>9, <1>10, <1>11, <1>12
        DEF Next, Worker, Window

(* OneMoreToolAtMost: whatever the number of points and tools, a worker    *)
(* that was asked to stop launches at most one more tool, and kills it.    *)
THEOREM StopTheorem == Spec => []OneMoreToolAtMost
<1>1. StopInv => OneMoreToolAtMost BY DEF StopInv, OneMoreToolAtMost
<1> QED BY <1>1, InitStop, StepStop, PTL DEF Spec

-----------------------------------------------------------------------------
(* The invariants of the window at rest.                                   *)

(* The worker in the study of a point. *)
Studying == {"case", "check", "spawn", "returned", "persist", "report"} \cup InTool

(* What point i shows once the messages of q have been read. *)
AboutIn(q, i) == {k \in DOMAIN q : q[k].kind = "point" /\ q[k].point = i /\ Current(q[k])}
Shows(q, i)   == IF AboutIn(q, i) = {} THEN points[i] ELSE q[Max(AboutIn(q, i))].status

(* Every message is of the one worker, and says what its kind can say. *)
Fitting(m) ==
  /\ m.id = job.id /\ m.revision = job.revision
  /\ m.kind = "point" => m.status \in PointStatuses
  /\ m.kind = "run" => m.status \in Outcomes /\ job.kind = "run"
  /\ m.kind = "sweep" => job.kind = "sweep"

MessageInv == \A k \in DOMAIN queue : Fitting(queue[k])

(* A worker and its messages keep the window busy; the end of the run is   *)
(* its last message.                                                       *)
BusyInv ==
  /\ job.id = runId
  /\ pc # "none" => job # NoJob /\ running
  /\ queue # <<>> => running
  /\ \A k \in DOMAIN queue : queue[k].kind \in {"run", "sweep"} => pc = "none"
  /\ pc \in {"point", "end"} => job.kind = "sweep"
  /\ pc = "report" => outcome # "none"

TypeInv == TypeOK /\ MessageInv /\ BusyInv

(* A point that shows, or is about to show, as running is the one whose    *)
(* study the worker is in.                                                 *)
PointsInv ==
  /\ points # <<>> => job.kind = "sweep"
  /\ \A i \in DOMAIN points : Shows(queue, i) = "Running" => pc \in Studying /\ point = i
  /\ ~running /\ asked => \A i \in DOMAIN points : points[i] # "Pending"

QuietInv == TypeInv /\ StopInv /\ ShownIsForTheInputs /\ PointsInv

-----------------------------------------------------------------------------
(* Sequences, maxima.                                                      *)

(* A bounded set of numbers that is not empty has its maximum in it: the   *)
(* least of its upper bounds is one of its members.                        *)
LEMMA MaxIsIn ==
  ASSUME NEW S \in SUBSET Nat, S # {}, NEW top \in Nat, \A x \in S : x <= top
  PROVE  Max(S) \in S /\ \A x \in S : x <= Max(S)
<1> DEFINE Bounds == {n \in Nat : \A x \in S : x <= n}
           Less   == {ss \in Nat \X Nat : ss[1] < ss[2]}
<1>1. IsWellFoundedOn(Less, Nat) BY NatLessThanWellFounded, Zenon DEF OpToRel
<1>2. top \in Bounds /\ Bounds \subseteq Nat OBVIOUS
<1>3. \E least \in Bounds : \A n \in Bounds : ~(<<n, least>> \in Less)
  <2> HIDE DEF Bounds, Less
  <2>1. PICK x \in Bounds : \A y \in Bounds : ~(<<y, x>> \in Less) BY <1>1, <1>2, WFMin
  <2> QED BY <2>1
<1>4. PICK least \in Bounds : \A n \in Bounds : ~(<<n, least>> \in Less) BY <1>3
<1>5. least \in Nat /\ \A x \in S : x <= least OBVIOUS
<1>6. \A n \in Nat : n < least => \E x \in S : ~(x <= n) BY <1>4
<1>7. least \in S
  <2>1. SUFFICES ASSUME least \notin S PROVE FALSE OBVIOUS
  <2>2. \A x \in S : x < least BY <1>5, <2>1
  <2>3. least > 0
    <3>1. PICK x \in S : TRUE OBVIOUS
    <3> QED BY <1>5, <2>2, <3>1
  <2>4. \A x \in S : x <= least - 1 BY <1>5, <2>2
  <2> QED BY <1>5, <1>6, <2>3, <2>4
<1>8. \E x \in S : \A y \in S : x >= y BY <1>5, <1>7
<1>9. Max(S) \in S /\ \A y \in S : Max(S) >= y
  <2> DEFINE P(x) == x \in S /\ \A y \in S : x >= y
  <2>1. Max(S) = CHOOSE x \in S : \A y \in S : x >= y BY DEF Max
  <2> QED BY <1>8, <2>1, Zenon
<1>10. Max(S) \in Nat BY <1>9
<1> QED BY <1>9, <1>10

LEMMA OneMore ==
  ASSUME NEW q \in Seq(Messages), NEW m \in Messages
  PROVE  /\ q \o <<m>> \in Seq(Messages)
         /\ Len(q \o <<m>>) = Len(q) + 1
         /\ (q \o <<m>>)[Len(q) + 1] = m
         /\ \A k \in 1..Len(q) : (q \o <<m>>)[k] = q[k]
OBVIOUS

LEMMA TwoMore ==
  ASSUME NEW q \in Seq(Messages), NEW a \in Messages, NEW b \in Messages
  PROVE  q \o <<a, b>> = (q \o <<a>>) \o <<b>>
<1>1. <<a>> \in Seq(Messages) /\ <<b>> \in Seq(Messages) OBVIOUS
<1>2. <<a, b>> = <<a>> \o <<b>>
  <2> DEFINE ab == <<a>> \o <<b>>
  <2>1. ab \in Seq(Messages) /\ Len(ab) = 2 /\ ab[1] = a /\ ab[2] = b
    BY <1>1, ConcatProperties
  <2>2. <<a, b>> \in Seq(Messages) /\ Len(<<a, b>>) = 2 OBVIOUS
  <2> HIDE DEF ab
  <2>3. \A i \in 1..Len(ab) : ab[i] = <<a, b>>[i] BY <2>1
  <2> QED BY <2>1, <2>2, <2>3, SeqEqual DEF ab
<1> QED BY <1>1, <1>2, ConcatAssociative

(* One message more about point i is what it shows; any other changes      *)
(* nothing of it.                                                          *)
LEMMA ShowsOneMore ==
  ASSUME NEW q \in Seq(Messages), NEW m \in Messages, NEW i
  PROVE  Shows(q \o <<m>>, i) =
           IF m.kind = "point" /\ m.point = i /\ Current(m) THEN m.status ELSE Shows(q, i)
<1> DEFINE r == q \o <<m>>
           n == Len(q) + 1
<1>1. /\ r \in Seq(Messages) /\ Len(r) = n /\ r[n] = m
      /\ \A k \in 1..Len(q) : r[k] = q[k]
  BY OneMore
<1>2. n \in Nat /\ DOMAIN q = 1..Len(q) /\ DOMAIN r = 1..n BY <1>1
<1> HIDE DEF r
<1>3. CASE m.kind = "point" /\ m.point = i /\ Current(m)
  <2>1. n \in AboutIn(r, i) /\ AboutIn(r, i) \subseteq 1..n BY <1>1, <1>2, <1>3 DEF AboutIn
  <2>2. Max(AboutIn(r, i)) \in 1..n /\ n <= Max(AboutIn(r, i))
    <3>1. AboutIn(r, i) \in SUBSET Nat /\ AboutIn(r, i) # {} BY <1>2, <2>1
    <3>2. \A x \in AboutIn(r, i) : x <= n BY <1>2, <2>1
    <3> QED BY <1>2, <2>1, <3>1, <3>2, MaxIsIn
  <2>3. Max(AboutIn(r, i)) = n BY <1>2, <2>2
  <2> QED BY <1>1, <1>3, <2>1, <2>3 DEF Shows, r
<1>4. CASE ~(m.kind = "point" /\ m.point = i /\ Current(m))
  <2>1. AboutIn(r, i) = AboutIn(q, i) BY <1>1, <1>2, <1>4 DEF AboutIn
  <2>2. CASE AboutIn(q, i) = {} BY <1>4, <2>1, <2>2 DEF Shows, r
  <2>3. CASE AboutIn(q, i) # {}
    <3>1. AboutIn(q, i) \in SUBSET Nat /\ \A x \in AboutIn(q, i) : x <= n
      BY <1>2 DEF AboutIn
    <3>2. Max(AboutIn(q, i)) \in AboutIn(q, i) BY <1>2, <2>3, <3>1, MaxIsIn
    <3>3. r[Max(AboutIn(q, i))] = q[Max(AboutIn(q, i))] BY <1>1, <1>2, <3>2 DEF AboutIn
    <3> QED BY <1>4, <2>1, <2>3, <3>3 DEF Shows, r
  <2> QED BY <2>2, <2>3
<1> QED BY <1>3, <1>4

LEMMA ShowsNone == \A i : Shows(<<>>, i) = points[i]
BY DEF Shows, AboutIn

-----------------------------------------------------------------------------
(* The types, in parts.                                                    *)

ToolType ==
  /\ pc \in Places \cup InTool
  /\ flag \in BOOLEAN /\ asked \in BOOLEAN /\ late \in Nat
  /\ child \in Exits \cup {"none", "running", "killed"}
  /\ held \in BOOLEAN /\ expired \in BOOLEAN
  /\ written \in 0..MaxOutput /\ taken \in 0..written
  /\ status \in Statuses
  /\ child = "running" => pc \in InTool \ {"post"}

StudyType == plan \in Plans /\ stage \in 1..Len(Tools(plan)) /\ outcome \in Outcomes

JobType ==
  /\ job = NoJob \/ job \in [kind : {"run", "sweep"}, id : 1..MaxRuns,
                              revision : 0..MaxRevision]
  /\ point \in 0..Points

WindowType ==
  /\ revision \in 0..MaxRevision /\ runId \in 0..MaxRuns /\ running \in BOOLEAN
  /\ DOMAIN points \in {{}, 1..Points} /\ \A i \in DOMAIN points : points[i] \in PointStatuses
  /\ result.outcome \in {"none", "Completed", "Failed", "Cancelled"}

LEMMA TypeParts ==
  TypeOK <=> ToolType /\ StudyType /\ JobType /\ WindowType /\ queue \in Seq(Messages)
BY DEF TypeOK, ToolType, StudyType, JobType, WindowType

LEMMA StagesAreSome == ASSUME NEW p \in Plans PROVE Len(Tools(p)) \in Nat \ {0}
<1> DEFINE head == <<"gmsh", "gmshToFoam", "checkMesh">>
           potential == IF ~p.compressible /\ p.potential THEN <<"potentialFoam">> ELSE <<>>
           startup == IF p.startup THEN <<"startup">> ELSE <<>>
           tail == <<"solver", "postProcess">>
           N == {"gmsh", "gmshToFoam", "checkMesh", "potentialFoam", "startup", "solver",
                 "postProcess"}
<1>1. head \in Seq(N) /\ Len(head) = 3 OBVIOUS
<1>2. potential \in Seq(N)
  <2>1. <<"potentialFoam">> \in Seq(N) /\ <<>> \in Seq(N) OBVIOUS
  <2> QED BY <2>1
<1>3. startup \in Seq(N)
  <2>1. <<"startup">> \in Seq(N) /\ <<>> \in Seq(N) OBVIOUS
  <2> QED BY <2>1
<1>4. tail \in Seq(N) OBVIOUS
<1>5. Tools(p) = ((head \o potential) \o startup) \o tail BY Zenon DEF Tools
<1> HIDE DEF head, potential, startup, tail, N
<1>6. /\ head \o potential \in Seq(N)
      /\ Len(head \o potential) = Len(head) + Len(potential) /\ Len(potential) \in Nat
  BY <1>1, <1>2, ConcatProperties, LenProperties
<1>7. /\ (head \o potential) \o startup \in Seq(N)
      /\ Len((head \o potential) \o startup) = Len(head \o potential) + Len(startup)
      /\ Len(startup) \in Nat
  BY <1>3, <1>6, ConcatProperties, LenProperties
<1>8. /\ Len(((head \o potential) \o startup) \o tail)
           = Len((head \o potential) \o startup) + Len(tail)
      /\ Len(tail) \in Nat
  BY <1>4, <1>7, ConcatProperties, LenProperties
<1> QED BY <1>1, <1>5, <1>6, <1>7, <1>8

LEMMA ToolKeepsType == ToolType /\ ToolStep => ToolType'
<1> SUFFICES ASSUME ToolType, ToolStep PROVE ToolType' OBVIOUS
<1> USE OutputAssumption
    DEF ToolType, Places, InTool, Exits, Statuses, flagVars, childVars, outputVars
<1>1. CASE Spawn
  <2>1. /\ pc' \in {"drain", "returned"} /\ child' \in {"running", "none"}
        /\ child' = "running" => pc' = "drain"
        /\ status' \in Statuses /\ late' \in Nat
    BY <1>1 DEF Spawn
  <2>2. held' = FALSE /\ expired' = FALSE /\ written' = 0 /\ taken' = 0
        /\ flag' = flag /\ asked' = asked
    BY <1>1 DEF Spawn, NoOutput
  <2>3. pc' \in Places \cup InTool /\ (child' = "running" => pc' \in InTool \ {"post"})
    BY <2>1
  <2>4. child' \in Exits \cup {"none", "running", "killed"} BY <2>1
  <2>5. flag' \in BOOLEAN /\ asked' \in BOOLEAN /\ held' \in BOOLEAN /\ expired' \in BOOLEAN
    BY <2>2
  <2>6. written' \in 0..MaxOutput /\ taken' \in 0..written' BY <2>2
  <2> QED BY <2>1, <2>3, <2>4, <2>5, <2>6
<1>2. CASE Drain BY <1>2 DEF Drain
<1>3. CASE LookAtFlag BY <1>3 DEF LookAtFlag, Terminate, Ended
<1>4. CASE LookAtChild BY <1>4 DEF LookAtChild, Terminate, Ended
<1>5. CASE PostDrain BY <1>5 DEF PostDrain
<1> QED BY <1>1, <1>2, <1>3, <1>4, <1>5 DEF ToolStep

LEMMA OutsideKeepsType == ToolType /\ Outside => ToolType'
<1> SUFFICES ASSUME ToolType, Outside PROVE ToolType' OBVIOUS
<1> USE OutputAssumption
    DEF ToolType, Places, InTool, Exits, Statuses, flagVars, outputVars
<1>1. CASE Write BY <1>1 DEF Write
<1>2. CASE Exit BY <1>2 DEF Exit
<1>3. CASE Expire BY <1>3 DEF Expire
<1> QED BY <1>1, <1>2, <1>3 DEF Outside

LEMMA StudyKeepsType == ToolType /\ StudyType /\ StudyStep => ToolType' /\ StudyType'
<1> SUFFICES ASSUME ToolType, StudyType, StudyStep PROVE ToolType' /\ StudyType' OBVIOUS
<1>1. Len(Tools(plan)) \in Nat \ {0} BY StagesAreSome DEF StudyType
<1> USE OutputAssumption, <1>1
    DEF ToolType, StudyType, Places, InTool, Exits, Statuses, Outcomes, flagVars, childVars,
        outputVars
<1>2. CASE Prepare BY <1>2 DEF Prepare, NoOutput
<1>3. CASE EnterStage BY <1>3 DEF EnterStage, Stop
<1>4. CASE Record
  <2>1. \/ /\ status' \in Statuses /\ pc' = "persist" /\ stage' = stage
           /\ written' = written /\ taken' = taken
        \/ /\ status' = status /\ pc' = "check" /\ stage' = stage + 1 /\ ~LastStage
           /\ written' = 0 /\ taken' = 0
    BY <1>4 DEF Record, Proceed, Stop, GoOn, NoOutput
  <2>2. /\ child' = "none" /\ held' = FALSE /\ expired' = FALSE
        /\ UNCHANGED <<flag, asked, late, plan, outcome>>
    BY <1>4 DEF Record, Dropped
  <2>3. ToolType'
    <3>1. written' \in 0..MaxOutput /\ taken' \in 0..written' BY <2>1
    <3>2. status' \in Statuses /\ pc' \in {"persist", "check"} BY <2>1
    <3> QED BY <2>2, <3>1, <3>2
  <2>4. stage' \in 1..Len(Tools(plan))
    <3>1. CASE stage' = stage BY <3>1
    <3>2. CASE stage' = stage + 1 /\ stage # Len(Tools(plan)) BY <3>2
    <3> QED BY <2>1, <3>1, <3>2 DEF LastStage
  <2>5. Tools(plan)' = Tools(plan) BY <2>2 DEF Tools
  <2> QED BY <2>2, <2>3, <2>4, <2>5
<1>5. CASE Persist BY <1>5 DEF Persist, Classified, toolVars
<1> QED BY <1>2, <1>3, <1>4, <1>5 DEF StudyStep

(* Inside a study the worker stays there until it has something to report. *)
LEMMA StudyMoves ==
  StudyOrTool => /\ pc \in Studying /\ pc' \in Studying /\ asked' = asked
                 /\ pc' = "report" => outcome' # "none"
<1> SUFFICES ASSUME StudyOrTool
             PROVE  /\ pc \in Studying /\ pc' \in Studying /\ asked' = asked
                    /\ pc' = "report" => outcome' # "none"
  OBVIOUS
<1> USE DEF Studying, InTool, flagVars
<1>1. CASE ToolStep
  BY <1>1 DEF ToolStep, Spawn, Drain, LookAtFlag, LookAtChild, PostDrain, Ended
<1>2. CASE Prepare BY <1>2 DEF Prepare
<1>3. CASE EnterStage BY <1>3 DEF EnterStage, Stop
<1>4. CASE Record BY <1>4 DEF Record, Proceed, Stop, GoOn
<1>5. CASE Persist BY <1>5 DEF Persist, Classified
<1> QED BY <1>1, <1>2, <1>3, <1>4, <1>5 DEF StudyOrTool, StudyStep

-----------------------------------------------------------------------------
(* The window at rest: what each step keeps of it.                         *)

LEMMA InitQuiet == Init => QuietInv
<1> SUFFICES ASSUME Init PROVE QuietInv OBVIOUS
<1> USE LifecycleAssumption, OutputAssumption
<1>1. ToolType
  <2>1. child = "none" /\ status = "none" /\ pc = "none" BY DEF Init, NoTool
  <2>2. flag = FALSE /\ asked = FALSE /\ held = FALSE /\ expired = FALSE BY DEF Init, NoTool
  <2>3. written = 0 /\ taken = 0 /\ late = 0 BY DEF Init, NoTool
  <2>4. written \in 0..MaxOutput /\ taken \in 0..written /\ late \in Nat BY <2>3
  <2>5. pc \in Places \cup InTool /\ child \in Exits \cup {"none", "running", "killed"}
        /\ status \in Statuses /\ child # "running"
    BY <2>1 DEF Places, Exits, Statuses
  <2> QED BY <2>2, <2>4, <2>5 DEF ToolType
<1>2. StudyType BY StagesAreSome DEF Init, StudyType, Outcomes
<1>3. JobType BY DEF Init, JobType
<1>4. WindowType
  <2>1. DOMAIN points = {} /\ result.outcome = "none" BY DEF Init, NoResult
  <2>2. revision = 0 /\ runId = 0 /\ running = FALSE BY DEF Init
  <2>3. revision \in 0..MaxRevision /\ runId \in 0..MaxRuns /\ running \in BOOLEAN
    <3>1. MaxRevision \in Nat /\ MaxRuns \in Nat BY LifecycleAssumption
    <3>2. revision \in 0..MaxRevision BY <2>2, <3>1
    <3>3. runId \in 0..MaxRuns BY <2>2, <3>1
    <3>4. running \in BOOLEAN BY <2>2
    <3> QED BY <3>2, <3>3, <3>4
  <2>4. DOMAIN points \in {{}, 1..Points} /\ \A i \in DOMAIN points : points[i] \in PointStatuses
    BY <2>1
  <2> QED BY <2>1, <2>3, <2>4, Zenon DEF WindowType
<1>5. queue = <<>> /\ points = <<>> /\ pc = "none" /\ job = NoJob /\ runId = 0 BY DEF Init
<1>6. queue \in Seq(Messages) /\ DOMAIN queue = {} /\ DOMAIN points = {} BY <1>5
<1>7. MessageInv BY <1>6 DEF MessageInv
<1>8. BusyInv BY <1>5, <1>6 DEF BusyInv, NoJob
<1>9. PointsInv BY <1>5, <1>6 DEF PointsInv
<1>10. TypeOK BY <1>1, <1>2, <1>3, <1>4, <1>6, TypeParts
<1> QED BY <1>7, <1>8, <1>9, <1>10, InitStop, InitShown DEF QuietInv, TypeInv

(* A step of the study, and a step that only leaves things as they are. *)
LEMMA SameWindow ==
  ASSUME QuietInv, UNCHANGED <<windowVars, workerVars, queue, asked>>,
         pc' = pc \/ (pc \in Studying /\ pc' \in Studying),
         pc' = "report" => outcome' # "none"
  PROVE  (JobType /\ WindowType /\ queue \in Seq(Messages) /\ MessageInv /\ BusyInv
            /\ PointsInv)'
<1> USE DEF QuietInv, windowVars, workerVars
<1>1. (JobType /\ WindowType /\ queue \in Seq(Messages))'
  BY TypeParts DEF TypeInv, JobType, WindowType
<1>2. MessageInv' BY DEF TypeInv, MessageInv, Fitting
<1>3. BusyInv' BY DEF TypeInv, BusyInv, Studying, InTool
<1>4. \A i : Shows(queue, i)' = Shows(queue, i) BY DEF Shows, AboutIn, Current, Ours
<1>5. PointsInv' BY <1>4 DEF PointsInv
<1> QED BY <1>1, <1>2, <1>3, <1>5

LEMMA StudyQuiet == QuietInv /\ InStudy => (TypeInv /\ PointsInv)'
<1> SUFFICES ASSUME QuietInv, InStudy PROVE (TypeInv /\ PointsInv)' OBVIOUS
<1>1. ToolType /\ StudyType BY TypeParts DEF QuietInv, TypeInv
<1>2. ToolType' /\ StudyType'
  <2>1. CASE StudyStep BY <1>1, <2>1, StudyKeepsType
  <2>2. CASE ToolStep /\ UNCHANGED studyVars
    <3>1. ToolType' BY <1>1, <2>2, ToolKeepsType
    <3>2. StudyType' BY <1>1, <2>2 DEF StudyType, studyVars, Tools
    <3> QED BY <3>1, <3>2
  <2> QED BY <2>1, <2>2 DEF InStudy, StudyOrTool
<1>3. (JobType /\ WindowType /\ queue \in Seq(Messages) /\ MessageInv /\ BusyInv /\ PointsInv)'
  BY StudyMoves, SameWindow DEF InStudy
<1> QED BY <1>2, <1>3, TypeParts, PTL DEF TypeInv

LEMMA EnvironmentQuiet == QuietInv /\ Environment => (TypeInv /\ PointsInv)'
<1> SUFFICES ASSUME QuietInv, Environment PROVE (TypeInv /\ PointsInv)' OBVIOUS
<1>1. ToolType /\ StudyType BY TypeParts DEF QuietInv, TypeInv
<1>2. ToolType' BY <1>1, OutsideKeepsType DEF Environment
<1>3. StudyType' BY <1>1 DEF Environment, StudyType, studyVars, Tools
<1>4. pc' = pc /\ asked' = asked BY DEF Environment, Outside, Write, Exit, Expire, flagVars
<1>5. pc' = "report" => outcome' # "none"
  BY <1>4 DEF Environment, studyVars, QuietInv, TypeInv, BusyInv
<1>6. (JobType /\ WindowType /\ queue \in Seq(Messages) /\ MessageInv /\ BusyInv /\ PointsInv)'
  <2>1. UNCHANGED <<windowVars, workerVars, queue, asked>> BY <1>4 DEF Environment
  <2>2. pc' = pc \/ (pc \in Studying /\ pc' \in Studying) BY <1>4
  <2> QED BY <1>5, <2>1, <2>2, SameWindow, Zenon
<1> QED BY <1>2, <1>3, <1>6, TypeParts, PTL DEF TypeInv

(* What is sent while a worker is there is a message of that worker.       *)
LEMMA Sent ==
  ASSUME QuietInv, pc # "none", NEW kind \in {"point", "run", "sweep"},
         NEW i \in 0..Points, NEW s \in PointStatuses \cup {"Err", "none"},
         kind = "point" => s \in PointStatuses,
         kind = "run" => s \in Outcomes /\ job.kind = "run",
         kind = "sweep" => job.kind = "sweep"
  PROVE  Message(kind, i, s) \in Messages /\ Fitting(Message(kind, i, s))
<1>1. job \in [kind : {"run", "sweep"}, id : 1..MaxRuns, revision : 0..MaxRevision]
  BY TypeParts DEF QuietInv, TypeInv, BusyInv, JobType
<1>2. job.id \in 1..MaxRuns /\ job.revision \in 0..MaxRevision BY <1>1
<1>3. Message(kind, i, s) \in Messages BY <1>2 DEF Message, Messages
<1>4. Fitting(Message(kind, i, s)) BY DEF Message, Fitting
<1> QED BY <1>3, <1>4

LEMMA Longer ==
  ASSUME NEW q \in Seq(Messages), NEW m \in Messages, Fitting(m),
         \A k \in DOMAIN q : Fitting(q[k])
  PROVE  \A k \in DOMAIN (q \o <<m>>) :
           /\ Fitting((q \o <<m>>)[k])
           /\ (q \o <<m>>)[k].kind = m.kind
                \/ (k \in DOMAIN q /\ (q \o <<m>>)[k] = q[k])
<1> DEFINE r == q \o <<m>>
<1>1. /\ r \in Seq(Messages) /\ Len(r) = Len(q) + 1 /\ r[Len(q) + 1] = m
      /\ \A k \in 1..Len(q) : r[k] = q[k]
  BY OneMore
<1>2. Len(q) \in Nat /\ DOMAIN q = 1..Len(q) /\ DOMAIN r = 1..(Len(q) + 1) BY <1>1, LenProperties
<1> SUFFICES ASSUME NEW k \in DOMAIN r
             PROVE  Fitting(r[k]) /\ (r[k].kind = m.kind \/ (k \in DOMAIN q /\ r[k] = q[k]))
  OBVIOUS
<1> HIDE DEF r
<1>3. CASE k = Len(q) + 1 BY <1>1, <1>3
<1>4. CASE k \in DOMAIN q BY <1>1, <1>2, <1>4
<1> QED BY <1>2, <1>3, <1>4

(* A worker between its studies: it sends, moves, and leaves the window    *)
(* and the tool as they are.                                               *)
LEMMA SendingQuiet ==
  ASSUME QuietInv, pc # "none", pc \notin InTool, child' = child,
         UNCHANGED <<flag, asked, late, held, expired, written, taken, status, plan, stage,
                     outcome, windowVars, job>>,
         pc' \in Places, point' \in 0..Points,
         pc' \in {"point", "end"} => job.kind = "sweep", pc' # "report",
         queue' \in Seq(Messages), \A k \in DOMAIN queue' : Fitting(queue'[k]),
         \A k \in DOMAIN queue' : queue'[k].kind \in {"run", "sweep"} => pc' = "none",
         points # <<>> => \A i \in DOMAIN points :
           Shows(queue', i) = "Running" => pc' \in Studying /\ point' = i
  PROVE  (TypeInv /\ PointsInv)'
<1> USE DEF QuietInv, TypeInv, windowVars
<1>1. ToolType /\ StudyType /\ JobType /\ WindowType BY TypeParts
<1>2. ToolType'
  <2>1. child # "running" BY <1>1 DEF ToolType
  <2> QED BY <1>1, <2>1 DEF ToolType
<1>3. StudyType' BY <1>1 DEF StudyType, Tools
<1>4. JobType' BY <1>1 DEF JobType
<1>5. WindowType' BY <1>1 DEF WindowType
<1>6. MessageInv' BY DEF MessageInv, Fitting
<1>7. BusyInv' BY DEF BusyInv
<1>8. PointsInv'
  <2>1. \A i : Shows(queue, i)' = Shows(queue', i) BY DEF Shows, AboutIn, Current, Ours
  <2>2. running BY DEF BusyInv
  <2>3. points = <<>> => DOMAIN points = {} OBVIOUS
  <2> QED BY <2>1, <2>2, <2>3 DEF PointsInv
<1>9. (queue \in Seq(Messages))' OBVIOUS
<1>10. TypeOK' BY <1>2, <1>3, <1>4, <1>5, <1>9, TypeParts, PTL
<1> QED BY <1>6, <1>7, <1>8, <1>10

(* The worker is in the study of a point as soon as it is shown as running. *)
LEMMA BeginQuiet == QuietInv /\ BeginPoint => (TypeInv /\ PointsInv)'
<1> SUFFICES ASSUME QuietInv, BeginPoint PROVE (TypeInv /\ PointsInv)' OBVIOUS
<1>1. pc = "point" /\ pc # "none" /\ pc \notin InTool BY DEF BeginPoint, InTool
<1>2. queue \in Seq(Messages) /\ point \in 0..Points /\ \A k \in DOMAIN queue : Fitting(queue[k])
  BY TypeParts DEF QuietInv, TypeInv, MessageInv, JobType
<1>3. \A k \in DOMAIN queue : queue[k].kind \notin {"run", "sweep"}
  BY <1>1 DEF QuietInv, TypeInv, BusyInv
<1>4. job.kind = "sweep" BY <1>1 DEF QuietInv, TypeInv, BusyInv
<1>5. \A i \in DOMAIN points : Shows(queue, i) # "Running"
  BY <1>1 DEF QuietInv, PointsInv, Studying, InTool
<1>6. points # <<>> => job.id = runId /\ job.revision = revision
  BY DEF QuietInv, TypeInv, BusyInv, ShownIsForTheInputs
<1> DEFINE run == Message("point", point, "Running")
           fail == Message("point", point, "Failed")
<1>7. run \in Messages /\ Fitting(run) BY <1>1, <1>2, Sent DEF PointStatuses
<1>8. fail \in Messages /\ Fitting(fail) BY <1>1, <1>2, Sent DEF PointStatuses
<1>9. /\ run.kind = "point" /\ run.point = point /\ run.status = "Running"
      /\ fail.kind = "point" /\ fail.point = point /\ fail.status = "Failed"
      /\ points # <<>> => Current(run) /\ Current(fail)
  BY <1>6 DEF Message, Current, Ours
<1>10. /\ UNCHANGED <<flag, asked, late, child, held, expired, written, taken, status, plan,
                      stage, outcome, windowVars, job, point>>
  BY DEF BeginPoint, flagVars, toolVars, childVars, outputVars, studyVars, workerVars
<1>11. CASE pc' = "end" /\ UNCHANGED queue
  BY <1>1, <1>2, <1>3, <1>4, <1>5, <1>10, <1>11, SendingQuiet DEF Places
<1>12. CASE pc' = "case" /\ queue' = queue \o <<run>>
  <2> HIDE DEF run, fail
  <2>1. queue' \in Seq(Messages) BY <1>2, <1>7, <1>12, OneMore
  <2>2. \A k \in DOMAIN queue' : Fitting(queue'[k]) /\ queue'[k].kind \notin {"run", "sweep"}
    BY <1>2, <1>3, <1>7, <1>9, <1>12, Longer
  <2>3. points # <<>> => \A i \in DOMAIN points : Shows(queue', i) = "Running" => point' = i
    BY <1>2, <1>5, <1>7, <1>9, <1>10, <1>12, ShowsOneMore
  <2>4. pc' \in Studying /\ pc' \in Places /\ pc' \notin {"point", "end", "report"}
    BY <1>12 DEF Places, Studying
  <2>5. point' \in 0..Points BY <1>2, <1>10
  <2>6. points # <<>> => \A i \in DOMAIN points :
          Shows(queue', i) = "Running" => pc' \in Studying /\ point' = i
    BY <2>3, <2>4
  <2> QED BY <1>1, <1>10, <2>1, <2>2, <2>4, <2>5, <2>6, SendingQuiet
<1>13. CASE pc' = "end" /\ queue' = queue \o <<run, fail>>
  <2> HIDE DEF run, fail
  <2> DEFINE q == queue \o <<run>>
  <2>1. q \in Seq(Messages) /\ queue' = q \o <<fail>> BY <1>2, <1>7, <1>8, <1>13, OneMore, TwoMore
  <2>2. \A k \in DOMAIN q : Fitting(q[k]) /\ q[k].kind \notin {"run", "sweep"}
    BY <1>2, <1>3, <1>7, <1>9, Longer
  <2>3. points # <<>> => \A i \in DOMAIN points : Shows(q, i) = "Running" => point = i
    BY <1>2, <1>5, <1>7, <1>9, ShowsOneMore
  <2> HIDE DEF q
  <2>4. queue' \in Seq(Messages) BY <1>8, <2>1, OneMore
  <2>5. \A k \in DOMAIN queue' : Fitting(queue'[k]) /\ queue'[k].kind \notin {"run", "sweep"}
    BY <1>8, <1>9, <2>1, <2>2, Longer
  <2>6. points # <<>> => \A i \in DOMAIN points : Shows(queue', i) # "Running"
    BY <1>8, <1>9, <2>1, <2>3, ShowsOneMore
  <2> QED BY <1>1, <1>2, <1>4, <1>10, <1>13, <2>4, <2>5, <2>6, SendingQuiet DEF Places
<1> QED BY <1>11, <1>12, <1>13 DEF BeginPoint, Send

(* A report closes the point it is about.                                  *)
LEMMA ReportQuiet == QuietInv /\ ReportPoint => (TypeInv /\ PointsInv)'
<1> SUFFICES ASSUME QuietInv, ReportPoint PROVE (TypeInv /\ PointsInv)' OBVIOUS
<1>1. pc = "report" /\ pc # "none" /\ pc \notin InTool /\ job.kind = "sweep"
  BY DEF ReportPoint, InTool
<1>2. queue \in Seq(Messages) /\ point \in 0..Points /\ \A k \in DOMAIN queue : Fitting(queue[k])
  BY TypeParts DEF QuietInv, TypeInv, MessageInv, JobType
<1>3. \A k \in DOMAIN queue : queue[k].kind \notin {"run", "sweep"}
  BY <1>1 DEF QuietInv, TypeInv, BusyInv
<1>4. PointStatus \in {"Completed", "Failed", "Cancelled"}
  BY <1>1, TypeParts DEF QuietInv, TypeInv, BusyInv, StudyType, Outcomes, PointStatus
<1>5. \A i \in DOMAIN points : Shows(queue, i) = "Running" => point = i
  BY DEF QuietInv, PointsInv
<1>6. points # <<>> => job.id = runId /\ job.revision = revision
  BY DEF QuietInv, TypeInv, BusyInv, ShownIsForTheInputs
<1> DEFINE done == Message("point", point, PointStatus)
<1>7. done \in Messages /\ Fitting(done) BY <1>1, <1>2, <1>4, Sent DEF PointStatuses
<1>8. /\ done.kind = "point" /\ done.point = point /\ done.status # "Running"
      /\ points # <<>> => Current(done)
  BY <1>4, <1>6 DEF Message, Current, Ours
<1>9. UNCHANGED <<flag, asked, late, child, held, expired, written, taken, status, plan, stage,
                  outcome, windowVars, job>>
  BY DEF ReportPoint, flagVars, toolVars, childVars, outputVars, studyVars
<1>10. pc' \in {"point", "end"} /\ point' \in 0..Points
  BY <1>2, LifecycleAssumption DEF ReportPoint, LastPoint
<1>11. queue' = queue \o <<done>> BY DEF ReportPoint, Send
<1> HIDE DEF done
<1>12. queue' \in Seq(Messages) BY <1>2, <1>7, <1>11, OneMore
<1>13. \A k \in DOMAIN queue' : Fitting(queue'[k]) /\ queue'[k].kind \notin {"run", "sweep"}
  BY <1>2, <1>3, <1>7, <1>8, <1>11, Longer
<1>14. points # <<>> => \A i \in DOMAIN points : Shows(queue', i) # "Running"
  BY <1>2, <1>5, <1>7, <1>8, <1>11, ShowsOneMore
<1>15. pc' \in Places /\ pc' # "report" BY <1>10 DEF Places
<1> QED BY <1>1, <1>9, <1>10, <1>12, <1>13, <1>14, <1>15, SendingQuiet

(* The end of the run is the last message of its worker.                   *)
LEMMA EndQuiet == QuietInv /\ (EndSweep \/ EndRun) => (TypeInv /\ PointsInv)'
<1> SUFFICES ASSUME QuietInv, EndSweep \/ EndRun PROVE (TypeInv /\ PointsInv)' OBVIOUS
<1>1. pc # "none" /\ pc \notin InTool /\ pc' = "none" BY DEF EndSweep, EndRun, InTool
<1>2. queue \in Seq(Messages) /\ point \in 0..Points /\ \A k \in DOMAIN queue : Fitting(queue[k])
  BY TypeParts DEF QuietInv, TypeInv, MessageInv, JobType
<1>3. PICK m \in Messages : Fitting(m) /\ m.kind # "point" /\ queue' = queue \o <<m>>
  <2>1. 0 \in 0..Points BY LifecycleAssumption
  <2>2. CASE EndSweep
    <3> DEFINE m == Message("sweep", 0, "none")
    <3>1. job.kind = "sweep" BY <2>2 DEF EndSweep, QuietInv, TypeInv, BusyInv
    <3>2. m \in Messages /\ Fitting(m) BY <1>1, <2>1, <3>1, Sent
    <3>3. m.kind = "sweep" BY DEF Message
    <3>4. queue' = queue \o <<m>> BY <2>2 DEF EndSweep, Send
    <3> QED BY <3>2, <3>3, <3>4
  <2>3. CASE EndRun
    <3> DEFINE m == Message("run", 0, outcome)
    <3>1. job.kind = "run" BY <2>3 DEF EndRun
    <3>2. outcome \in Outcomes BY TypeParts DEF QuietInv, TypeInv, StudyType
    <3>3. outcome \in PointStatuses \cup {"Err", "none"} BY <3>2 DEF Outcomes, PointStatuses
    <3>4. m \in Messages /\ Fitting(m) BY <1>1, <2>1, <3>1, <3>2, <3>3, Sent
    <3>5. m.kind = "run" BY DEF Message
    <3>6. queue' = queue \o <<m>> BY <2>3 DEF EndRun, Send
    <3> QED BY <3>4, <3>5, <3>6
  <2> QED BY <2>2, <2>3
<1>4. \A i \in DOMAIN points : Shows(queue, i) = "Running" => pc \in Studying
  BY DEF QuietInv, PointsInv
<1>5. points # <<>> => \A i \in DOMAIN points : Shows(queue, i) # "Running"
  <2>1. CASE EndSweep BY <2>1, <1>4 DEF EndSweep, Studying, InTool
  <2>2. CASE EndRun BY <2>2 DEF EndRun, QuietInv, PointsInv
  <2> QED BY <2>1, <2>2
<1>6. UNCHANGED <<flag, asked, late, child, held, expired, written, taken, status, plan, stage,
                  outcome, windowVars, job, point>>
  BY DEF EndSweep, EndRun, flagVars, toolVars, childVars, outputVars, studyVars, workerVars
<1>7. queue' \in Seq(Messages) BY <1>2, <1>3, OneMore
<1>8. \A k \in DOMAIN queue' : Fitting(queue'[k]) BY <1>2, <1>3, Longer
<1>9. points # <<>> => \A i \in DOMAIN points : Shows(queue', i) # "Running"
  BY <1>2, <1>3, <1>5, ShowsOneMore
<1>10. pc' \in Places /\ pc' \notin {"point", "end", "report"} BY <1>1 DEF Places
<1> QED BY <1>1, <1>2, <1>6, <1>7, <1>8, <1>9, <1>10, SendingQuiet

-----------------------------------------------------------------------------
(* The window's own steps.                                                 *)

(* A start finds no worker and no message of an earlier run.               *)
LEMMA StartQuiet ==
  ASSUME QuietInv, NEW kind \in {"run", "sweep"}, Start(kind)
  PROVE  (TypeInv /\ PointsInv)'
<1>1. ToolType /\ StudyType /\ JobType /\ WindowType /\ queue \in Seq(Messages)
  BY TypeParts DEF QuietInv, TypeInv
<1>2. queue = <<>> /\ queue' = queue BY DEF Start, QuietInv, TypeInv, BusyInv
<1>3. ToolType'
  <2>1. child' = "none" /\ held' = FALSE /\ expired' = FALSE /\ status' = "none"
    BY DEF Start, Dropped
  <2>2. written' = 0 /\ taken' = 0 /\ late' = 0 BY DEF Start, NoOutput
  <2>3. flag' = FALSE /\ asked' = FALSE /\ pc' \in {"point", "case"} BY DEF Start
  <2>4. written' \in 0..MaxOutput /\ taken' \in 0..written' /\ late' \in Nat
    BY <2>2, OutputAssumption
  <2>5. pc' \in Places \cup InTool /\ child' \in Exits \cup {"none", "running", "killed"}
        /\ status' \in Statuses /\ child' # "running"
    BY <2>1, <2>3 DEF Places, Exits, Statuses
  <2>6. held' \in BOOLEAN /\ expired' \in BOOLEAN BY <2>1
  <2>7. flag' \in BOOLEAN /\ asked' \in BOOLEAN BY <2>3
  <2> QED BY <2>4, <2>5, <2>6, <2>7 DEF ToolType
<1>4. StudyType' BY StagesAreSome DEF Start, StudyType, Outcomes
<1>5. runId' \in 1..MaxRuns /\ runId' = runId + 1 /\ runId \in Nat
  BY <1>1, LifecycleAssumption DEF Start, WindowType
<1>6. /\ job' \in [kind : {"run", "sweep"}, id : 1..MaxRuns, revision : 0..MaxRevision]
      /\ job'.kind = kind /\ job'.id = runId'
  BY <1>1, <1>5 DEF Start, WindowType
<1>7. JobType'
  <2>1. point' = 1 /\ 1 \in 0..Points BY LifecycleAssumption DEF Start
  <2> QED BY <1>6, <2>1 DEF JobType
<1>8. /\ DOMAIN points' \in {{}, 1..Points} /\ \A i \in DOMAIN points' : points'[i] = "Pending"
      /\ points' # <<>> => kind = "sweep"
  <2>1. CASE kind = "sweep" BY <2>1 DEF Start
  <2>2. CASE kind = "run" BY <2>2 DEF Start
  <2> QED BY <2>1, <2>2
<1>9. WindowType'
  <2>1. result'.outcome = "none" /\ running' = TRUE /\ revision' = revision
    BY DEF Start, NoResult
  <2>2. running' \in BOOLEAN BY <2>1
  <2>3. runId' \in 0..MaxRuns BY <1>5, LifecycleAssumption
  <2> QED BY <1>1, <1>8, <2>1, <2>2, <2>3 DEF WindowType, PointStatuses
<1>10. MessageInv' BY <1>2 DEF MessageInv
<1>11. BusyInv'
  <2>1. job' # NoJob BY <1>6 DEF NoJob
  <2>2. running' /\ pc' \in {"point", "case"} /\ (pc' = "point" => kind = "sweep") BY DEF Start
  <2> QED BY <1>2, <1>6, <2>1, <2>2 DEF BusyInv
<1>12. PointsInv'
  <2>1. \A i : Shows(queue, i)' = points'[i] BY <1>2 DEF Shows, AboutIn
  <2>2. running' BY DEF Start
  <2> QED BY <1>6, <1>8, <2>1, <2>2 DEF PointsInv
<1>13. (queue \in Seq(Messages))' BY <1>1, <1>2
<1>14. TypeOK' BY <1>3, <1>4, <1>7, <1>9, <1>13, TypeParts, PTL
<1> QED BY <1>10, <1>11, <1>12, <1>14 DEF TypeInv

(* A cancel, an edit and a load: the worker and its messages stay.         *)
LEMMA AskedQuiet ==
  QuietInv /\ (CancelRun \/ MarkInputsChanged \/ LoadResultJson) => (TypeInv /\ PointsInv)'
<1> SUFFICES ASSUME QuietInv, CancelRun \/ MarkInputsChanged \/ LoadResultJson
             PROVE  (TypeInv /\ PointsInv)'
  OBVIOUS
<1>1. ToolType /\ StudyType /\ JobType /\ WindowType /\ queue \in Seq(Messages)
  BY TypeParts DEF QuietInv, TypeInv
<1>2. UNCHANGED <<pc, toolVars, studyVars, runId, running, workerVars, queue>>
  BY DEF CancelRun, MarkInputsChanged, LoadResultJson, windowVars
<1>3. flag' \in BOOLEAN /\ asked' \in BOOLEAN
  <2>1. flag \in BOOLEAN /\ asked \in BOOLEAN BY <1>1 DEF ToolType
  <2>2. (flag' = TRUE /\ asked' = TRUE) \/ (flag' = flag /\ asked' = asked)
    BY DEF CancelRun, MarkInputsChanged, LoadResultJson, flagVars
  <2> QED BY <2>1, <2>2
<1>4. ToolType' BY <1>1, <1>2, <1>3 DEF ToolType, toolVars, childVars, outputVars
<1>5. StudyType' BY <1>1, <1>2 DEF StudyType, studyVars, Tools
<1>6. JobType' BY <1>1, <1>2 DEF JobType, workerVars
<1>7. ASSUME CancelRun PROVE WindowType' /\ PointsInv'
  <2>1. UNCHANGED <<revision, points, result>> /\ running BY <1>7 DEF CancelRun, windowVars
  <2>2. WindowType' BY <1>1, <1>2, <2>1 DEF WindowType
  <2>3. \A i : Shows(queue, i)' = Shows(queue, i)
    BY <1>2, <2>1 DEF Shows, AboutIn, Current, Ours
  <2>4. PointsInv' BY <1>2, <2>1, <2>3 DEF QuietInv, PointsInv, workerVars
  <2> QED BY <2>2, <2>4
<1>8. ASSUME MarkInputsChanged \/ LoadResultJson PROVE WindowType' /\ PointsInv'
  <2>1. points' = <<>> /\ DOMAIN points' = {} BY <1>8 DEF MarkInputsChanged, LoadResultJson
  <2>2. revision' \in 0..MaxRevision
    BY <1>1, <1>8, LifecycleAssumption DEF MarkInputsChanged, LoadResultJson, WindowType
  <2>3. result'.outcome \in {"none", "Completed"}
    BY <1>8 DEF MarkInputsChanged, LoadResultJson, NoResult
  <2>4. WindowType' BY <1>1, <1>2, <2>1, <2>2, <2>3 DEF WindowType
  <2>5. PointsInv' BY <2>1 DEF PointsInv
  <2> QED BY <2>4, <2>5
<1>9. MessageInv' BY <1>2 DEF QuietInv, TypeInv, MessageInv, Fitting, workerVars
<1>10. BusyInv' BY <1>2 DEF QuietInv, TypeInv, BusyInv, workerVars, studyVars
<1>11. (queue \in Seq(Messages))' BY <1>1, <1>2
<1>12. WindowType' /\ PointsInv' BY <1>7, <1>8
<1>13. TypeOK' BY <1>4, <1>5, <1>6, <1>11, <1>12, TypeParts, PTL
<1> QED BY <1>9, <1>10, <1>12, <1>13 DEF TypeInv

(* A poll shows for each point what the messages said of it last.          *)
LEMMA UpdatedShows ==
  DOMAIN Updated = DOMAIN points /\ \A i \in DOMAIN points : Updated[i] = Shows(queue, i)
<1>1. \A i : About(i) = AboutIn(queue, i) BY DEF About, AboutIn
<1> QED BY <1>1 DEF Updated, Shows

LEMMA SettledShows ==
  ASSUME NEW shown
  PROVE  /\ DOMAIN Settled(shown) = DOMAIN shown
         /\ \A i \in DOMAIN shown :
              Settled(shown)[i] = IF flag /\ shown[i] \in {"Pending", "Running"}
                                    THEN "Cancelled" ELSE shown[i]
BY DEF Settled

(* What a point is shown as is a status of a point.                        *)
LEMMA ShownStatus ==
  ASSUME QuietInv, NEW i \in DOMAIN points PROVE Shows(queue, i) \in PointStatuses
<1>1. queue \in Seq(Messages) /\ \A k \in DOMAIN queue : Fitting(queue[k])
  BY TypeParts DEF QuietInv, TypeInv, MessageInv
<1>2. points[i] \in PointStatuses BY TypeParts DEF QuietInv, TypeInv, WindowType
<1>3. CASE AboutIn(queue, i) = {} BY <1>2, <1>3 DEF Shows
<1>4. CASE AboutIn(queue, i) # {}
  <2>1. AboutIn(queue, i) \in SUBSET Nat /\ \A x \in AboutIn(queue, i) : x <= Len(queue)
        /\ Len(queue) \in Nat
    BY <1>1, LenProperties DEF AboutIn
  <2>2. Max(AboutIn(queue, i)) \in AboutIn(queue, i) BY <1>4, <2>1, MaxIsIn
  <2> QED BY <1>1, <1>4, <2>2 DEF Shows, AboutIn, Fitting
<1> QED BY <1>3, <1>4

(* The last of the messages that end a run is one of them.                 *)
LEMMA EndingIsIn ==
  ASSUME queue \in Seq(Messages), NEW kind, Endings(kind) # {}
  PROVE  Max(Endings(kind)) \in Endings(kind)
<1>1. Endings(kind) \in SUBSET Nat /\ Len(queue) \in Nat
      /\ \A x \in Endings(kind) : x <= Len(queue)
  BY LenProperties DEF Endings
<1> QED BY <1>1, MaxIsIn

LEMMA PollQuiet == QuietInv /\ Poll => (TypeInv /\ PointsInv)'
<1> SUFFICES ASSUME QuietInv, Poll PROVE (TypeInv /\ PointsInv)' OBVIOUS
<1>1. ToolType /\ StudyType /\ JobType /\ WindowType /\ queue \in Seq(Messages)
  BY TypeParts DEF QuietInv, TypeInv
<1>2. UNCHANGED <<pc, flag, asked, toolVars, studyVars, revision, runId, job, point>>
      /\ queue' = <<>>
  BY DEF Poll, flagVars, workerVars
<1>3. \A k \in DOMAIN queue : Fitting(queue[k]) BY DEF QuietInv, TypeInv, MessageInv
<1>4. DOMAIN points' = DOMAIN points
      /\ \A i \in DOMAIN points : points'[i] \in {Shows(queue, i), "Cancelled"}
  <2>1. points' = Updated \/ points' = Settled(Updated) BY DEF Poll
  <2> QED BY <2>1, UpdatedShows, SettledShows
<1>5. ToolType' BY <1>1, <1>2 DEF ToolType, toolVars, childVars, outputVars
<1>6. StudyType' BY <1>1, <1>2 DEF StudyType, studyVars, Tools
<1>7. JobType' BY <1>1, <1>2 DEF JobType
<1>8. WindowType'
  <2>1. \A i \in DOMAIN points : points'[i] \in PointStatuses
    BY <1>4, ShownStatus DEF PointStatuses
  <2>2. result'.outcome \in {"none", "Completed", "Failed", "Cancelled"}
    <3>1. CASE Endings("run") = {} BY <1>1, <3>1 DEF Poll, WindowType
    <3>2. CASE Endings("run") # {}
      <4> DEFINE m == queue[Max(Endings("run"))]
      <4>1. result' = Installed(m) BY <3>2 DEF Poll
      <4>2. m.status \in Outcomes BY <1>1, <1>3, <3>2, EndingIsIn DEF Endings, Fitting
      <4> HIDE DEF m
      <4>3. CASE result' = result BY <1>1, <4>3 DEF WindowType
      <4>4. CASE result' = [outcome |-> m.status, for |-> m.revision] /\ m.status # "Err"
        BY <4>2, <4>4 DEF Outcomes
      <4> QED BY <4>1, <4>3, <4>4 DEF Installed
    <3> QED BY <3>1, <3>2
  <2>3. running' \in BOOLEAN BY DEF Poll
  <2> QED BY <1>1, <1>2, <1>4, <2>1, <2>2, <2>3 DEF WindowType
<1>9. MessageInv' BY <1>2 DEF MessageInv
<1>10. BusyInv'
  <2>1. pc # "none" => running'
    <3>1. SUFFICES ASSUME pc # "none" PROVE running' OBVIOUS
    <3>2. running BY <3>1 DEF QuietInv, TypeInv, BusyInv
    <3>3. Endings("run") = {} /\ Endings("sweep") = {}
      BY <3>1 DEF QuietInv, TypeInv, BusyInv, Endings
    <3> QED BY <3>2, <3>3 DEF Poll
  <2>2. queue' = <<>> /\ DOMAIN queue' = {} BY <1>2
  <2> QED BY <1>2, <2>1, <2>2 DEF QuietInv, TypeInv, BusyInv, studyVars
<1>11. PointsInv'
  <2>1. \A i : Shows(queue, i)' = points'[i] BY <1>2 DEF Shows, AboutIn
  <2>2. DOMAIN points' # {} => points # <<>> BY <1>4
  <2>3. points' # <<>> => job.kind = "sweep"
    BY NoPointAppears DEF QuietInv, PointsInv
  <2>4. \A i \in DOMAIN points' : points'[i] = "Running" => pc \in Studying /\ point = i
    BY <1>4 DEF QuietInv, PointsInv
  <2>5. ASSUME ~running', asked, NEW i \in DOMAIN points' PROVE points'[i] # "Pending"
    <3>1. running BY DEF Poll, QuietInv, TypeInv, BusyInv
    <3>2. job.kind = "sweep" /\ job.revision = revision
      BY <2>2, <2>5 DEF QuietInv, PointsInv, ShownIsForTheInputs
    <3>3. Endings("run") = {} BY <1>3, <3>2 DEF Endings, Fitting
    <3>4. Endings("sweep") # {} BY <2>5, <3>1, <3>3 DEF Poll
    <3>5. Current(queue[Max(Endings("sweep"))])
      BY <1>1, <1>3, <3>2, <3>4, EndingIsIn DEF Endings, Current, Ours, Fitting
    <3>6. points' = Settled(Updated) BY <3>4, <3>5 DEF Poll
    <3>7. flag BY <2>5 DEF QuietInv, StopInv
    <3> QED BY <1>4, <2>5, <3>6, <3>7, UpdatedShows, SettledShows
  <2> QED BY <1>2, <2>1, <2>3, <2>4, <2>5 DEF PointsInv
<1>12. (queue \in Seq(Messages))' BY <1>2
<1>13. TypeOK' BY <1>5, <1>6, <1>7, <1>8, <1>12, TypeParts, PTL
<1> QED BY <1>9, <1>10, <1>11, <1>13 DEF TypeInv

-----------------------------------------------------------------------------

LEMMA StepQuiet == QuietInv /\ [Next]_vars => QuietInv'
<1> SUFFICES ASSUME QuietInv, [Next]_vars PROVE (TypeInv /\ PointsInv)'
  BY StepStop, StepShown DEF QuietInv
<1>1. CASE InStudy BY <1>1, StudyQuiet
<1>2. CASE BeginPoint BY <1>2, BeginQuiet
<1>3. CASE ReportPoint BY <1>3, ReportQuiet
<1>4. CASE EndSweep \/ EndRun BY <1>4, EndQuiet
<1>5. CASE Environment BY <1>5, EnvironmentQuiet
<1>6. CASE \E kind \in {"run", "sweep"} : Start(kind) BY <1>6, StartQuiet
<1>7. CASE CancelRun \/ MarkInputsChanged \/ LoadResultJson BY <1>7, AskedQuiet
<1>8. CASE Poll BY <1>8, PollQuiet
<1>9. CASE UNCHANGED vars
  <2>1. ToolType' /\ StudyType'
    BY <1>9, TypeParts DEF vars, QuietInv, TypeInv, ToolType, StudyType, Tools, flagVars,
       toolVars, childVars, outputVars, studyVars
  <2>2. pc' = "report" => outcome' # "none"
    BY <1>9 DEF vars, studyVars, QuietInv, TypeInv, BusyInv
  <2>3. UNCHANGED <<windowVars, workerVars, queue, asked>> /\ pc' = pc BY <1>9 DEF vars, flagVars
  <2>4. (JobType /\ WindowType /\ queue \in Seq(Messages) /\ MessageInv /\ BusyInv
           /\ PointsInv)'
    BY <2>2, <2>3, SameWindow
  <2> QED BY <2>1, <2>4, TypeParts, PTL DEF TypeInv
<1> QED BY <1>1, <1>2, <1>3, <1>4, <1>5, <1>6, <1>7, <1>8, <1>9 DEF Next, Worker, Window

(* TypeOK: every variable keeps its type, and a process is alive only while *)
(* the worker is in the tool that launched it, whatever the plan of tools, *)
(* the moment of a cancel and the way a tool ends (process_runner.rs,      *)
(* run_command_with_callback; runner.rs, run_study).                       *)
THEOREM TypeTheorem == Spec => []TypeOK
<1>1. QuietInv => TypeOK BY DEF QuietInv, TypeInv
<1> QED BY <1>1, InitQuiet, StepQuiet, PTL DEF Spec

(* IdleIsQuiet: a window that is not busy has no worker, no tool, nothing  *)
(* in its channel and no point shown as running, and after a cancelled     *)
(* sweep none as pending (lifecycle.rs, start_run, start_sweep, poll).     *)
THEOREM QuietTheorem == Spec => []IdleIsQuiet
<1>1. QuietInv => IdleIsQuiet
  <2> SUFFICES ASSUME QuietInv, ~running PROVE IdleIsQuiet BY DEF IdleIsQuiet
  <2>1. pc = "none" /\ queue = <<>> BY DEF QuietInv, TypeInv, BusyInv
  <2>2. child # "running" BY <2>1, TypeParts DEF QuietInv, TypeInv, ToolType, InTool
  <2>3. \A i : Shows(queue, i) = points[i] BY <2>1, ShowsNone
  <2>4. \A i \in DOMAIN points : points[i] # "Running" /\ (asked => points[i] # "Pending")
    BY <2>1, <2>3 DEF QuietInv, PointsInv, Studying, InTool
  <2> QED BY <2>1, <2>2, <2>4 DEF IdleIsQuiet
<1> QED BY <1>1, InitQuiet, StepQuiet, PTL DEF Spec
=============================================================================
