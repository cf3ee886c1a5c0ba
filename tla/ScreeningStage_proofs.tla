----------------------- MODULE ScreeningStage_proofs -----------------------
(***************************************************************************)
(* Proofs about ScreeningStage, for every budget, rejection cap, batch     *)
(* size and number of lanes.                                               *)
(*                                                                         *)
(* The evaluator leaves the longest prefix of a batch whose passed points  *)
(* are answered (Resolved).  That there is one, and that its passed points *)
(* are exactly the answered ones, is the heart of the matter; SampleInv    *)
(* then says where the batch stands in the sample at each place of the     *)
(* loop, and CountInv what the counters count there.  LimitInv adds the    *)
(* limits: what was drawn is a run of the sequential loop.  StepsLeft is a *)
(* number that every step of the loop lowers.                              *)
(***************************************************************************)
EXTENDS ScreeningStage, FiniteSetTheorems, TLAPS

SampleInv ==
  /\ drawn \in Nat /\ completed \in Nat
  /\ points \in Seq(Nat) /\ scored \in Seq(Nat)
  /\ pc \in {"top", "draw", "after", "done"}
  /\ \A i \in 1..Len(scored) : scored[i] = i
  /\ pc = "top" => Len(scored) = drawn
  /\ pc = "draw" => /\ Len(scored) + Len(points) = drawn
                    /\ \A i \in 1..Len(points) : points[i] = Len(scored) + i
  /\ pc = "after" => /\ completed <= Len(points)
                     /\ completed = Len(points) => Len(scored) = drawn

CountInv ==
  /\ analysed \in Nat /\ rows \in Nat /\ unstarted \in Int /\ gateRejects \in Int
  /\ ~settings.timed => ~expired
  /\ analysed = rows /\ Len(scored) = analysed + gateRejects
  /\ unstarted = 0 \/ (pc = "after" /\ requested) \/ (pc = "done" /\ termination = "cancelled")

StageInv == SampleInv /\ CountInv

-----------------------------------------------------------------------------
(* The longest answered prefix. *)

LEMMA LeastIsIn ==
  ASSUME NEW S \in SUBSET Nat, S # {}
  PROVE  \E least \in S : \A n \in S : least <= n
<1> DEFINE Less == {ss \in Nat \X Nat : ss[1] < ss[2]}
<1>1. IsWellFoundedOn(Less, Nat) BY NatLessThanWellFounded, Zenon DEF OpToRel
<1>2. PICK least \in S : \A n \in S : ~(<<n, least>> \in Less)
  <2> HIDE DEF Less
  <2> QED BY <1>1, WFMin
<1>3. ASSUME NEW n \in S PROVE least <= n
  <2>1. least \in Nat /\ n \in Nat OBVIOUS
  <2>2. ~(n < least) BY <1>2, <2>1
  <2> QED BY <2>1, <2>2
<1> QED BY <1>3

LEMMA LargestExists ==
  ASSUME NEW n \in Nat, NEW S \in SUBSET (0..n), S # {}
  PROVE  Max(S) \in S /\ \A y \in S : Max(S) >= y
<1> DEFINE T == {n - c : c \in S}
<1>1. T \in SUBSET Nat /\ T # {}
  <2>1. \A c \in S : n - c \in Nat OBVIOUS
  <2>2. PICK c \in S : TRUE OBVIOUS
  <2>3. n - c \in T OBVIOUS
  <2> QED BY <2>1, <2>3
<1>2. PICK m \in T : \A y \in T : m <= y
  <2> HIDE DEF T
  <2> QED BY <1>1, LeastIsIn
<1>3. PICK x \in S : m = n - x BY <1>2
<1>4. ASSUME NEW y \in S PROVE x >= y
  <2>1. n - y \in T /\ n - y \in Nat /\ m \in Nat BY <1>1, <1>2
  <2>2. m <= n - y BY <1>2, <2>1
  <2> QED BY <1>3, <2>2
<1> QED BY <1>4 DEF Max

LEMMA PassedPoints ==
  ASSUME NEW c \in Nat
  PROVE  /\ PassedIn(c) \in Nat /\ PassedIn(0) = 0
         /\ PassedIn(c) <= PassedIn(c + 1) /\ PassedIn(c + 1) <= PassedIn(c) + 1
<1> DEFINE P(d) == {i \in 1..d : gate[points[i]]}
<1>1. ASSUME NEW d \in Nat PROVE IsFiniteSet(P(d)) /\ Cardinality(P(d)) \in Nat
  <2>1. IsFiniteSet(1..d) /\ P(d) \in SUBSET (1..d) BY FS_Interval
  <2> HIDE DEF P
  <2> QED BY <2>1, FS_Subset, FS_CardinalityType
<1>2. PassedIn(0) = 0
  <2>1. P(0) = {} OBVIOUS
  <2> QED BY <2>1, FS_EmptySet DEF PassedIn
<1>3. P(c) \subseteq P(c + 1) /\ P(c + 1) \subseteq P(c) \cup {c + 1} OBVIOUS
<1>4. Cardinality(P(c)) <= Cardinality(P(c + 1)) BY <1>1, <1>3, FS_Subset
<1>5. Cardinality(P(c + 1)) <= Cardinality(P(c)) + 1
  <2>1. IsFiniteSet(P(c) \cup {c + 1})
        /\ Cardinality(P(c) \cup {c + 1}) \in {Cardinality(P(c)), Cardinality(P(c)) + 1}
    BY <1>1, FS_AddElement
  <2>2. Cardinality(P(c + 1)) <= Cardinality(P(c) \cup {c + 1}) BY <1>3, <2>1, FS_Subset
  <2>3. Cardinality(P(c)) \in Nat /\ Cardinality(P(c + 1)) \in Nat
    <3>1. c + 1 \in Nat OBVIOUS
    <3> HIDE DEF P
    <3> QED BY <1>1, <3>1
  <2> HIDE DEF P
  <2> QED BY <2>1, <2>2, <2>3
<1> QED BY <1>1, <1>2, <1>4, <1>5 DEF PassedIn

(* The prefix ends inside the batch, and its passed points are exactly the *)
(* answered ones.                                                          *)
LEMMA ResolvedPrefix ==
  ASSUME points \in Seq(Nat), NEW answered \in 0..AdmittedCount
  PROVE  Resolved(answered) \in 0..Len(points) /\ PassedIn(Resolved(answered)) = answered
<1> DEFINE n == Len(points)
           S == {c \in 0..n : PassedIn(c) <= answered}
           m == Max(S)
<1>1. n \in Nat /\ PassedIn(n) \in Nat /\ answered \in Nat /\ answered <= PassedIn(n)
  BY PassedPoints DEF AdmittedCount
<1>2. 0 \in S BY <1>1, PassedPoints
<1>3. m \in S /\ \A y \in S : m >= y BY <1>1, <1>2, LargestExists
<1>4. m \in 0..n /\ PassedIn(m) <= answered /\ PassedIn(m) \in Nat
  BY <1>1, <1>3, PassedPoints
<1> HIDE DEF m, n
<1>5. answered <= PassedIn(m)
  <2>1. CASE m = n BY <1>1, <2>1
  <2>2. CASE m # n
    <3>1. m + 1 \in 0..n BY <1>1, <1>4, <2>2
    <3>2. m + 1 \notin S BY <1>1, <1>3, <1>4
    <3>3. PassedIn(m + 1) \in Nat /\ PassedIn(m + 1) <= PassedIn(m) + 1
      BY <1>1, <1>4, <3>1, PassedPoints
    <3>4. ~(PassedIn(m + 1) <= answered) BY <3>1, <3>2
    <3> QED BY <1>1, <1>4, <3>3, <3>4
  <2> QED BY <2>1, <2>2
<1>6. PassedIn(m) = answered BY <1>1, <1>4, <1>5
<1> QED BY <1>4, <1>6 DEF Resolved, m, n

-----------------------------------------------------------------------------
(* The steps. *)

LEMMA InitStage == Init => StageInv
BY DEF Init, StageInv, SampleInv, CountInv

(* The first c members of a sequence of numbers. *)
LEMMA PrefixOf ==
  ASSUME NEW s \in Seq(Nat), NEW c \in 0..Len(s)
  PROVE  /\ SubSeq(s, 1, c) \in Seq(Nat)
         /\ Len(SubSeq(s, 1, c)) = c
         /\ \A i \in 1..c : SubSeq(s, 1, c)[i] = s[i]
<1>1. c \in Nat /\ Len(s) \in Nat /\ c <= Len(s) OBVIOUS
<1>2. SubSeq(s, 1, c) = [i \in 1..c |-> s[i]] BY <1>1
<1>3. [i \in 1..c |-> s[i]] \in Seq(Nat) /\ Len([i \in 1..c |-> s[i]]) = c
  BY <1>1
<1> QED BY <1>2, <1>3

(* What an evaluation leaves: an answered prefix, and rows to match. *)
LEMMA EvaluateLeaves ==
  ASSUME StageInv, Evaluate
  PROVE  /\ completed' \in 0..Len(points)
         /\ analysed' \in Nat /\ rows' \in Nat /\ unstarted' \in Nat
         /\ analysed' = rows' /\ gateRejects' \in Int
         /\ analysed' + gateRejects' = analysed + gateRejects + completed'
         /\ unstarted' = 0 \/ requested
         /\ ~settings.timed => completed' = Len(points)
<1>0. /\ points \in Seq(Nat) /\ analysed \in Nat /\ rows = analysed /\ unstarted = 0
      /\ gateRejects \in Int /\ (~settings.timed => ~expired)
  BY DEF StageInv, SampleInv, CountInv, Evaluate
<1>1. AdmittedCount \in Nat BY <1>0, PassedPoints DEF AdmittedCount
<1>2. PICK started \in 0..AdmittedCount, forwarded \in BOOLEAN :
        /\ forwarded => requested
        /\ ~forwarded /\ ~expired => started = AdmittedCount
        /\ LET answered == IF settings.timed /\ ~forwarded THEN started ELSE AdmittedCount
           IN  /\ rows' = rows + answered
               /\ unstarted' = unstarted + (answered - started)
               /\ completed' = Resolved(answered)
  BY DEF Evaluate
<1> DEFINE answered == IF settings.timed /\ ~forwarded THEN started ELSE AdmittedCount
<1>3. answered \in 0..AdmittedCount /\ answered \in Nat BY <1>1
<1>4. completed' \in 0..Len(points) /\ PassedIn(completed') = answered
  BY <1>0, <1>2, <1>3, ResolvedPrefix
<1>5. analysed' = analysed + answered
      /\ gateRejects' = gateRejects + (completed' - answered)
  BY <1>4 DEF Evaluate, AnalysedIn
<1>6. rows' = rows + answered /\ unstarted' = unstarted + (answered - started) BY <1>2
<1>7. answered = started \/ forwarded BY <1>0, <1>2
<1>8. started \in Nat /\ completed' \in Int BY <1>1, <1>4
<1> HIDE DEF answered
<1>9. unstarted' \in Nat /\ (unstarted' = 0 \/ requested)
  <2>1. answered >= started BY <1>1, <1>7 DEF answered
  <2> QED BY <1>0, <1>2, <1>3, <1>6, <1>7, <1>8, <2>1
<1>10. analysed' \in Nat /\ rows' = analysed' BY <1>0, <1>3, <1>5, <1>6
<1>11. gateRejects' \in Int /\ analysed' + gateRejects' = analysed + gateRejects + completed'
  BY <1>0, <1>3, <1>5, <1>8
<1>12. ~settings.timed => completed' = Len(points)
  <2> SUFFICES ASSUME ~settings.timed PROVE completed' = Len(points) OBVIOUS
  <2> DEFINE S == {c \in 0..Len(points) : PassedIn(c) <= AdmittedCount}
  <2>1. completed' = Max(S) BY <1>2 DEF Resolved, answered
  <2>2. Len(points) \in Nat BY <1>0
  <2>3. Len(points) \in S BY <1>1, <2>2 DEF AdmittedCount
  <2>4. Max(S) >= Len(points)
    <3>1. S \in SUBSET (0..Len(points)) /\ S # {} BY <2>3
    <3> HIDE DEF S
    <3> QED BY <2>2, <2>3, <3>1, LargestExists
  <2> QED BY <1>4, <2>1, <2>2, <2>4
<1> QED BY <1>4, <1>9, <1>10, <1>11, <1>12

LEMMA EvaluateKeeps == StageInv /\ Evaluate => StageInv'
<1> SUFFICES ASSUME StageInv, Evaluate PROVE StageInv' OBVIOUS
<1>0. SampleInv /\ CountInv BY DEF StageInv
<1>1. /\ pc = "draw" /\ pc' = "after" /\ scored' = scored \o SubSeq(points, 1, completed')
      /\ UNCHANGED <<settings, expired, requested, drawn, points>>
  BY DEF Evaluate, envVars, drawVars
<1>2. completed' \in 0..Len(points) BY EvaluateLeaves
<1>3. /\ points \in Seq(Nat) /\ scored \in Seq(Nat) /\ drawn \in Nat
      /\ Len(scored) + Len(points) = drawn
      /\ \A i \in 1..Len(points) : points[i] = Len(scored) + i
      /\ \A i \in 1..Len(scored) : scored[i] = i
  BY <1>0, <1>1 DEF SampleInv
<1> DEFINE part == SubSeq(points, 1, completed')
<1>4. part \in Seq(Nat) /\ Len(part) = completed'
      /\ \A i \in 1..completed' : part[i] = points[i]
  BY <1>2, <1>3, PrefixOf
<1>5. scored' \in Seq(Nat) /\ Len(scored') = Len(scored) + completed'
  BY <1>1, <1>3, <1>4
<1>6. ASSUME NEW i \in 1..Len(scored') PROVE scored'[i] = i
  <2>1. CASE i \in 1..Len(scored)
    <3>1. scored'[i] = scored[i] BY <1>1, <1>3, <1>4, <2>1
    <3> QED BY <1>3, <2>1, <3>1
  <2>2. CASE i \notin 1..Len(scored)
    <3>1. Len(scored) \in Nat /\ completed' \in Nat BY <1>2, <1>3
    <3>2. i - Len(scored) \in 1..completed' BY <1>5, <2>2, <3>1
    <3>3. scored'[i] = part[i - Len(scored)] BY <1>1, <1>3, <1>4, <1>5, <2>2, <3>2
    <3>4. points[i - Len(scored)] = Len(scored) + (i - Len(scored)) BY <1>2, <1>3, <3>2, SMTT(30)
    <3> QED BY <1>4, <3>1, <3>2, <3>3, <3>4
  <2> QED BY <2>1, <2>2
<1>7. SampleInv'
  <2>1. Len(points) \in Nat /\ Len(scored) \in Nat BY <1>3
  <2>2. completed' <= Len(points) /\ (completed' = Len(points) => Len(scored') = drawn)
    BY <1>2, <1>3, <1>5, <2>1
  <2>3. completed' \in Nat BY <1>2, <2>1
  <2> QED BY <1>1, <1>3, <1>5, <1>6, <2>2, <2>3 DEF SampleInv
<1>8. CountInv'
  <2>1. Len(scored) = analysed + gateRejects /\ analysed \in Nat /\ gateRejects \in Int
    BY <1>0 DEF CountInv
  <2>2. Len(scored') = analysed' + gateRejects' BY <1>5, <2>1, EvaluateLeaves
  <2> QED BY <1>0, <1>1, <2>2, EvaluateLeaves DEF CountInv
<1> QED BY <1>7, <1>8 DEF StageInv

LEMMA DrawKeeps == StageInv /\ Draw => StageInv'
<1> SUFFICES ASSUME StageInv, Draw PROVE StageInv' OBVIOUS
<1>0. SampleInv /\ CountInv BY DEF StageInv
<1>1. /\ pc = "draw" /\ pc' = pc /\ drawn' = drawn + 1 /\ points' = Append(points, drawn + 1)
      /\ UNCHANGED <<settings, expired, requested, scoreVars, termination>>
  BY DEF Draw, envVars
<1>2. /\ points \in Seq(Nat) /\ scored \in Seq(Nat) /\ drawn \in Nat
      /\ Len(scored) + Len(points) = drawn
      /\ \A i \in 1..Len(points) : points[i] = Len(scored) + i
  BY <1>0, <1>1 DEF SampleInv
<1>3. points' \in Seq(Nat) /\ Len(points') = Len(points) + 1 BY <1>1, <1>2
<1>4. ASSUME NEW i \in 1..Len(points') PROVE points'[i] = Len(scored) + i
  <2>1. CASE i = Len(points) + 1
    <3>1. points'[i] = drawn + 1 BY <1>1, <1>2, <2>1
    <3>2. Len(points) \in Nat /\ Len(scored) \in Nat /\ Len(scored) + Len(points) = drawn
      BY <1>2
    <3>3. drawn + 1 = Len(scored) + (Len(points) + 1) BY <3>2
    <3> QED BY <2>1, <3>1, <3>3
  <2>2. CASE i # Len(points) + 1
    <3>1. i \in 1..Len(points) /\ points'[i] = points[i] BY <1>1, <1>2, <1>3, <2>2
    <3> QED BY <1>2, <3>1
  <2> QED BY <2>1, <2>2
<1>5. SampleInv' BY <1>0, <1>1, <1>2, <1>3, <1>4 DEF SampleInv, scoreVars
<1>6. CountInv' BY <1>0, <1>1 DEF CountInv, scoreVars
<1> QED BY <1>5, <1>6 DEF StageInv

LEMMA StepStage == StageInv /\ [Next]_vars => StageInv'
<1> SUFFICES ASSUME StageInv, [Next]_vars PROVE StageInv' OBVIOUS
<1>0. SampleInv /\ CountInv BY DEF StageInv
<1> USE DEF envVars, drawVars, scoreVars
<1>1. CASE UNCHANGED vars BY <1>0, <1>1 DEF vars, StageInv, SampleInv, CountInv
<1>2. CASE TimePasses BY <1>0, <1>2 DEF TimePasses, StageInv, SampleInv, CountInv
<1>3. CASE Request BY <1>0, <1>3 DEF Request, StageInv, SampleInv, CountInv
<1>4. ASSUME NEW reason, Stop(reason), pc \in {"top", "after"},
             pc = "after" /\ requested => reason = "cancelled"
      PROVE  StageInv'
  BY <1>0, <1>4 DEF Stop, StageInv, SampleInv, CountInv
<1>5. CASE BudgetReached BY <1>4, <1>5 DEF BudgetReached
<1>6. CASE CapReached BY <1>4, <1>6 DEF CapReached
<1>7. CASE NoRoom BY <1>4, <1>7 DEF NoRoom, InBudget
<1>8. CASE RequestAtTop BY <1>4, <1>8 DEF RequestAtTop, InBudget
<1>9. CASE StartBatch
  <2>1. /\ pc = "top" /\ pc' = "draw" /\ points' = <<>>
        /\ UNCHANGED <<settings, expired, requested, drawn, scoreVars, termination>>
    BY <1>9 DEF StartBatch, InBudget
  <2> QED BY <1>0, <2>1 DEF StageInv, SampleInv, CountInv
<1>10. CASE Draw BY <1>10, DrawKeeps
<1>11. CASE Evaluate BY <1>11, EvaluateKeeps
<1>12. CASE RequestAfterBatch BY <1>4, <1>12 DEF RequestAfterBatch
<1>13. CASE TimeCutsBatch BY <1>4, <1>13 DEF TimeCutsBatch
<1>14. CASE NextBatch
  <2>1. /\ pc = "after" /\ pc' = "top" /\ ~requested /\ ~(completed < Len(points))
        /\ UNCHANGED <<settings, expired, requested, drawn, points, scoreVars, termination>>
    BY <1>14 DEF NextBatch, CutShort
  <2>2. completed \in Nat /\ Len(points) \in Nat /\ completed <= Len(points)
    BY <1>0, <2>1 DEF SampleInv
  <2>3. completed = Len(points) BY <2>1, <2>2
  <2> QED BY <1>0, <2>1, <2>3 DEF StageInv, SampleInv, CountInv
<1> QED BY <1>1, <1>2, <1>3, <1>5, <1>6, <1>7, <1>8, <1>9, <1>10, <1>11, <1>12, <1>13, <1>14
        DEF Next, Run

-----------------------------------------------------------------------------

(* ScoredIsSamplePrefix: whatever the batches, the clock, the lanes and    *)
(* the rejections, the stage scores a prefix of the sample and skips,      *)
(* repeats and reorders nothing (screening.rs, run; batch.rs,              *)
(* resolve_prefix).                                                        *)
THEOREM PrefixTheorem == Spec => []ScoredIsSamplePrefix
<1>1. StageInv => ScoredIsSamplePrefix BY DEF StageInv, SampleInv, ScoredIsSamplePrefix
<1> QED BY <1>1, InitStage, StepStage, PTL DEF Spec

(* StageCountsAgree: every scored point is an analysis or a rejection, and *)
(* only a cancelled stage counts a point nobody started (screening.rs;     *)
(* batch.rs, evaluate_block).                                              *)
THEOREM CountsTheorem == Spec => []StageCountsAgree
<1>1. StageInv => StageCountsAgree BY DEF StageInv, CountInv, StageCountsAgree
<1> QED BY <1>1, InitStage, StepStage, PTL DEF Spec

-----------------------------------------------------------------------------
(* The limits.  What the stage drew is a run of the sequential loop: at no *)
(* earlier point had one of the limits been met.                           *)

PassedCount(p) == Cardinality(Passed(p))
RejectedCount(p) == p - PassedCount(p)

(* The sequential loop draws on behind point p. *)
GoesOn(p) == PassedCount(p) < settings.stop_after /\ RejectedCount(p) < MaxRejects

FieldsInv ==
  /\ gate \in [Sample -> BOOLEAN]
  /\ settings \in [stop_after : 1..MaxEvaluations, timed : BOOLEAN, workers : 1..MaxWorkers]
  /\ expired \in BOOLEAN /\ requested \in BOOLEAN
  /\ room \in 0..BatchSize /\ lastBatch \in 0..BatchSize /\ unstarted \in Nat
  /\ termination \in {"evaluation_budget", "pregate_exhausted", "time_budget", "cancelled"}

DrawnInv ==
  /\ Len(scored) <= drawn
  /\ analysed = PassedCount(Len(scored))
  /\ rejected = RejectedCount(drawn) /\ rejected <= MaxRejects
  /\ PassedCount(drawn) <= settings.stop_after
  /\ \A e \in Nat : e < drawn => GoesOn(e)
  /\ \A i \in 1..Len(points) : points[i] \in 1..drawn

BatchInv ==
  /\ pc \in {"draw", "after"} =>
       /\ Len(points) <= drawn
       /\ \A i \in 1..Len(points) : points[i] = (drawn - Len(points)) + i
       /\ PassedCount(drawn) <= PassedCount(drawn - Len(points)) + room
  /\ pc = "draw" => analysed + room <= settings.stop_after
  /\ pc = "after" /\ ~settings.timed => completed = Len(points)

(* How a stage that nobody stops ends. *)
EndInv ==
  pc = "done" /\ ~settings.timed /\ ~requested =>
    /\ Len(scored) = drawn
    /\ \/ termination = "evaluation_budget" /\ analysed = settings.stop_after
       \/ /\ termination = "pregate_exhausted" /\ analysed < settings.stop_after
          /\ rejected = MaxRejects

LimitInv == StageInv /\ FieldsInv /\ DrawnInv /\ BatchInv /\ EndInv

-----------------------------------------------------------------------------
(* Counting passed points.                                                 *)

LEMMA CountStep ==
  ASSUME NEW p \in Nat
  PROVE  /\ PassedCount(p) \in Nat /\ PassedCount(0) = 0 /\ PassedCount(p) <= p
         /\ PassedCount(p + 1) = IF gate[p + 1] THEN PassedCount(p) + 1 ELSE PassedCount(p)
<1>1. IsFiniteSet(1..p) /\ Cardinality(1..p) = p /\ Passed(p) \subseteq 1..p
  BY FS_Interval DEF Passed
<1>2. /\ IsFiniteSet(Passed(p)) /\ PassedCount(p) \in Nat /\ PassedCount(p) <= p
  BY <1>1, FS_Subset, FS_CardinalityType DEF PassedCount
<1>3. PassedCount(0) = 0
  <2>1. Passed(0) = {} BY DEF Passed
  <2> QED BY <2>1, FS_EmptySet DEF PassedCount
<1>4. CASE gate[p + 1]
  <2>1. Passed(p + 1) = Passed(p) \cup {p + 1} /\ p + 1 \notin Passed(p)
    BY <1>4 DEF Passed
  <2> QED BY <1>2, <1>3, <1>4, <2>1, FS_AddElement DEF PassedCount
<1>5. CASE ~gate[p + 1]
  <2>1. Passed(p + 1) = Passed(p) BY <1>5 DEF Passed
  <2> QED BY <1>2, <1>3, <1>5, <2>1 DEF PassedCount
<1> QED BY <1>4, <1>5

LEMMA InBatchStep ==
  ASSUME NEW c \in Nat
  PROVE  PassedIn(c + 1) = IF gate[points[c + 1]] THEN PassedIn(c) + 1 ELSE PassedIn(c)
<1> DEFINE P(d) == {i \in 1..d : gate[points[i]]}
<1>1. IsFiniteSet(P(c)) /\ c + 1 \notin P(c)
  <2>1. IsFiniteSet(1..c) /\ P(c) \in SUBSET (1..c) BY FS_Interval
  <2>2. IsFiniteSet(P(c))
    <3> HIDE DEF P
    <3> QED BY <2>1, FS_Subset
  <2> QED BY <2>2
<1>2. CASE gate[points[c + 1]]
  <2>1. P(c + 1) = P(c) \cup {c + 1} BY <1>2
  <2>2. Cardinality(P(c + 1)) = Cardinality(P(c)) + 1
    <3> HIDE DEF P
    <3> QED BY <1>1, <2>1, FS_AddElement
  <2> QED BY <1>2, <2>2 DEF PassedIn
<1>3. CASE ~gate[points[c + 1]]
  <2>1. P(c + 1) = P(c) BY <1>3
  <2> QED BY <1>3, <2>1 DEF PassedIn
<1> QED BY <1>2, <1>3

(* The passed points of a batch are those of its stretch of the sample.    *)
LEMMA BatchCount ==
  ASSUME NEW base \in Nat, NEW n \in Nat, \A i \in 1..n : points[i] = base + i,
         NEW c \in 0..n
  PROVE  PassedCount(base + c) = PassedCount(base) + PassedIn(c)
<1> DEFINE Off == {d \in Nat : d <= n /\ PassedCount(base + d) # PassedCount(base) + PassedIn(d)}
<1>1. SUFFICES ASSUME Off # {} PROVE FALSE OBVIOUS
<1>2. PICK d \in Off : \A e \in Off : d <= e
  <2>1. Off \in SUBSET Nat OBVIOUS
  <2> HIDE DEF Off
  <2> QED BY <1>1, <2>1, LeastIsIn
<1>3. d # 0
  <2>1. PassedIn(0) = 0 /\ PassedCount(base) \in Nat BY PassedPoints, CountStep
  <2> QED BY <2>1
<1>4. d - 1 \in Nat /\ d - 1 \notin Off BY <1>2, <1>3
<1>5. PassedCount(base + (d - 1)) = PassedCount(base) + PassedIn(d - 1) BY <1>4
<1> DEFINE b == d - 1
<1>6. b \in Nat /\ b + 1 = d /\ base + b \in Nat /\ (base + b) + 1 = base + d BY <1>4
<1>7. points[d] = base + d BY <1>3
<1>8. PassedCount(base) \in Nat /\ PassedIn(b) \in Nat BY <1>6, PassedPoints, CountStep
<1>9. PassedIn(d) = IF gate[base + d] THEN PassedIn(b) + 1 ELSE PassedIn(b)
  BY <1>6, <1>7, InBatchStep
<1>10. PassedCount(base + d) = IF gate[base + d] THEN PassedCount(base + b) + 1
                                                 ELSE PassedCount(base + b)
  <2> DEFINE q == base + b
  <2>1. q \in Nat /\ q + 1 = base + d BY <1>6
  <2> HIDE DEF q
  <2>2. PassedCount(q + 1) = IF gate[q + 1] THEN PassedCount(q) + 1 ELSE PassedCount(q)
    BY <2>1, CountStep
  <2> QED BY <2>1, <2>2 DEF q
<1> QED BY <1>5, <1>8, <1>9, <1>10

(* The points the sequential loop draws: there is one answer.              *)
LEMMA SequentialIs ==
  ASSUME FieldsInv, NEW count \in Nat \ {0}, NEW d \in Nat,
         PassedCount(d) = count \/ RejectedCount(d) = MaxRejects,
         \A e \in Nat : e < d => PassedCount(e) < count /\ RejectedCount(e) < MaxRejects,
         d \in Sample
  PROVE  SequentialDraws(count) = d
<1> DEFINE Ends(x) == /\ Cardinality(Passed(x)) = count \/ x - Cardinality(Passed(x)) = MaxRejects
                      /\ \A e \in 1..(x - 1) :
                           Cardinality(Passed(e)) < count /\ e - Cardinality(Passed(e)) < MaxRejects
<1>1. MaxRejects \in Nat \ {0} /\ Sample \subseteq Nat BY ScreeningAssumption DEF Sample
<1>2. Ends(d) BY DEF PassedCount, RejectedCount
<1>3. ASSUME NEW x \in Sample, Ends(x) PROVE x = d
  <2>1. x \in Nat /\ x > 0 /\ d > 0 BY <1>1 DEF Sample
  <2>2. PassedCount(x) \in Nat /\ PassedCount(d) \in Nat BY <2>1, CountStep
  <2>3. PassedCount(x) = count \/ RejectedCount(x) = MaxRejects
    BY <1>3 DEF PassedCount, RejectedCount
  <2>4. ~(x < d)
    <3>1. SUFFICES ASSUME x < d PROVE FALSE OBVIOUS
    <3>2. PassedCount(x) < count /\ RejectedCount(x) < MaxRejects BY <2>1, <3>1
    <3> QED BY <1>1, <2>1, <2>2, <2>3, <3>2 DEF RejectedCount
  <2>5. ~(d < x)
    <3>1. SUFFICES ASSUME d < x PROVE FALSE OBVIOUS
    <3>2. d \in 1..(x - 1) BY <2>1, <3>1
    <3>3. PassedCount(d) < count /\ RejectedCount(d) < MaxRejects
      BY <1>3, <3>2 DEF PassedCount, RejectedCount
    <3> QED BY <1>1, <2>1, <2>2, <3>3 DEF RejectedCount
  <2> QED BY <2>1, <2>4, <2>5
<1>4. SequentialDraws(count) = CHOOSE x \in Sample : Ends(x) BY DEF SequentialDraws
<1> HIDE DEF Ends
<1> QED BY <1>2, <1>3, <1>4

LEMMA SameSample ==
  ASSUME UNCHANGED <<gate, settings>>
  PROVE  \A p : /\ PassedCount(p)' = PassedCount(p) /\ RejectedCount(p)' = RejectedCount(p)
                /\ GoesOn(p)' <=> GoesOn(p)
BY DEF PassedCount, RejectedCount, GoesOn, Passed

-----------------------------------------------------------------------------
(* The steps, and the limits.                                              *)

LEMMA InitLimits == Init => LimitInv
<1> SUFFICES ASSUME Init PROVE LimitInv OBVIOUS
<1>1. drawn = 0 /\ points = <<>> /\ scored = <<>> /\ pc = "top" /\ room = 0 /\ rejected = 0
      /\ lastBatch = 0 /\ analysed = 0 /\ unstarted = 0 /\ termination = "evaluation_budget"
  BY DEF Init
<1>2. FieldsInv
  <2>1. expired = FALSE /\ requested = FALSE BY DEF Init
  <2>2. expired \in BOOLEAN /\ requested \in BOOLEAN BY <2>1
  <2>3. room \in 0..BatchSize /\ lastBatch \in 0..BatchSize BY <1>1, ScreeningAssumption
  <2>4. gate \in [Sample -> BOOLEAN] /\ settings \in
          [stop_after : 1..MaxEvaluations, timed : BOOLEAN, workers : 1..MaxWorkers]
    BY DEF Init
  <2> QED BY <1>1, <2>2, <2>3, <2>4 DEF FieldsInv
<1>3. DrawnInv
  <2>1. PassedCount(0) = 0 BY CountStep
  <2>2. settings.stop_after \in Nat /\ MaxRejects \in Nat
    BY <1>2, ScreeningAssumption DEF FieldsInv
  <2>3. Len(scored) = 0 /\ Len(points) = 0 BY <1>1
  <2> QED BY <1>1, <2>1, <2>2, <2>3 DEF DrawnInv, RejectedCount
<1>4. BatchInv /\ EndInv BY <1>1 DEF BatchInv, EndInv
<1> QED BY <1>2, <1>3, <1>4, InitStage DEF LimitInv

(* The batch on hand: where it begins, and what it admits.                 *)
LEMMA BatchOnHand ==
  ASSUME LimitInv, pc \in {"draw", "after"}
  PROVE  /\ Len(points) \in Nat /\ Len(points) <= drawn /\ drawn \in Nat
         /\ drawn - Len(points) \in Nat
         /\ \A c \in 0..Len(points) :
              PassedCount((drawn - Len(points)) + c)
                = PassedCount(drawn - Len(points)) + PassedIn(c)
         /\ PassedCount(drawn) = PassedCount(drawn - Len(points)) + AdmittedCount
         /\ AdmittedCount \in Nat /\ AdmittedCount <= room
<1> DEFINE n == Len(points)
           base == drawn - n
<1>1. n \in Nat /\ drawn \in Nat BY DEF LimitInv, StageInv, SampleInv
<1>2. n <= drawn /\ (\A i \in 1..n : points[i] = base + i)
      /\ PassedCount(drawn) <= PassedCount(base) + room
  BY DEF LimitInv, BatchInv
<1>3. base \in Nat /\ base + n = drawn BY <1>1, <1>2
<1> HIDE DEF n, base
<1>4. \A c \in 0..n : PassedCount(base + c) = PassedCount(base) + PassedIn(c)
  BY <1>1, <1>2, <1>3, BatchCount
<1>5. n \in 0..n BY <1>1
<1>6. PassedCount(drawn) = PassedCount(base) + PassedIn(n) BY <1>3, <1>4, <1>5
<1>7. PassedIn(n) \in Nat /\ PassedCount(base) \in Nat BY <1>1, <1>3, PassedPoints, CountStep
<1>8. AdmittedCount = PassedIn(n) BY DEF AdmittedCount, n
<1>9. room \in Nat BY ScreeningAssumption DEF LimitInv, FieldsInv
<1>10. PassedIn(n) <= room BY <1>2, <1>6, <1>7, <1>9
<1> QED BY <1>1, <1>2, <1>3, <1>4, <1>6, <1>7, <1>8, <1>10 DEF n, base

(* A draw is for a point the sequential loop draws too.                    *)
LEMMA DrawLimits == LimitInv /\ Draw => LimitInv'
<1> SUFFICES ASSUME LimitInv, Draw PROVE LimitInv' OBVIOUS
<1>1. /\ pc = "draw" /\ pc' = pc /\ drawn' = drawn + 1 /\ points' = Append(points, drawn + 1)
      /\ rejected' = (IF gate[drawn + 1] THEN rejected ELSE rejected + 1)
      /\ AdmittedCount < room /\ rejected < MaxRejects
      /\ UNCHANGED <<gate, settings, expired, requested, room, lastBatch, completed, analysed,
                     scored, rows, unstarted, gateRejects, termination>>
  BY DEF Draw, Draws, envVars, scoreVars
<1>2. StageInv' BY DrawKeeps DEF LimitInv
<1>3. FieldsInv' BY <1>1 DEF LimitInv, FieldsInv
<1>4. /\ drawn \in Nat /\ points \in Seq(Nat) /\ scored \in Seq(Nat)
      /\ Len(scored) + Len(points) = drawn
      /\ \A i \in 1..Len(points) : points[i] = Len(scored) + i
  BY <1>1 DEF LimitInv, StageInv, SampleInv
<1>5. Len(scored) \in Nat /\ Len(points) \in Nat /\ drawn - Len(points) = Len(scored) BY <1>4
<1>6. /\ settings.stop_after \in Nat /\ room \in Nat /\ MaxRejects \in Nat
  BY ScreeningAssumption DEF LimitInv, FieldsInv
<1>7. /\ analysed = PassedCount(Len(scored)) /\ analysed \in Nat
      /\ PassedCount(drawn) = analysed + AdmittedCount /\ AdmittedCount \in Nat
      /\ analysed + room <= settings.stop_after /\ rejected = RejectedCount(drawn)
      /\ \A e \in Nat : e < drawn => GoesOn(e)
      /\ \A i \in 1..Len(points) : points[i] \in 1..drawn
  BY <1>1, <1>5, BatchOnHand, CountStep DEF LimitInv, DrawnInv, BatchInv
<1>8. GoesOn(drawn) BY <1>1, <1>6, <1>7, SMTT(30) DEF GoesOn
<1>9. PassedCount(drawn) \in Nat
      /\ PassedCount(drawn + 1) = IF gate[drawn + 1] THEN PassedCount(drawn) + 1
                                                     ELSE PassedCount(drawn)
  BY <1>4, CountStep
<1>10. points' \in Seq(Nat) /\ Len(points') = Len(points) + 1 BY <1>1, <1>4
<1>11. ASSUME NEW i \in 1..Len(points') PROVE points'[i] = Len(scored) + i
  <2>1. CASE i = Len(points) + 1
    <3>1. points'[i] = drawn + 1 BY <1>1, <1>4, <2>1
    <3>2. drawn + 1 = Len(scored) + (Len(points) + 1) BY <1>4, <1>5
    <3> QED BY <2>1, <3>1, <3>2
  <2>2. CASE i # Len(points) + 1
    <3>1. i \in 1..Len(points) /\ points'[i] = points[i] BY <1>1, <1>4, <1>10, <2>2
    <3> QED BY <1>4, <3>1
  <2> QED BY <2>1, <2>2
<1>12. DrawnInv'
  <2>1. Len(scored)' = Len(scored) /\ Len(scored) <= drawn + 1 BY <1>1, <1>4, <1>5
  <2>2. PassedCount(drawn + 1) \in Nat /\ PassedCount(drawn + 1) <= settings.stop_after
    BY <1>1, <1>6, <1>7, <1>9, SMTT(30)
  <2>3. rejected' = RejectedCount(drawn + 1) /\ rejected' <= MaxRejects
    <3>1. rejected = drawn - PassedCount(drawn) /\ rejected \in Int
      BY <1>4, <1>7, <1>9 DEF RejectedCount
    <3>2. CASE gate[drawn + 1]
      <4>1. rejected' = rejected BY <1>1, <3>1, <3>2
      <4>2. PassedCount(drawn + 1) = PassedCount(drawn) + 1 BY <1>9, <3>2
      <4>3. (drawn + 1) - PassedCount(drawn + 1) = rejected BY <1>4, <1>9, <3>1, <4>2
      <4> QED BY <1>1, <1>6, <3>1, <4>1, <4>3 DEF RejectedCount
    <3>3. CASE ~gate[drawn + 1]
      <4>1. rejected' = rejected + 1 BY <1>1, <3>3
      <4>2. PassedCount(drawn + 1) = PassedCount(drawn) BY <1>9, <3>3
      <4>3. (drawn + 1) - PassedCount(drawn + 1) = rejected + 1 BY <1>4, <1>9, <3>1, <4>2
      <4>4. rejected + 1 <= MaxRejects BY <1>1, <1>6, <3>1
      <4> QED BY <4>1, <4>3, <4>4 DEF RejectedCount
    <3> QED BY <3>2, <3>3
  <2>4. \A e \in Nat : e < drawn + 1 => GoesOn(e)
    <3> SUFFICES ASSUME NEW e \in Nat, e < drawn + 1 PROVE GoesOn(e) OBVIOUS
    <3>1. e = drawn \/ e < drawn BY <1>4
    <3> QED BY <1>7, <1>8, <3>1
  <2>5. \A i \in 1..Len(points') : points'[i] \in 1..(drawn + 1)
    BY <1>4, <1>5, <1>10, <1>11
  <2>6. \A p : /\ PassedCount(p)' = PassedCount(p) /\ RejectedCount(p)' = RejectedCount(p)
               /\ GoesOn(p)' <=> GoesOn(p)
    BY <1>1, SameSample
  <2> QED BY <1>1, <1>7, <2>1, <2>2, <2>3, <2>4, <2>5, <2>6 DEF DrawnInv
<1>13. BatchInv'
  <2>1. drawn' - Len(points') = Len(scored) /\ Len(points') <= drawn'
    BY <1>1, <1>4, <1>5, <1>10
  <2>2. PassedCount(drawn + 1) <= PassedCount(Len(scored)) + room
    BY <1>1, <1>6, <1>7, <1>9, SMTT(30)
  <2>3. \A p : PassedCount(p)' = PassedCount(p) BY <1>1, SameSample
  <2> QED BY <1>1, <1>7, <1>11, <2>1, <2>2, <2>3 DEF BatchInv
<1>14. EndInv' BY <1>1 DEF EndInv
<1> QED BY <1>2, <1>3, <1>12, <1>13, <1>14 DEF LimitInv


(* An evaluation scores a stretch of the sample.                           *)
LEMMA EvaluateLimits == LimitInv /\ Evaluate => LimitInv'
<1> SUFFICES ASSUME LimitInv, Evaluate PROVE LimitInv' OBVIOUS
<1>1. /\ pc = "draw" /\ pc' = "after" /\ scored' = scored \o SubSeq(points, 1, completed')
      /\ analysed' = analysed + PassedIn(completed')
      /\ UNCHANGED <<gate, settings, expired, requested, drawn, points, room, rejected,
                     lastBatch, termination>>
  BY DEF Evaluate, AnalysedIn, envVars, drawVars
<1>2. StageInv' BY EvaluateKeeps DEF LimitInv
<1>3. /\ completed' \in 0..Len(points) /\ unstarted' \in Nat
      /\ ~settings.timed => completed' = Len(points)
  BY EvaluateLeaves DEF LimitInv
<1>4. /\ drawn \in Nat /\ points \in Seq(Nat) /\ scored \in Seq(Nat)
      /\ Len(scored) + Len(points) = drawn
  BY <1>1 DEF LimitInv, StageInv, SampleInv
<1>5. Len(scored) \in Nat /\ Len(points) \in Nat /\ drawn - Len(points) = Len(scored) BY <1>4
<1>6. FieldsInv' BY <1>1, <1>3 DEF LimitInv, FieldsInv
<1>7. Len(scored') = Len(scored) + completed'
  <2>1. SubSeq(points, 1, completed') \in Seq(Nat)
        /\ Len(SubSeq(points, 1, completed')) = completed'
    BY <1>3, <1>4, PrefixOf
  <2> QED BY <1>1, <1>4, <2>1
<1>8. analysed' = PassedCount(Len(scored'))
  <2>1. PassedCount(Len(scored) + completed') = PassedCount(Len(scored)) + PassedIn(completed')
    BY <1>1, <1>3, <1>5, BatchOnHand
  <2> QED BY <1>1, <1>7, <2>1 DEF LimitInv, DrawnInv
<1>9. \A p : /\ PassedCount(p)' = PassedCount(p) /\ RejectedCount(p)' = RejectedCount(p)
             /\ GoesOn(p)' <=> GoesOn(p)
  BY <1>1, SameSample
<1>10. DrawnInv'
  <2>1. Len(scored') <= drawn BY <1>3, <1>4, <1>5, <1>7
  <2> QED BY <1>1, <1>8, <1>9, <2>1 DEF LimitInv, DrawnInv
<1>11. BatchInv' BY <1>1, <1>3, <1>9 DEF LimitInv, BatchInv
<1>12. EndInv' BY <1>1 DEF EndInv
<1> QED BY <1>2, <1>6, <1>10, <1>11, <1>12 DEF LimitInv

(* The room of a batch: no larger than the batch size, nor than what the   *)
(* budget has left; without a clock there is some while the budget has.    *)
LEMMA RoomIs ==
  ASSUME LimitInv, InBudget, NEW r \in Rooms
  PROVE  /\ r \in 0..BatchSize /\ analysed + r <= settings.stop_after
         /\ ~settings.timed => r # 0
<1>1. /\ settings.stop_after \in Nat /\ settings.workers \in Nat \ {0} /\ lastBatch \in Nat
      /\ BatchSize \in Nat \ {0} /\ analysed \in Nat
  BY ScreeningAssumption DEF LimitInv, FieldsInv, StageInv, CountInv
<1>2. analysed < settings.stop_after BY DEF InBudget
<1>3. PICK count \in IF settings.timed THEN Fitted ELSE {BatchSize} : r = WithinBudget(count)
  BY DEF Rooms
<1>4. count \in 0..BatchSize
  <2>1. CASE ~settings.timed BY <1>1, <1>3, <2>1
  <2>2. CASE settings.timed
    <3>1. count \in Fitted BY <1>3, <2>2
    <3>2. CASE expired BY <1>1, <3>1, <3>2 DEF Fitted, NoTimeLeft
    <3>3. CASE ~expired /\ lastBatch = 0 BY <1>1, <3>1, <3>3 DEF Fitted, Least
    <3>4. CASE ~expired /\ lastBatch # 0
      <4>1. PICK waves \in 0..BatchSize :
              count = Least(waves * Least(settings.workers, lastBatch), BatchSize)
        BY <3>1, <3>4 DEF Fitted
      <4>2. Least(settings.workers, lastBatch) \in Nat BY <1>1 DEF Least
      <4>3. waves * Least(settings.workers, lastBatch) \in Nat BY <1>1, <4>1, <4>2
      <4> QED BY <1>1, <4>1, <4>3 DEF Least
    <3> QED BY <3>2, <3>3, <3>4
  <2> QED BY <2>1, <2>2
<1>5. ~settings.timed => count = BatchSize BY <1>3
<1> QED BY <1>1, <1>2, <1>3, <1>4, <1>5 DEF WithinBudget, Least

LEMMA StartBatchLimits == LimitInv /\ StartBatch => LimitInv'
<1> SUFFICES ASSUME LimitInv, StartBatch PROVE LimitInv' OBVIOUS
<1>1. /\ InBudget /\ pc = "top" /\ pc' = "draw" /\ points' = <<>> /\ room' \in Rooms
      /\ UNCHANGED <<gate, settings, expired, requested, drawn, rejected, lastBatch, completed,
                     analysed, scored, rows, unstarted, gateRejects, termination>>
  BY DEF StartBatch, InBudget, envVars, scoreVars
<1>2. StageInv' BY StepStage DEF LimitInv, Next, Run
<1>3. room' \in 0..BatchSize /\ analysed + room' <= settings.stop_after BY <1>1, RoomIs
<1>4. FieldsInv' BY <1>1, <1>3 DEF LimitInv, FieldsInv
<1>5. drawn \in Nat /\ PassedCount(drawn) \in Nat /\ room' \in Nat
  <2>1. drawn \in Nat BY DEF LimitInv, StageInv, SampleInv
  <2>2. room' \in Nat BY <1>3, ScreeningAssumption
  <2> QED BY <2>1, <2>2, CountStep
<1>6. Len(points') = 0 BY <1>1
<1>7. \A p : /\ PassedCount(p)' = PassedCount(p) /\ RejectedCount(p)' = RejectedCount(p)
             /\ GoesOn(p)' <=> GoesOn(p)
  BY <1>1, SameSample
<1>8. DrawnInv' BY <1>1, <1>6, <1>7 DEF LimitInv, DrawnInv
<1>9. BatchInv'
  <2>1. drawn - 0 = drawn /\ PassedCount(drawn) <= PassedCount(drawn) + room' BY <1>5
  <2>2. Len(points') <= drawn' /\ drawn' - Len(points') = drawn BY <1>1, <1>5, <1>6
  <2> QED BY <1>1, <1>3, <1>6, <1>7, <2>1, <2>2 DEF BatchInv
<1>10. EndInv' BY <1>1 DEF EndInv
<1> QED BY <1>2, <1>4, <1>8, <1>9, <1>10 DEF LimitInv

LEMMA NextBatchLimits == LimitInv /\ NextBatch => LimitInv'
<1> SUFFICES ASSUME LimitInv, NextBatch PROVE LimitInv' OBVIOUS
<1>1. /\ pc = "after" /\ pc' = "top" /\ lastBatch' = AdmittedCount
      /\ UNCHANGED <<gate, settings, expired, requested, drawn, points, room, rejected, completed,
                     analysed, scored, rows, unstarted, gateRejects, termination>>
  BY DEF NextBatch, envVars, scoreVars
<1>2. StageInv' BY StepStage DEF LimitInv, Next, Run
<1>3. AdmittedCount \in 0..BatchSize
  <2>1. AdmittedCount \in Nat /\ AdmittedCount <= room BY <1>1, BatchOnHand
  <2>2. room \in 0..BatchSize /\ BatchSize \in Nat
    BY ScreeningAssumption DEF LimitInv, FieldsInv
  <2> QED BY <2>1, <2>2
<1>4. FieldsInv' BY <1>1, <1>3 DEF LimitInv, FieldsInv
<1>5. \A p : /\ PassedCount(p)' = PassedCount(p) /\ RejectedCount(p)' = RejectedCount(p)
             /\ GoesOn(p)' <=> GoesOn(p)
  BY <1>1, SameSample
<1>6. DrawnInv' BY <1>1, <1>5 DEF LimitInv, DrawnInv
<1>7. BatchInv' /\ EndInv' BY <1>1 DEF BatchInv, EndInv
<1> QED BY <1>2, <1>4, <1>6, <1>7 DEF LimitInv

(* A stop changes nothing but the place and the reason.                    *)
LEMMA StopLimits ==
  ASSUME LimitInv, StageInv', NEW reason, Stop(reason),
         reason \in {"evaluation_budget", "pregate_exhausted", "time_budget", "cancelled"},
         EndInv'
  PROVE  LimitInv'
<1>1. /\ pc' = "done" /\ termination' = reason
      /\ UNCHANGED <<gate, settings, expired, requested, drawn, points, room, rejected, lastBatch,
                     completed, analysed, scored, rows, unstarted, gateRejects>>
  BY DEF Stop, envVars, drawVars, scoreVars
<1>2. FieldsInv' BY <1>1 DEF LimitInv, FieldsInv
<1>3. \A p : /\ PassedCount(p)' = PassedCount(p) /\ RejectedCount(p)' = RejectedCount(p)
             /\ GoesOn(p)' <=> GoesOn(p)
  BY <1>1, SameSample
<1>4. DrawnInv' BY <1>1, <1>3 DEF LimitInv, DrawnInv
<1>5. BatchInv' BY <1>1 DEF BatchInv
<1> QED BY <1>2, <1>4, <1>5 DEF LimitInv

(* At the loop head the analysed points are the passed ones drawn, and     *)
(* neither limit is exceeded.                                              *)
LEMMA AtTop ==
  ASSUME LimitInv, pc = "top"
  PROVE  /\ Len(scored) = drawn /\ analysed \in Nat /\ analysed <= settings.stop_after
         /\ rejected \in Int /\ rejected <= MaxRejects
<1>1. Len(scored) = drawn /\ drawn \in Nat BY DEF LimitInv, StageInv, SampleInv
<1>2. PassedCount(drawn) \in Nat BY <1>1, CountStep
<1> QED BY <1>1, <1>2 DEF LimitInv, DrawnInv, RejectedCount

LEMMA StepLimits == LimitInv /\ [Next]_vars => LimitInv'
<1> SUFFICES ASSUME LimitInv, [Next]_vars PROVE LimitInv' OBVIOUS
<1>0. StageInv' BY StepStage DEF LimitInv
<1>a. /\ settings.stop_after \in Nat /\ MaxRejects \in Nat
      /\ (~settings.timed => ~expired)
  BY ScreeningAssumption DEF LimitInv, FieldsInv, StageInv, CountInv
<1>1. ASSUME UNCHANGED <<gate, settings, pc, drawVars, scoreVars, termination>>,
             expired' \in BOOLEAN, requested' \in BOOLEAN, requested => requested'
      PROVE  LimitInv'
  <2>1. UNCHANGED <<gate, settings, pc, drawn, points, room, rejected, lastBatch, completed,
                    analysed, scored, rows, unstarted, gateRejects, termination>>
    BY <1>1 DEF drawVars, scoreVars
  <2>2. \A p : /\ PassedCount(p)' = PassedCount(p) /\ RejectedCount(p)' = RejectedCount(p)
               /\ GoesOn(p)' <=> GoesOn(p)
    BY <2>1, SameSample
  <2>3. FieldsInv' BY <1>1, <2>1 DEF LimitInv, FieldsInv
  <2>4. DrawnInv' BY <2>1, <2>2 DEF LimitInv, DrawnInv
  <2>5. BatchInv' BY <2>1, <2>2 DEF LimitInv, BatchInv
  <2>6. EndInv' BY <1>1, <2>1 DEF LimitInv, EndInv
  <2> QED BY <1>0, <2>3, <2>4, <2>5, <2>6 DEF LimitInv
<1>b. expired \in BOOLEAN /\ requested \in BOOLEAN BY DEF LimitInv, FieldsInv
<1>2. CASE UNCHANGED vars BY <1>1, <1>2, <1>b DEF vars, envVars
<1>3. CASE TimePasses
  <2>1. expired' = TRUE /\ requested' = requested BY <1>3 DEF TimePasses
  <2>2. expired' \in BOOLEAN /\ requested' \in BOOLEAN BY <1>b, <2>1
  <2> QED BY <1>1, <1>3, <2>1, <2>2 DEF TimePasses
<1>4. CASE Request
  <2>1. expired' = expired /\ requested' = TRUE BY <1>4 DEF Request
  <2>2. expired' \in BOOLEAN /\ requested' \in BOOLEAN BY <1>b, <2>1
  <2> QED BY <1>1, <1>4, <2>1, <2>2 DEF Request
<1>5. CASE BudgetReached
  <2>1. pc = "top" /\ analysed >= settings.stop_after /\ Stop("evaluation_budget")
    BY <1>5 DEF BudgetReached
  <2>2. Len(scored) = drawn /\ analysed = settings.stop_after BY <1>a, <2>1, AtTop
  <2>3. EndInv' BY <2>1, <2>2 DEF EndInv, Stop, drawVars, scoreVars, envVars
  <2> QED BY <1>0, <2>1, <2>3, StopLimits
<1>6. CASE CapReached
  <2>1. pc = "top" /\ analysed < settings.stop_after /\ rejected >= MaxRejects
        /\ Stop("pregate_exhausted")
    BY <1>6 DEF CapReached
  <2>2. Len(scored) = drawn /\ rejected = MaxRejects BY <1>a, <2>1, AtTop
  <2>3. EndInv' BY <2>1, <2>2 DEF EndInv, Stop, drawVars, scoreVars, envVars
  <2> QED BY <1>0, <2>1, <2>3, StopLimits
<1>7. CASE NoRoom
  <2>1. InBudget /\ 0 \in Rooms /\ Stop("time_budget") BY <1>7 DEF NoRoom
  <2>2. settings.timed BY <2>1, RoomIs
  <2>3. EndInv' BY <2>1, <2>2 DEF EndInv, Stop
  <2> QED BY <1>0, <2>1, <2>3, StopLimits
<1>8. CASE RequestAtTop
  <2>1. requested /\ Stop("cancelled") BY <1>8 DEF RequestAtTop
  <2>2. EndInv' BY <2>1 DEF EndInv, Stop, envVars
  <2> QED BY <1>0, <2>1, <2>2, StopLimits
<1>9. CASE StartBatch BY <1>9, StartBatchLimits
<1>10. CASE Draw BY <1>10, DrawLimits
<1>11. CASE Evaluate BY <1>11, EvaluateLimits
<1>12. CASE RequestAfterBatch
  <2>1. requested /\ Stop("cancelled") BY <1>12 DEF RequestAfterBatch
  <2>2. EndInv' BY <2>1 DEF EndInv, Stop, envVars
  <2> QED BY <1>0, <2>1, <2>2, StopLimits
<1>13. CASE TimeCutsBatch
  <2>1. pc = "after" /\ completed < Len(points) /\ Stop("time_budget")
    BY <1>13 DEF TimeCutsBatch, CutShort
  <2>2. settings.timed
    <3>1. Len(points) \in Nat /\ completed \in Nat BY DEF LimitInv, StageInv, SampleInv
    <3>2. completed # Len(points) BY <2>1, <3>1
    <3> QED BY <2>1, <3>2 DEF LimitInv, BatchInv
  <2>3. EndInv' BY <2>1, <2>2 DEF EndInv, Stop
  <2> QED BY <1>0, <2>1, <2>3, StopLimits
<1>14. CASE NextBatch BY <1>14, NextBatchLimits
<1> QED BY <1>2, <1>3, <1>4, <1>5, <1>6, <1>7, <1>8, <1>9, <1>10, <1>11, <1>12, <1>13, <1>14
        DEF Next, Run


LEMMA LimitsHold == Spec => []LimitInv
BY InitLimits, StepLimits, PTL DEF Spec

-----------------------------------------------------------------------------
(* What the limits give.                                                   *)

(* The sample is as long as both limits together, and no draw is past it.  *)
LEMMA InSample ==
  ASSUME LimitInv
  PROVE  /\ drawn \in 0..Cardinality(Sample) /\ 1..drawn \subseteq Sample
         /\ Cardinality(Sample) = MaxEvaluations + MaxRejects
<1>1. MaxEvaluations \in Nat /\ MaxRejects \in Nat BY ScreeningAssumption
<1>2. Cardinality(Sample) = MaxEvaluations + MaxRejects
  <2> DEFINE n == MaxEvaluations + MaxRejects
  <2>1. n \in Nat /\ 1 \in Int /\ n \in Int BY <1>1
  <2> HIDE DEF n
  <2>2. Cardinality(1..n) = n BY <2>1, FS_Interval
  <2> QED BY <2>2 DEF Sample, n
<1>3. /\ drawn \in Nat /\ PassedCount(drawn) <= settings.stop_after
      /\ drawn - PassedCount(drawn) <= MaxRejects
      /\ settings.stop_after \in Nat /\ settings.stop_after <= MaxEvaluations
  BY <1>1 DEF LimitInv, StageInv, SampleInv, DrawnInv, FieldsInv, RejectedCount
<1>4. PassedCount(drawn) \in Nat BY <1>3, CountStep
<1>5. drawn <= MaxEvaluations + MaxRejects BY <1>1, <1>3, <1>4
<1> QED BY <1>1, <1>2, <1>3, <1>5 DEF Sample

(* No more points are analysed than the stage was asked for: those scored  *)
(* are among those drawn.                                                  *)
LEMMA AnalysedWithin == LimitInv => analysed <= settings.stop_after
<1> SUFFICES ASSUME LimitInv PROVE analysed <= settings.stop_after OBVIOUS
<1> DEFINE n == Len(scored)
<1>1. /\ n \in Nat /\ drawn \in Nat /\ n <= drawn /\ analysed = PassedCount(n)
      /\ PassedCount(drawn) <= settings.stop_after /\ settings.stop_after \in Nat
  BY DEF LimitInv, StageInv, SampleInv, DrawnInv, FieldsInv
<1> HIDE DEF n
<1>2. IsFiniteSet(Passed(drawn))
  <2>1. IsFiniteSet(1..drawn) /\ Passed(drawn) \subseteq 1..drawn BY <1>1, FS_Interval DEF Passed
  <2> QED BY <2>1, FS_Subset
<1>3. Passed(n) \subseteq Passed(drawn) BY <1>1 DEF Passed
<1>4. PassedCount(n) <= PassedCount(drawn) BY <1>2, <1>3, FS_Subset DEF PassedCount
<1>5. PassedCount(n) \in Nat /\ PassedCount(drawn) \in Nat BY <1>1, CountStep
<1> QED BY <1>1, <1>4, <1>5

(* TypeOK: both limits bound every counter, so that the stage draws no     *)
(* point behind the one that meets a limit (screening.rs, run).            *)
THEOREM TypeTheorem == Spec => []TypeOK
<1>1. LimitInv => TypeOK
  <2> SUFFICES ASSUME LimitInv PROVE TypeOK OBVIOUS
  <2>1. drawn \in 0..Cardinality(Sample) /\ 1..drawn \subseteq Sample BY InSample
  <2>2. /\ points \in Seq(Nat) /\ scored \in Seq(Nat) /\ drawn \in Nat /\ completed \in Nat
        /\ pc \in {"top", "draw", "after", "done"} /\ \A i \in 1..Len(scored) : scored[i] = i
        /\ analysed \in Nat /\ rows \in Nat /\ gateRejects \in Int
        /\ Len(scored) = analysed + gateRejects
    BY DEF LimitInv, StageInv, SampleInv, CountInv
  <2>3. /\ Len(scored) <= drawn /\ analysed = PassedCount(Len(scored))
        /\ rejected = RejectedCount(drawn) /\ rejected <= MaxRejects
        /\ \A i \in 1..Len(points) : points[i] \in 1..drawn
    BY DEF LimitInv, DrawnInv
  <2>4. Len(scored) \in Nat /\ Len(points) \in Nat BY <2>2
  <2>5. points \in Seq(Sample)
    <3>1. \A i \in 1..Len(points) : points[i] \in Sample BY <2>1, <2>3
    <3>2. points = [i \in 1..Len(points) |-> points[i]] BY <2>2
    <3> QED BY <2>4, <3>1, <3>2
  <2>6. scored \in Seq(Sample)
    <3>1. \A i \in 1..Len(scored) : scored[i] \in Sample
      <4> SUFFICES ASSUME NEW i \in 1..Len(scored) PROVE scored[i] \in Sample OBVIOUS
      <4>1. i \in 1..drawn BY <2>2, <2>3, <2>4
      <4> QED BY <2>1, <2>2, <4>1
    <3>2. scored = [i \in 1..Len(scored) |-> scored[i]] BY <2>2
    <3> QED BY <2>4, <3>1, <3>2
  <2>7. gateRejects \in Nat
    <3>1. PassedCount(Len(scored)) <= Len(scored) BY <2>4, CountStep
    <3> QED BY <2>2, <2>3, <2>4, <3>1
  <2>8. rejected \in 0..MaxRejects
    <3>1. PassedCount(drawn) \in Nat /\ PassedCount(drawn) <= drawn BY <2>2, CountStep
    <3>2. MaxRejects \in Nat BY ScreeningAssumption
    <3> QED BY <2>2, <2>3, <3>1, <3>2 DEF RejectedCount
  <2>9. analysed \in 0..MaxEvaluations
    <3> DEFINE S == settings.stop_after
    <3>1. S \in Nat /\ S <= MaxEvaluations /\ MaxEvaluations \in Nat
      BY ScreeningAssumption DEF LimitInv, FieldsInv
    <3>2. analysed <= S BY AnalysedWithin
    <3> QED BY <2>2, <3>1, <3>2
  <2> QED BY <2>1, <2>2, <2>5, <2>6, <2>7, <2>8, <2>9 DEF TypeOK, LimitInv, FieldsInv
<1> QED BY <1>1, LimitsHold, PTL

(* UntimedRunIsSequential: without a clock and a request, the batches give *)
(* the result of the sequential loop, both limits exact to the point       *)
(* (screening.rs, run).                                                    *)
THEOREM SequentialTheorem == Spec => []UntimedRunIsSequential
<1>1. LimitInv => UntimedRunIsSequential
  <2> SUFFICES ASSUME LimitInv, pc = "done", ~settings.timed, ~requested
               PROVE  LET d == SequentialDraws(settings.stop_after)
                      IN  /\ Len(scored) = d
                          /\ analysed = Cardinality(Passed(d))
                          /\ termination = IF analysed = settings.stop_after
                                           THEN "evaluation_budget" ELSE "pregate_exhausted"
    BY DEF UntimedRunIsSequential
  <2>1. /\ Len(scored) = drawn /\ drawn \in Nat
        /\ \/ termination = "evaluation_budget" /\ analysed = settings.stop_after
           \/ /\ termination = "pregate_exhausted" /\ analysed < settings.stop_after
              /\ rejected = MaxRejects
    BY DEF LimitInv, EndInv, StageInv, SampleInv
  <2>2. /\ analysed = PassedCount(drawn) /\ rejected = RejectedCount(drawn)
        /\ \A e \in Nat : e < drawn => GoesOn(e)
    BY <2>1 DEF LimitInv, DrawnInv
  <2>3. /\ settings.stop_after \in Nat \ {0} /\ MaxRejects \in Nat \ {0} /\ analysed \in Nat
    BY ScreeningAssumption DEF LimitInv, FieldsInv, StageInv, CountInv
  <2>4. drawn \in Sample
    <3>1. 1..drawn \subseteq Sample BY InSample
    <3>2. drawn # 0
      <4>1. PassedCount(0) = 0 /\ RejectedCount(0) = 0 BY CountStep DEF RejectedCount
      <4> QED BY <2>1, <2>2, <2>3, <4>1
    <3> QED BY <2>1, <3>1, <3>2
  <2>5. SequentialDraws(settings.stop_after) = drawn
    <3>1. \A e \in Nat : e < drawn =>
            PassedCount(e) < settings.stop_after /\ RejectedCount(e) < MaxRejects
      BY <2>2 DEF GoesOn
    <3>2. PassedCount(drawn) = settings.stop_after \/ RejectedCount(drawn) = MaxRejects
      BY <2>1, <2>2
    <3> QED BY <2>1, <2>3, <2>4, <3>1, <3>2, SequentialIs DEF LimitInv
  <2> QED BY <2>1, <2>2, <2>3, <2>5 DEF PassedCount
<1> QED BY <1>1, LimitsHold, PTL

(* ReplayAnalysesTheSame: the points a stage analysed before its clock     *)
(* stopped it are the ones its replay analyses, wherever the clock cut the *)
(* last batch (screening.rs, run; batch.rs, resolve_prefix).               *)
THEOREM ReplayTheorem == Spec => []ReplayAnalysesTheSame
<1>1. LimitInv => ReplayAnalysesTheSame
  <2> SUFFICES ASSUME LimitInv, analysed > 0
               PROVE  {scored[i] : i \in {j \in 1..Len(scored) : gate[scored[j]]}}
                        = Passed(SequentialDraws(analysed))
    BY DEF ReplayAnalysesTheSame
  <2> DEFINE n == Len(scored)
             Enough == {p \in Nat : PassedCount(p) >= analysed}
  <2>1. /\ n \in Nat /\ drawn \in Nat /\ n <= drawn /\ analysed = PassedCount(n)
        /\ analysed \in Nat \ {0} /\ (\A i \in 1..n : scored[i] = i)
        /\ \A e \in Nat : e < drawn => GoesOn(e)
    BY DEF LimitInv, StageInv, SampleInv, CountInv, DrawnInv
  <2>2. n \in Enough BY <2>1
  <2>3. PICK d \in Enough : \A p \in Enough : d <= p
    <3>1. Enough \in SUBSET Nat /\ Enough # {} BY <2>2
    <3> HIDE DEF Enough
    <3> QED BY <3>1, LeastIsIn
  <2>4. d \in Nat /\ PassedCount(d) >= analysed /\ d <= n
    BY <2>2, <2>3
  <2> HIDE DEF n
  <2>5. d > 0
    <3>1. PassedCount(0) = 0 BY CountStep
    <3>2. d # 0 BY <2>1, <2>4, <3>1
    <3> QED BY <2>4, <3>2
  <2>6. \A e \in Nat : e < d => PassedCount(e) < analysed
    <3> SUFFICES ASSUME NEW e \in Nat, e < d PROVE PassedCount(e) < analysed OBVIOUS
    <3>1. e \notin Enough BY <2>3, <2>4
    <3>2. PassedCount(e) \in Nat BY CountStep
    <3> QED BY <2>1, <3>1, <3>2
  <2>7. Passed(d) \subseteq Passed(n) BY <2>1, <2>4 DEF Passed
  <2>8. IsFiniteSet(Passed(n))
    <3>1. IsFiniteSet(1..n) /\ Passed(n) \subseteq 1..n BY <2>1, FS_Interval DEF Passed
    <3> QED BY <3>1, FS_Subset
  <2>9. Passed(d) = Passed(n) /\ PassedCount(d) = analysed
    <3>1. IsFiniteSet(Passed(d)) /\ Cardinality(Passed(d)) <= Cardinality(Passed(n))
          /\ (Cardinality(Passed(d)) = Cardinality(Passed(n)) => Passed(d) = Passed(n))
      BY <2>7, <2>8, FS_Subset
    <3>2. PassedCount(d) \in Nat BY <2>4, CountStep
    <3>3. PassedCount(d) <= analysed BY <2>1, <3>1 DEF PassedCount
    <3>4. PassedCount(d) = analysed BY <2>1, <2>4, <3>2, <3>3
    <3> QED BY <2>1, <3>1, <3>4 DEF PassedCount
  <2>10. SequentialDraws(analysed) = d
    <3>1. \A e \in Nat : e < d => PassedCount(e) < analysed /\ RejectedCount(e) < MaxRejects
      <4> SUFFICES ASSUME NEW e \in Nat, e < d PROVE RejectedCount(e) < MaxRejects
        BY <2>6
      <4>1. e < drawn BY <2>1, <2>4
      <4> QED BY <2>1, <4>1 DEF GoesOn
    <3>2. d \in Sample
      <4>1. d \in 1..drawn BY <2>1, <2>4, <2>5
      <4> QED BY <4>1, InSample
    <3> QED BY <2>1, <2>4, <2>9, <3>1, <3>2, SequentialIs DEF LimitInv
  <2>11. {scored[i] : i \in {j \in 1..n : gate[scored[j]]}} = Passed(n)
    BY <2>1 DEF Passed
  <2> QED BY <2>9, <2>10, <2>11 DEF n
<1> QED BY <1>1, LimitsHold, PTL

-----------------------------------------------------------------------------
(* The stage comes to an end.  An iteration that draws nothing met the     *)
(* deadline or a request between the loop head and the first draw, and the *)
(* next look at the loop head returns: so every step of the loop costs one *)
(* of a number of steps fixed from the start.                              *)

StepsInBatch ==
  CASE pc = "draw"  -> IF points = <<>> THEN 4 ELSE 7
    [] pc = "after" -> IF points = <<>> THEN 3 ELSE 6
    [] pc = "top"   -> IF expired \/ requested THEN 2 ELSE 5
    [] pc = "done"  -> 0

(* The points that may still be drawn, and the steps left.                 *)
PointsLeft == MaxEvaluations + MaxRejects - drawn
StepsLeft  == 6 * PointsLeft + StepsInBatch

EveryStepCounts ==
  [][IF Run THEN StepsLeft' < StepsLeft ELSE StepsLeft' <= StepsLeft]_vars

(* A batch without a point.                                                *)
EmptyInv ==
  points = <<>> => /\ pc = "draw" => room > 0 /\ rejected < MaxRejects
                   /\ pc = "after" => expired \/ requested

MeasureInv == LimitInv /\ EmptyInv

LEMMA StepEmpty == MeasureInv /\ [Next]_vars => MeasureInv'
<1> SUFFICES ASSUME MeasureInv, [Next]_vars PROVE MeasureInv' OBVIOUS
<1>0. LimitInv' BY StepLimits DEF MeasureInv
<1> SUFFICES EmptyInv' BY <1>0 DEF MeasureInv
<1> USE DEF EmptyInv
<1>a. EmptyInv /\ LimitInv BY DEF MeasureInv
<1>1. CASE UNCHANGED vars BY <1>1, <1>a DEF vars, envVars, drawVars
<1>2. CASE TimePasses BY <1>2, <1>a DEF TimePasses, drawVars
<1>3. CASE Request BY <1>3, <1>a DEF Request, drawVars
<1>4. ASSUME NEW reason, Stop(reason) PROVE EmptyInv' BY <1>4 DEF Stop
<1>5. CASE StartBatch
  <2>1. InBudget /\ pc' = "draw" /\ rejected' = rejected /\ room' \in Rooms \ {0}
    BY <1>5 DEF StartBatch
  <2>2. room' \in Nat BY <1>a, <2>1, RoomIs, ScreeningAssumption
  <2> QED BY <2>1, <2>2 DEF InBudget
<1>6. CASE Draw
  <2>1. points \in Seq(Nat) /\ points' = Append(points, drawn + 1) /\ drawn \in Nat
    BY <1>6, <1>a DEF Draw, LimitInv, StageInv, SampleInv
  <2>2. points' # <<>> BY <2>1
  <2> QED BY <2>2
<1>7. CASE Evaluate
  <2>1. pc = "draw" /\ ~Draws /\ UNCHANGED <<points, expired, requested, room, rejected>>
        /\ pc' = "after"
    BY <1>7 DEF Evaluate, drawVars, envVars
  <2>2. points = <<>> => AdmittedCount = 0 BY PassedPoints DEF AdmittedCount
  <2> QED BY <1>a, <2>1, <2>2 DEF Draws
<1>8. CASE NextBatch BY <1>8 DEF NextBatch
<1> QED BY <1>1, <1>2, <1>3, <1>4, <1>5, <1>6, <1>7, <1>8
        DEF Next, Run, BudgetReached, CapReached, NoRoom, RequestAtTop, RequestAfterBatch,
            TimeCutsBatch

LEMMA PointsLeftIs ==
  ASSUME LimitInv
  PROVE  /\ PointsLeft \in Nat
         /\ drawn' = drawn => PointsLeft' = PointsLeft
         /\ drawn' = drawn + 1 => PointsLeft' = PointsLeft - 1
<1>1. MaxEvaluations \in Nat /\ MaxRejects \in Nat BY ScreeningAssumption
<1>2. PICK all \in Nat : all = MaxEvaluations + MaxRejects BY <1>1
<1>3. drawn \in Nat /\ drawn <= all BY <1>2, InSample
<1>4. PointsLeft = all - drawn BY <1>1, <1>2, <1>3 DEF PointsLeft
<1>5. drawn' \in Nat => PointsLeft' = all - drawn' BY <1>1, <1>2 DEF PointsLeft
<1> QED BY <1>3, <1>4, <1>5

LEMMA StepsLeftIs ==
  ASSUME LimitInv
  PROVE  StepsInBatch \in 0..7 /\ StepsLeft = 6 * PointsLeft + StepsInBatch
<1>1. pc \in {"top", "draw", "after", "done"} BY DEF LimitInv, StageInv, SampleInv
<1> QED BY <1>1 DEF StepsInBatch, StepsLeft

LEMMA FewerInBatch ==
  ASSUME LimitInv, LimitInv', drawn' = drawn
  PROVE  /\ StepsInBatch' < StepsInBatch => StepsLeft' < StepsLeft
         /\ StepsInBatch' <= StepsInBatch => StepsLeft' <= StepsLeft
<1>1. StepsInBatch' \in 0..7 /\ StepsLeft' = 6 * PointsLeft' + StepsInBatch'
  <2>1. pc' \in {"top", "draw", "after", "done"} BY DEF LimitInv, StageInv, SampleInv
  <2> QED BY <2>1 DEF StepsInBatch, StepsLeft
<1>2. PICK left \in Nat : left = 6 * PointsLeft /\ left = 6 * PointsLeft' BY PointsLeftIs
<1>3. PICK now \in Nat : now = StepsInBatch BY StepsLeftIs
<1>4. PICK then \in Nat : then = StepsInBatch' BY <1>1
<1>5. StepsLeft = left + now /\ StepsLeft' = left + then BY <1>1, <1>2, <1>3, <1>4, StepsLeftIs
<1> QED BY <1>2, <1>3, <1>4, <1>5

LEMMA StepCounts ==
  ASSUME MeasureInv, MeasureInv', [Next]_vars
  PROVE  [IF Run THEN StepsLeft' < StepsLeft ELSE StepsLeft' <= StepsLeft]_vars
<1>0. LimitInv /\ LimitInv' /\ EmptyInv BY DEF MeasureInv
<1>1. ASSUME NEW reason, Stop(reason), pc \in {"top", "after"} PROVE StepsLeft' < StepsLeft
  <2>1. StepsInBatch' = 0 /\ StepsInBatch > 0 /\ drawn' = drawn
    BY <1>1 DEF Stop, StepsInBatch, drawVars
  <2> QED BY <1>0, <2>1, FewerInBatch
<1>2. CASE TimePasses \/ Request
  <2>1. /\ UNCHANGED <<pc, points, drawn>>
        /\ (expired \/ requested) => (expired' \/ requested')
    BY <1>2 DEF TimePasses, Request, drawVars
  <2>2. pc \in {"top", "draw", "after", "done"} BY <1>0 DEF LimitInv, StageInv, SampleInv
  <2>3. StepsInBatch' <= StepsInBatch BY <2>1, <2>2 DEF StepsInBatch
  <2>4. StepsLeft' <= StepsLeft BY <1>0, <2>1, <2>3, FewerInBatch
  <2>5. ~Run
    BY <1>2 DEF TimePasses, Request, Run, BudgetReached, CapReached, NoRoom, RequestAtTop,
                StartBatch, Draw, Evaluate, RequestAfterBatch, TimeCutsBatch, NextBatch,
                InBudget, Stop, envVars
  <2> QED BY <2>4, <2>5
<1>3. CASE StartBatch
  <2>1. /\ InBudget /\ pc = "top" /\ pc' = "draw" /\ ~requested /\ points' = <<>>
        /\ drawn' = drawn /\ room' \in Rooms \ {0}
    BY <1>3 DEF StartBatch, InBudget
  <2>2. ~expired
    <3>1. SUFFICES ASSUME expired PROVE FALSE OBVIOUS
    <3>2. settings.timed BY <1>0, <3>1 DEF LimitInv, StageInv, CountInv
    <3>3. Rooms = {WithinBudget(0)} BY <3>1, <3>2 DEF Rooms, Fitted, NoTimeLeft
    <3>4. settings.stop_after - analysed \in Nat
      BY <1>0, <2>1, ScreeningAssumption, SMTT(30)
      DEF InBudget, LimitInv, FieldsInv, StageInv, CountInv
    <3>5. WithinBudget(0) = 0 BY <3>4 DEF WithinBudget, Least
    <3> QED BY <2>1, <3>3, <3>5
  <2>3. StepsInBatch' = 4 /\ StepsInBatch = 5 BY <2>1, <2>2 DEF StepsInBatch
  <2> QED BY <1>0, <1>3, <2>1, <2>3, FewerInBatch DEF Run
<1>4. CASE Draw
  <2>1. /\ pc = "draw" /\ pc' = "draw" /\ drawn' = drawn + 1
    BY <1>4 DEF Draw
  <2>2. StepsInBatch \in {4, 7} /\ StepsInBatch' \in {4, 7} BY <2>1 DEF StepsInBatch
  <2>3. PICK left \in Nat : left = PointsLeft /\ PointsLeft' = left - 1
    BY <1>0, <2>1, PointsLeftIs
  <2>4. StepsLeft = 6 * left + StepsInBatch /\ StepsLeft' = 6 * (left - 1) + StepsInBatch'
    BY <2>3 DEF StepsLeft
  <2>5. PICK now \in {4, 7}, then \in {4, 7} : now = StepsInBatch /\ then = StepsInBatch'
    BY <2>2
  <2>6. StepsLeft' < StepsLeft
    <3>1. StepsLeft = 6 * left + now /\ StepsLeft' = 6 * (left - 1) + then BY <2>4, <2>5
    <3>2. left \in Nat /\ now \in Nat /\ then \in Nat /\ now >= 4 /\ then <= 7 BY <2>5
    <3>3. 6 * (left - 1) = 6 * left - 6 BY <3>2
    <3> QED BY <3>1, <3>2, <3>3
  <2> QED BY <1>4, <2>6 DEF Run
<1>5. CASE Evaluate
  <2>1. pc = "draw" /\ pc' = "after" /\ points' = points /\ drawn' = drawn
    BY <1>5 DEF Evaluate, drawVars
  <2>2. StepsInBatch' < StepsInBatch BY <2>1 DEF StepsInBatch
  <2> QED BY <1>0, <1>5, <2>1, <2>2, FewerInBatch DEF Run
<1>6. CASE NextBatch
  <2>1. /\ pc = "after" /\ pc' = "top" /\ drawn' = drawn /\ UNCHANGED <<expired, requested>>
    BY <1>6 DEF NextBatch, envVars
  <2>2. StepsInBatch' < StepsInBatch BY <1>0, <2>1 DEF StepsInBatch, EmptyInv
  <2> QED BY <1>0, <1>6, <2>1, <2>2, FewerInBatch DEF Run
<1> QED BY <1>1, <1>2, <1>3, <1>4, <1>5, <1>6
        DEF Next, Run, BudgetReached, CapReached, NoRoom, RequestAtTop, RequestAfterBatch,
            TimeCutsBatch, InBudget

(* EveryStepCounts: no more than 6 * (MaxEvaluations + MaxRejects) + 5     *)
(* steps of the loop are possible, whatever the clock and the lanes do and *)
(* however many batches the deadline empties (screening.rs, run).          *)
THEOREM EndTheorem == Spec => [](StepsLeft \in Nat) /\ EveryStepCounts
<1>1. Init => MeasureInv BY InitLimits DEF MeasureInv, EmptyInv, Init
<1>2. MeasureInv => StepsLeft \in Nat BY StepsLeftIs, PointsLeftIs DEF MeasureInv
<1> QED BY <1>1, <1>2, StepEmpty, StepCounts, PTL DEF Spec, EveryStepCounts
=============================================================================
