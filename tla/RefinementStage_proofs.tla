----------------------- MODULE RefinementStage_proofs -----------------------
(***************************************************************************)
(* Proofs about RefinementStage, for every budget, schedule, reserve,      *)
(* rejection cap, population and number of polls.                          *)
(*                                                                         *)
(* WaveLeaves says what one batch does whatever cuts it; the invariant     *)
(* then says what the counters and the log are at each place of the stage: *)
(* within the stop of each phase and the cap they share (CountInv), and    *)
(* in whole batches wherever another one may follow (LogInv).              *)
(*                                                                         *)
(* The replay needs more.  RunInv says that the logs alone tell where a    *)
(* run stands, because every guard it passed is a function of the points   *)
(* scored before; RecordInv, that the counts a replay stops at are those   *)
(* of such logs; FollowInv, that the replay has sent the first of the      *)
(* recorded batches.  A phase that still may analyse has then a recorded   *)
(* batch before it (FollowFacts), whose guards are the ones the replay     *)
(* meets (KernelGoesOn, RestorationGoesOn), and cuts it at the same point  *)
(* (ReplayWave).                                                           *)
(*                                                                         *)
(* StepsLeft is a number that every step but a request lowers.             *)
(***************************************************************************)
EXTENDS RefinementStage, FiniteSetTheorems, TLAPS

Settings == [budget : Budgets, schedule : Schedules, timed : BOOLEAN, intra : BOOLEAN,
             stagnates : 0..1, gradient : BOOLEAN]

FieldsInv ==
  /\ setting \in Settings
  /\ sample \in [Phases -> Seq(Kinds)] /\ run \in {"original", "replay"}
  /\ stop \in [Phases -> 0..Budget]
  /\ pc \in {"enter", "initial", "top", "generation", "restore", "poll", "polled", "tried",
             "done", "unreplayable"}
  /\ expired \in BOOLEAN /\ requested \in BOOLEAN
  /\ size \in Floor..Initial /\ generations \in Nat /\ polls \in 0..MaxPolls
  /\ pc = "polled" => polls < MaxPolls
  /\ limit \in Nat
  /\ analysed \in [Phases -> Nat] /\ rejects \in [Phases -> Nat]
  /\ log \in [Phases -> Seq(Batch)]
  /\ termination \in {"evaluation_budget", "pregate_exhausted", "time_budget", "cancelled",
                      "stagnated"}

(* The batches of a phase follow one another, up to its counters, and      *)
(* every point they scored was drawn.                                      *)
BatchInv ==
  \A p \in Phases :
    /\ Base(p) <= Len(sample[p])
    /\ Base(p) = End(p, Len(log[p]))
    /\ \A i \in 1..Len(log[p]) : /\ log[p][i].from = End(p, i - 1)
                                 /\ log[p][i].drawn > 0
                                 /\ log[p][i].scored <= log[p][i].drawn

Polling == pc \in {"poll", "polled", "tried"}
Before  == pc \in {"enter", "initial", "top", "generation", "restore"}

CountInv ==
  /\ Total <= Budget
  /\ analysed["kernel"] <= stop["kernel"]
  /\ run = "replay" => stop["kernel"] + stop["restoration"] <= Budget
  /\ Polling => /\ analysed["kernel"] + stop["restoration"] <= Budget
                /\ analysed["restoration"] <= stop["restoration"]
  /\ Before => /\ analysed["restoration"] = 0 /\ rejects["restoration"] = 0
               /\ log["restoration"] = <<>> /\ limit = 0
  /\ pc = "enter" => /\ analysed["kernel"] = 0 /\ rejects["kernel"] = 0
                     /\ log["kernel"] = <<>>
  /\ rejects["kernel"] < MaxRejects + Initial
  /\ limit <= Minus(MaxRejects, rejects["kernel"])
  /\ Base("restoration") <= limit
  /\ ~FoundValid => analysed["kernel"] <= Most(Initial, Minus(Schedule, Reserve))

Whole(p, n) == \A i \in 1..n : log[p][i].scored = log[p][i].drawn

LogInv ==
  /\ \A p \in Phases : Whole(p, Len(log[p]) - 1)
  /\ pc \in {"initial", "generation"} => log["kernel"] # <<>>
  /\ pc \in {"polled", "tried"} => log["restoration"] # <<>>
  /\ pc = "top" => Whole("kernel", Len(log["kernel"]))
  /\ pc \in {"poll", "tried"} =>
       Whole("restoration", Len(log["restoration"])) \/ (Timed /\ expired)

StageInv == FieldsInv /\ BatchInv /\ CountInv /\ LogInv

-----------------------------------------------------------------------------
(* The longest prefix of a batch that passes no more than it may. *)

LEMMA LeastIsIn ==
  ASSUME NEW S \in SUBSET Nat, S # {}
  PROVE  \E least \in S : \A n \in S : least <= n
<1> DEFINE Less == {ss \in Nat \X Nat : ss[1] < ss[2]}
<1>1. IsWellFoundedOn(Less, Nat) BY NatLessThanWellFounded, Zenon DEF OpToRel
<1>2. PICK least \in S : \A n \in S : ~(<<n, least>> \in Less)
  <2> HIDE DEF Less
  <2> QED BY <1>1, WFMin
<1>3. ASSUME NEW n \in S PROVE least <= n
  <2>1. least \in Nat /\ n \in Nat OBVIOUS
  <2>2. ~(n < least) BY <1>2, <2>1
  <2> QED BY <2>1, <2>2
<1> QED BY <1>3

LEMMA LargestExists ==
  ASSUME NEW n \in Nat, NEW S \in SUBSET (0..n), S # {}
  PROVE  Max(S) \in S /\ \A y \in S : Max(S) >= y
<1> DEFINE T == {n - c : c \in S}
<1>1. T \in SUBSET Nat /\ T # {}
  <2>1. \A c \in S : n - c \in Nat OBVIOUS
  <2>2. PICK c \in S : TRUE OBVIOUS
  <2>3. n - c \in T OBVIOUS
  <2> QED BY <2>1, <2>3
<1>2. PICK m \in T : \A y \in T : m <= y
  <2> HIDE DEF T
  <2> QED BY <1>1, LeastIsIn
<1>3. PICK x \in S : m = n - x BY <1>2
<1>4. ASSUME NEW y \in S PROVE x >= y
  <2>1. n - y \in T /\ n - y \in Nat /\ m \in Nat BY <1>1, <1>2
  <2>2. m <= n - y BY <1>2, <2>1
  <2> QED BY <1>3, <2>2
<1> QED BY <1>4 DEF Max

LEMMA PassedPoints ==
  ASSUME NEW s, NEW b \in Nat, NEW c \in Nat
  PROVE  Passed(s, b, c) \in 0..c
<1> DEFINE P == {i \in (b + 1)..(b + c) : s[i] # "rejected"}
<1>1. IsFiniteSet((b + 1)..(b + c)) /\ P \in SUBSET ((b + 1)..(b + c))
  BY FS_Interval
<1>2. Cardinality((b + 1)..(b + c)) = c
  <2>1. b + 1 \in Int /\ b + c \in Int OBVIOUS
  <2>2. Cardinality((b + 1)..(b + c)) = IF b + 1 > b + c THEN 0 ELSE (b + c) - (b + 1) + 1
    BY <2>1, FS_Interval
  <2> QED BY <2>2
<1>3. IsFiniteSet(P) /\ Cardinality(P) <= Cardinality((b + 1)..(b + c))
  <2> HIDE DEF P
  <2> QED BY <1>1, FS_Subset
<1>4. Cardinality(P) \in Nat BY <1>3, FS_CardinalityType
<1>5. Passed(s, b, c) = Cardinality(P) BY DEF Passed
<1> HIDE DEF P
<1> QED BY <1>2, <1>3, <1>4, <1>5

PassedSet(s, b, c) == {i \in (b + 1)..(b + c) : s[i] # "rejected"}

LEMMA PassedIsFinite ==
  ASSUME NEW s, NEW b \in Nat, NEW c \in Nat
  PROVE  /\ IsFiniteSet(PassedSet(s, b, c)) /\ Cardinality(PassedSet(s, b, c)) \in Nat
         /\ Passed(s, b, c) = Cardinality(PassedSet(s, b, c))
<1>1. IsFiniteSet((b + 1)..(b + c)) BY FS_Interval
<1>2. PassedSet(s, b, c) \in SUBSET ((b + 1)..(b + c)) BY DEF PassedSet
<1>3. IsFiniteSet(PassedSet(s, b, c)) BY <1>1, <1>2, FS_Subset
<1> QED BY <1>3, FS_CardinalityType DEF Passed, PassedSet

LEMMA PassedAdds ==
  ASSUME NEW s, NEW b \in Nat, NEW c \in Nat
  PROVE  Passed(s, 0, b + c) = Passed(s, 0, b) + Passed(s, b, c)
<1> DEFINE S == PassedSet(s, 0, b)
           T == PassedSet(s, b, c)
<1>1. IsFiniteSet(S) /\ IsFiniteSet(T) BY PassedIsFinite
<1>2. S \cap T = {} BY DEF PassedSet
<1>3. S \cup T = PassedSet(s, 0, b + c) BY DEF PassedSet
<1>4. Cardinality(S) = Passed(s, 0, b) /\ Cardinality(T) = Passed(s, b, c)
  BY PassedIsFinite
<1>5. Cardinality(PassedSet(s, 0, b + c)) = Passed(s, 0, b + c)
  <2>1. b + c \in Nat OBVIOUS
  <2> QED BY <2>1, PassedIsFinite
<1>6. Cardinality(S) \in Nat /\ Cardinality(T) \in Nat BY PassedIsFinite
<1> HIDE DEF S, T
<1>7. Cardinality(S \cup T) = Cardinality(S) + Cardinality(T) - Cardinality(S \cap T)
  BY <1>1, FS_Union
<1>8. Cardinality(S \cap T) = 0 BY <1>2, FS_EmptySet
<1>9. Cardinality(S \cup T) = Cardinality(S) + Cardinality(T) BY <1>6, <1>7, <1>8
<1> QED BY <1>3, <1>4, <1>5, <1>9, Zenon

LEMMA PassedGrows ==
  ASSUME NEW s, NEW b \in Nat, NEW c \in Nat, NEW d \in Nat, c <= d
  PROVE  /\ Passed(s, b, c) <= Passed(s, b, d)
         /\ Passed(s, b, c) = Passed(s, b, d) =>
              \A i \in (b + c + 1)..(b + d) : s[i] = "rejected"
<1> DEFINE S == PassedSet(s, b, c)
           T == PassedSet(s, b, d)
<1>1. IsFiniteSet(T) /\ S \in SUBSET T
  <2>1. S \in SUBSET T BY DEF PassedSet
  <2> QED BY <2>1, PassedIsFinite
<1>2. Cardinality(S) = Passed(s, b, c) /\ Cardinality(T) = Passed(s, b, d)
  BY PassedIsFinite
<1>3. ASSUME S = T, NEW i \in (b + c + 1)..(b + d) PROVE s[i] = "rejected"
  <2>1. i \in (b + 1)..(b + d) /\ i \notin (b + 1)..(b + c) OBVIOUS
  <2>2. i \notin S BY <2>1 DEF PassedSet
  <2>3. i \notin T BY <1>3, <2>2
  <2> QED BY <2>1, <2>3 DEF PassedSet
<1> HIDE DEF S, T
<1>4. Cardinality(S) <= Cardinality(T) /\ (Cardinality(T) = Cardinality(S) => T = S)
  BY <1>1, FS_Subset
<1> QED BY <1>2, <1>3, <1>4

LEMMA PassedNext ==
  ASSUME NEW s, NEW b \in Nat, NEW c \in Nat
  PROVE  /\ s[b + c + 1] # "rejected" => Passed(s, b, c + 1) = Passed(s, b, c) + 1
         /\ s[b + c + 1] = "rejected" => Passed(s, b, c + 1) = Passed(s, b, c)
<1> DEFINE S == PassedSet(s, b, c)
           T == PassedSet(s, b, c + 1)
<1>1. IsFiniteSet(S) /\ Cardinality(S) = Passed(s, b, c) BY PassedIsFinite
<1>2. Cardinality(T) = Passed(s, b, c + 1)
  <2>1. c + 1 \in Nat OBVIOUS
  <2> QED BY <2>1, PassedIsFinite
<1>3. b + c + 1 \notin S BY DEF PassedSet
<1>4. s[b + c + 1] # "rejected" => T = S \cup {b + c + 1} BY DEF PassedSet
<1>5. s[b + c + 1] = "rejected" => T = S BY DEF PassedSet
<1> HIDE DEF S, T
<1>6. Cardinality(S \cup {b + c + 1}) = Cardinality(S) + 1 BY <1>1, <1>3, FS_AddElement
<1> QED BY <1>1, <1>2, <1>4, <1>5, <1>6

LEMMA PassedSame ==
  ASSUME NEW s, NEW t, NEW b \in Nat, NEW c \in Nat,
         \A i \in (b + 1)..(b + c) : s[i] = t[i]
  PROVE  Passed(s, b, c) = Passed(t, b, c)
<1>1. PassedSet(s, b, c) = PassedSet(t, b, c) BY DEF PassedSet
<1> QED BY <1>1, PassedIsFinite

(* What a prefix of a sample passes depends on that prefix alone. *)
LEMMA PassedInPrefix ==
  ASSUME NEW s, NEW b \in Nat, NEW c \in Nat, NEW k \in Nat, b + c <= k,
         \A i \in 1..k : SubSeq(s, 1, k)[i] = s[i]
  PROVE  Passed(s, b, c) = Passed(SubSeq(s, 1, k), b, c)
<1> DEFINE r == SubSeq(s, 1, k)
<1>1. \A i \in 1..k : s[i] = r[i] OBVIOUS
<1> HIDE DEF r
<1>2. \A i \in (b + 1)..(b + c) : i \in 1..k OBVIOUS
<1>3. \A i \in (b + 1)..(b + c) : s[i] = r[i] BY <1>1, <1>2
<1>4. Passed(s, b, c) = Passed(r, b, c) BY <1>3, PassedSame
<1> QED BY <1>4 DEF r

(* Two prefixes of a batch of which the same number may pass are the same  *)
(* when neither stops short of the last point it could take in.            *)
LEMMA PrefixIsUnique ==
  ASSUME NEW s, NEW b \in Nat, NEW count \in Nat, NEW allowed \in Nat,
         NEW c \in 0..count, NEW d \in 0..count,
         Passed(s, b, c) <= allowed, Passed(s, b, d) <= allowed,
         c < count => s[b + c + 1] # "rejected" /\ Passed(s, b, c) = allowed,
         d < count => s[b + d + 1] # "rejected" /\ Passed(s, b, d) = allowed
  PROVE  c = d
<1>1. c \in Nat /\ d \in Nat /\ c + 1 \in Nat /\ d + 1 \in Nat OBVIOUS
<1>2. /\ Passed(s, b, c) \in Nat /\ Passed(s, b, d) \in Nat
      /\ Passed(s, b, c + 1) \in Nat /\ Passed(s, b, d + 1) \in Nat
  BY <1>1, PassedIsFinite
<1>3. ~(c < d)
  <2> SUFFICES ASSUME c < d PROVE FALSE OBVIOUS
  <2>1. c < count /\ c + 1 <= d OBVIOUS
  <2>2. Passed(s, b, c + 1) = allowed + 1
    <3>1. s[b + c + 1] # "rejected" /\ Passed(s, b, c) = allowed BY <2>1
    <3>2. s[b + c + 1] # "rejected" => Passed(s, b, c + 1) = Passed(s, b, c) + 1
      BY <1>1, PassedNext
    <3> QED BY <3>1, <3>2
  <2>3. Passed(s, b, c + 1) <= Passed(s, b, d) BY <1>1, <2>1, PassedGrows
  <2> QED BY <1>2, <2>2, <2>3
<1>4. ~(d < c)
  <2> SUFFICES ASSUME d < c PROVE FALSE OBVIOUS
  <2>1. d < count /\ d + 1 <= c OBVIOUS
  <2>2. Passed(s, b, d + 1) = allowed + 1
    <3>1. s[b + d + 1] # "rejected" /\ Passed(s, b, d) = allowed BY <2>1
    <3>2. s[b + d + 1] # "rejected" => Passed(s, b, d + 1) = Passed(s, b, d) + 1
      BY <1>1, PassedNext
    <3> QED BY <3>1, <3>2
  <2>3. Passed(s, b, d + 1) <= Passed(s, b, c) BY <1>1, <2>1, PassedGrows
  <2> QED BY <1>2, <2>2, <2>3
<1> QED BY <1>1, <1>3, <1>4

LEMMA NoneOfNone ==
  ASSUME NEW s, NEW b \in Nat
  PROVE  Passed(s, b, 0) = 0
<1>1. Passed(s, b, 0) \in 0..0 BY PassedPoints
<1> QED BY <1>1

Passes(s, i) == s[i] # "rejected"

LEMMA PrefixFits ==
  ASSUME NEW s, NEW b \in Nat, NEW count \in Nat, NEW allowed \in Nat
  PROVE  LET c == Prefix(s, b, count, allowed)
         IN  /\ c \in 0..count
             /\ Passed(s, b, c) \in 0..c /\ Passed(s, b, c) <= allowed
             /\ Passed(s, b, count) <= allowed => c = count
             /\ c < count => Passes(s, b + c + 1) /\ Passed(s, b, c) = allowed
<1> DEFINE S == {c \in 0..count : Passed(s, b, c) <= allowed}
<1>1. 0 \in S BY NoneOfNone
<1>2. S \in SUBSET (0..count) /\ S # {} BY <1>1
<1>3. Max(S) \in S /\ \A y \in S : Max(S) >= y
  <2> HIDE DEF S
  <2> QED BY <1>2, LargestExists
<1>4. Prefix(s, b, count, allowed) = Max(S) BY DEF Prefix
<1>5. Max(S) \in 0..count /\ Passed(s, b, Max(S)) <= allowed BY <1>3
<1>6. Passed(s, b, Max(S)) \in 0..Max(S) BY <1>5, PassedPoints
<1>7. ASSUME Passed(s, b, count) <= allowed PROVE Max(S) = count
  <2>1. count \in S BY <1>7
  <2>2. Max(S) >= count
    <3> HIDE DEF S
    <3> QED BY <1>3, <2>1
  <2> QED BY <1>5, <2>2
<1>8. ASSUME Max(S) < count
      PROVE  s[b + Max(S) + 1] # "rejected" /\ Passed(s, b, Max(S)) = allowed
  <2>1. Max(S) \in Nat /\ Max(S) + 1 \in 0..count BY <1>5, <1>8
  <2>2. ~(Passed(s, b, Max(S) + 1) <= allowed)
    <3>1. ~(Max(S) >= Max(S) + 1) BY <2>1
    <3>2. Max(S) + 1 \notin S
      <4> HIDE DEF S
      <4> QED BY <1>3, <3>1
    <3> QED BY <2>1, <3>2
  <2> DEFINE top == Max(S)
  <2>3. top \in Nat /\ top + 1 \in Nat /\ Passed(s, b, top) <= allowed
        /\ ~(Passed(s, b, top + 1) <= allowed)
    BY <1>5, <2>1, <2>2
  <2> HIDE DEF top
  <2>4. Passed(s, b, top) \in Nat /\ Passed(s, b, top + 1) \in Nat BY <2>3, PassedIsFinite
  <2>5. s[b + top + 1] # "rejected" /\ Passed(s, b, top + 1) = Passed(s, b, top) + 1
    BY <2>3, PassedNext
  <2>6. Passed(s, b, top) = allowed BY <2>3, <2>4, <2>5
  <2> QED BY <2>5, <2>6 DEF top
<1> HIDE DEF S
<1> QED BY <1>4, <1>5, <1>6, <1>7, <1>8 DEF Passes

-----------------------------------------------------------------------------
(* One batch. *)

LEMMA OfLength ==
  ASSUME NEW m \in Nat, NEW t \in [1..m -> Kinds]
  PROVE  t \in Seq(Kinds) /\ Len(t) = m
OBVIOUS

LEMMA LongerSample ==
  ASSUME NEW q \in Seq(Kinds), NEW n \in Nat, NEW s \in Longer(q, n)
  PROVE  /\ s \in Seq(Kinds) /\ Len(s) = Most(Len(q), n)
         /\ \A i \in 1..Len(q) : s[i] = q[i]
<1>0. Len(q) \in Nat OBVIOUS
<1>1. CASE Len(q) >= n
  <2>1. s = q BY <1>1 DEF Longer
  <2> QED BY <1>0, <1>1, <2>1 DEF Most
<1>2. CASE ~(Len(q) >= n)
  <2>0. n - Len(q) \in Nat BY <1>0, <1>2
  <2>1. PICK t \in [1..(n - Len(q)) -> Kinds] : s = q \o t BY <1>2 DEF Longer
  <2>2. t \in Seq(Kinds) /\ Len(t) = n - Len(q) BY <2>0, <2>1, OfLength
  <2>3. s \in Seq(Kinds) /\ Len(s) = Len(q) + Len(t) BY <2>1, <2>2
  <2>4. \A i \in 1..Len(q) : s[i] = q[i] BY <2>1, <2>2
  <2> QED BY <1>0, <1>2, <2>2, <2>3, <2>4 DEF Most
<1> QED BY <1>1, <1>2

LEMMA PrefixOf ==
  ASSUME NEW s \in Seq(Kinds), NEW c \in 0..Len(s)
  PROVE  /\ SubSeq(s, 1, c) \in Seq(Kinds)
         /\ Len(SubSeq(s, 1, c)) = c
         /\ \A i \in 1..c : SubSeq(s, 1, c)[i] = s[i]
<1>1. c \in Nat /\ Len(s) \in Nat /\ c <= Len(s) OBVIOUS
<1>2. SubSeq(s, 1, c) = [i \in 1..c |-> s[i]] BY <1>1
<1>3. [i \in 1..c |-> s[i]] \in Seq(Kinds) /\ Len([i \in 1..c |-> s[i]]) = c
  BY <1>1
<1> QED BY <1>2, <1>3

(* The sample grows and stays what it was. *)
Grows ==
  /\ sample' \in [Phases -> Seq(Kinds)]
  /\ \A p \in Phases : /\ Len(sample[p]) <= Len(sample'[p])
                       /\ \A i \in 1..Len(sample[p]) : sample'[p][i] = sample[p][i]

(* What a batch of count points leaves: scored of them, passed of those. *)
Left(phase, count, remaining, scored, passed) ==
  /\ passed <= remaining
  /\ analysed' = [analysed EXCEPT ![phase] = @ + passed]
  /\ rejects' = [rejects EXCEPT ![phase] = @ + (scored - passed)]
  /\ log' = [log EXCEPT ![phase] =
               Append(@, [from |-> Base(phase), drawn |-> count, scored |-> scored,
                          analysed |-> passed])]
  /\ Grows /\ Base(phase) + scored <= Len(sample'[phase])
  /\ expired' \in BOOLEAN
  /\ scored = count \/ (Timed /\ expired') \/ remaining < count
  /\ passed = Passed(sample'[phase], Base(phase), scored)
  /\ scored < count => /\ Base(phase) + scored < Len(sample'[phase])
                       /\ sample'[phase][Base(phase) + scored + 1] # "rejected"
                       /\ Timed \/ passed = remaining

LEMMA WaveLeaves ==
  ASSUME FieldsInv, BatchInv,
         NEW phase \in Phases, NEW count \in Nat, NEW remaining \in Nat,
         Wave(phase, count, remaining)
  PROVE  \E scored \in 0..count : \E passed \in 0..scored :
           Left(phase, count, remaining, scored, passed)
<1> DEFINE b == Base(phase)
<1>0. /\ sample \in [Phases -> Seq(Kinds)] /\ b \in Nat /\ b <= Len(sample[phase])
      /\ expired \in BOOLEAN /\ Timed \in BOOLEAN
  <2>1. b \in Nat BY DEF FieldsInv, Base
  <2>2. Timed \in BOOLEAN BY DEF FieldsInv, Timed, Settings
  <2> QED BY <2>1, <2>2 DEF FieldsInv, BatchInv
<1>1. PICK s \in Longer(sample[phase], b + count) :
    LET all == Passed(s, b, count)
    IN  \E answered \in IF Timed /\ setting.intra THEN 0..all ELSE {all} :
          LET scored == Prefix(s, b, count, Least(answered, remaining))
              passed == Passed(s, b, scored)
          IN  /\ sample' = [sample EXCEPT ![phase] =
                   SubSeq(s, 1, Most(Len(@), b + Least(scored + 1, count)))]
              /\ expired' \in IF answered < all THEN {TRUE} ELSE {expired, Timed}
              /\ analysed' = [analysed EXCEPT ![phase] = @ + passed]
              /\ rejects' = [rejects EXCEPT ![phase] = @ + (scored - passed)]
              /\ log' = [log EXCEPT ![phase] =
                           Append(@, [from |-> b, drawn |-> count, scored |-> scored,
                                      analysed |-> passed])]
  BY DEF Wave
<1> DEFINE all == Passed(s, b, count)
<1>2. all \in Nat /\ all <= count
  <2>1. all \in 0..count BY <1>0, PassedPoints
  <2> HIDE DEF all
  <2> QED BY <2>1
<1>3. PICK answered \in IF Timed /\ setting.intra THEN 0..all ELSE {all} :
          LET scored == Prefix(s, b, count, Least(answered, remaining))
              passed == Passed(s, b, scored)
          IN  /\ sample' = [sample EXCEPT ![phase] =
                   SubSeq(s, 1, Most(Len(@), b + Least(scored + 1, count)))]
              /\ expired' \in IF answered < all THEN {TRUE} ELSE {expired, Timed}
              /\ analysed' = [analysed EXCEPT ![phase] = @ + passed]
              /\ rejects' = [rejects EXCEPT ![phase] = @ + (scored - passed)]
              /\ log' = [log EXCEPT ![phase] =
                           Append(@, [from |-> b, drawn |-> count, scored |-> scored,
                                      analysed |-> passed])]
  BY <1>1
<1> DEFINE allowed == Least(answered, remaining)
           scored == Prefix(s, b, count, allowed)
           passed == Passed(s, b, scored)
           kept == Most(Len(sample[phase]), b + Least(scored + 1, count))
<1>4. answered \in 0..all /\ (answered = all \/ Timed)
  <2> HIDE DEF all
  <2> QED BY <1>2, <1>3
<1>5. allowed \in Nat /\ allowed <= remaining /\ allowed <= answered
      /\ (answered <= remaining => allowed = answered)
      /\ allowed \in {answered, remaining}
  <2> HIDE DEF all
  <2> QED BY <1>2, <1>4 DEF Least
<1>6. /\ scored \in 0..count /\ passed \in 0..scored /\ passed <= allowed
      /\ (all <= allowed => scored = count)
      /\ (scored < count => s[b + scored + 1] # "rejected" /\ passed = allowed)
  <2> HIDE DEF allowed, b
  <2>1. b \in Nat /\ count \in Nat /\ allowed \in Nat BY <1>0, <1>5
  <2>2. LET c == Prefix(s, b, count, allowed)
        IN  /\ c \in 0..count
            /\ Passed(s, b, c) \in 0..c /\ Passed(s, b, c) <= allowed
            /\ Passed(s, b, count) <= allowed => c = count
            /\ c < count => Passes(s, b + c + 1) /\ Passed(s, b, c) = allowed
    BY <2>1, PrefixFits
  <2> QED BY <2>2 DEF Passes
<1>7. /\ sample' = [sample EXCEPT ![phase] = SubSeq(s, 1, kept)]
      /\ expired' \in IF answered < all THEN {TRUE} ELSE {expired, Timed}
      /\ analysed' = [analysed EXCEPT ![phase] = @ + passed]
      /\ rejects' = [rejects EXCEPT ![phase] = @ + (scored - passed)]
      /\ log' = [log EXCEPT ![phase] =
                   Append(@, [from |-> b, drawn |-> count, scored |-> scored,
                              analysed |-> passed])]
  BY <1>0, <1>3
<1>8. /\ s \in Seq(Kinds) /\ Len(s) = Most(Len(sample[phase]), b + count)
      /\ \A i \in 1..Len(sample[phase]) : s[i] = sample[phase][i]
  <2>1. sample[phase] \in Seq(Kinds) /\ b + count \in Nat BY <1>0
  <2> HIDE DEF b
  <2> QED BY <1>1, <2>1, LongerSample
<1>9. /\ kept \in 0..Len(s) /\ kept >= Len(sample[phase]) /\ kept >= b + scored
      /\ scored < count => kept >= b + scored + 1
  <2>1. Len(sample[phase]) \in Nat /\ Len(s) \in Nat BY <1>0, <1>8
  <2>2. scored \in Nat /\ scored <= count BY <1>6
  <2> HIDE DEF b, scored
  <2> QED BY <1>0, <1>8, <2>1, <2>2 DEF Most, Least
<1>10. /\ SubSeq(s, 1, kept) \in Seq(Kinds) /\ Len(SubSeq(s, 1, kept)) = kept
       /\ \A i \in 1..kept : SubSeq(s, 1, kept)[i] = s[i]
  <2> HIDE DEF kept
  <2> QED BY <1>8, <1>9, PrefixOf
<1>a. passed = Passed(SubSeq(s, 1, kept), b, scored)
  <2>1. scored \in Nat BY <1>6
  <2>2. kept \in Nat /\ b + scored <= kept BY <1>8, <1>9
  <2> HIDE DEF b, scored, kept
  <2>3. b \in Nat /\ \A i \in 1..kept : SubSeq(s, 1, kept)[i] = s[i] BY <1>0, <1>10
  <2> QED BY <2>1, <2>2, <2>3, PassedInPrefix
<1>b. scored < count => SubSeq(s, 1, kept)[b + scored + 1] # "rejected"
  <2> SUFFICES ASSUME scored < count PROVE SubSeq(s, 1, kept)[b + scored + 1] # "rejected"
    OBVIOUS
  <2>1. scored \in Nat /\ kept \in Nat /\ kept >= b + scored + 1 BY <1>6, <1>8, <1>9
  <2>2. s[b + scored + 1] # "rejected" BY <1>6
  <2> HIDE DEF b, scored, kept
  <2>3. b + scored + 1 \in 1..kept BY <1>0, <2>1
  <2> QED BY <1>10, <2>2, <2>3
<1> HIDE DEF b, all, allowed, scored, passed, kept
<1>11. Grows /\ b + scored <= Len(sample'[phase])
  <2>1. sample' \in [Phases -> Seq(Kinds)] BY <1>0, <1>7, <1>10
  <2>2. sample'[phase] = SubSeq(s, 1, kept) BY <1>0, <1>7
  <2>3. \A p \in Phases : p # phase => sample'[p] = sample[p] BY <1>0, <1>7
  <2>4. Len(sample[phase]) \in Nat /\ kept \in Nat BY <1>0, <1>8, <1>9
  <2>5. \A i \in 1..Len(sample[phase]) : sample'[phase][i] = sample[phase][i]
    BY <1>8, <1>9, <1>10, <2>2, <2>4
  <2>6. \A p \in Phases : Len(sample[p]) \in Nat BY <1>0
  <2>7. ASSUME NEW p \in Phases
        PROVE  /\ Len(sample[p]) <= Len(sample'[p])
               /\ \A i \in 1..Len(sample[p]) : sample'[p][i] = sample[p][i]
    <3>1. CASE p = phase BY <1>9, <1>10, <2>2, <2>5, <3>1
    <3>2. CASE p # phase BY <2>3, <2>6, <3>2
    <3> QED BY <3>1, <3>2
  <2> QED BY <1>9, <1>10, <2>1, <2>2, <2>7 DEF Grows
<1>12. expired' \in BOOLEAN BY <1>0, <1>7
<1>13. scored = count \/ (Timed /\ expired') \/ remaining < count
  <2>1. CASE answered < all
    <3>1. Timed /\ expired' = TRUE BY <1>2, <1>4, <1>7, <2>1
    <3> QED BY <3>1
  <2>2. CASE ~(answered < all)
    <3>1. answered = all BY <1>2, <1>4, <2>2
    <3>2. all <= remaining => scored = count BY <1>5, <1>6, <3>1, <1>2
    <3> QED BY <1>2, <3>2
  <2> QED BY <2>1, <2>2
<1>14. passed <= remaining
  <2>1. passed \in Nat BY <1>6
  <2> QED BY <1>5, <1>6, <2>1
<1>15. sample'[phase] = SubSeq(s, 1, kept) BY <1>0, <1>7
<1>16. scored < count => /\ b + scored < Len(sample'[phase])
                         /\ Timed \/ passed = remaining
  <2> SUFFICES ASSUME scored < count
               PROVE  b + scored < Len(sample'[phase]) /\ (Timed \/ passed = remaining)
    OBVIOUS
  <2>1. scored \in Nat /\ kept \in Nat /\ kept >= b + scored + 1 BY <1>6, <1>8, <1>9
  <2>2. b + scored < Len(sample'[phase]) BY <1>0, <1>10, <1>15, <2>1
  <2>3. ASSUME ~Timed PROVE passed = remaining
    <3>1. answered = all BY <1>4, <2>3
    <3>2. ~(all <= allowed) BY <1>6, <2>1
    <3>3. allowed = remaining BY <1>2, <1>5, <3>1, <3>2
    <3> QED BY <1>6, <3>3
  <2> QED BY <2>2, <2>3
<1>17. Left(phase, count, remaining, scored, passed)
  BY <1>7, <1>11, <1>12, <1>13, <1>14, <1>15, <1>16, <1>a, <1>b DEF Left, b
<1> QED BY <1>6, <1>17

-----------------------------------------------------------------------------
(* The limits of the stage. *)

LEMMA Limits ==
  ASSUME setting \in Settings
  PROVE  /\ Budget \in Nat /\ Schedule \in Nat /\ Initial \in Nat /\ Floor \in Nat
         /\ Budget > 0 /\ Schedule > 0 /\ Initial > 0 /\ Floor <= Initial
         /\ Initial <= Budget
         /\ setting' = setting => /\ Budget' = Budget /\ Schedule' = Schedule
                                  /\ Initial' = Initial /\ Floor' = Floor
<1>1. setting.budget \in Nat \ {0} /\ setting.schedule \in Nat \ {0}
  BY RefinementAssumption DEF Settings
<1>2. Population \in Nat \ {0} /\ Minimum \in Nat BY RefinementAssumption
<1>3. Budget \in Nat /\ Schedule \in Nat /\ Initial \in Nat /\ Budget > 0 /\ Schedule > 0
      /\ Initial > 0 /\ Initial <= Budget
  BY <1>1, <1>2 DEF Budget, Schedule, Initial, Least
<1>4. Floor \in Nat /\ Floor <= Initial BY <1>2, <1>3 DEF Floor, Least
<1>5. ASSUME setting' = setting
      PROVE  Budget' = Budget /\ Schedule' = Schedule /\ Initial' = Initial /\ Floor' = Floor
  BY <1>5 DEF Budget, Schedule, Initial, Floor
<1> QED BY <1>3, <1>4, <1>5

Terminations == {"evaluation_budget", "pregate_exhausted", "time_budget", "cancelled",
                 "stagnated"}
Places == {"enter", "initial", "top", "generation", "restore", "poll", "polled", "tried",
           "done", "unreplayable"}

(* What every step leaves in range. *)
Steady ==
  /\ setting' = setting /\ pc' \in Places /\ requested' \in BOOLEAN
  /\ size' \in Floor..Initial /\ generations' \in Nat /\ polls' \in 0..MaxPolls
  /\ pc' = "polled" => polls' < MaxPolls
  /\ termination' \in Terminations

(* A step that scores nothing keeps the invariant when it only moves on:   *)
(* to a place where less is known, or to one where its own test has shown  *)
(* what the invariant asks for.                                            *)
LEMMA QuietStep ==
  ASSUME StageInv, Steady,
         UNCHANGED <<run, stop, sample, expired, limit, countVars>>,
         Before' => Before, Polling' => Polling, pc' = "enter" => pc = "enter",
         pc' \in {"initial", "generation", "polled", "tried"} => pc = pc',
         pc' = "top" /\ pc # "top" => Whole("kernel", Len(log["kernel"])),
         pc' \in {"poll", "tried"} /\ pc # pc' =>
           Whole("restoration", Len(log["restoration"])) \/ (Timed /\ expired)
  PROVE  StageInv'
<1>0. FieldsInv /\ BatchInv /\ CountInv /\ LogInv BY DEF StageInv
<1>1. /\ Budget' = Budget /\ Schedule' = Schedule /\ Initial' = Initial /\ Floor' = Floor
  BY <1>0, Limits DEF FieldsInv, Steady
<1>2. analysed' = analysed /\ rejects' = rejects /\ log' = log BY DEF countVars
<1>3. FieldsInv' BY <1>0, <1>1, <1>2 DEF FieldsInv, Steady, Terminations, Places
<1>4. \A p \in Phases : Base(p)' = Base(p) BY <1>2 DEF Base
<1>5. BatchInv' BY <1>0, <1>2, <1>4 DEF BatchInv, End
<1>6. FoundValid' = FoundValid BY <1>4 DEF FoundValid
<1>7. Base("restoration")' = Base("restoration") /\ Total' = Total
  BY <1>2, <1>4 DEF Phases, Total
<1>8. CountInv' BY <1>0, <1>1, <1>2, <1>6, <1>7 DEF CountInv
<1>9. Timed' = Timed BY DEF Timed, Steady
<1>10. \A p, n : Whole(p, n)' = Whole(p, n) BY <1>2 DEF Whole
<1>11. LogInv' BY <1>0, <1>2, <1>9, <1>10 DEF LogInv
<1> QED BY <1>3, <1>5, <1>8, <1>11 DEF StageInv

(* What a batch that is not short leaves: all of it was scored. *)
LEMMA NotShort ==
  ASSUME FieldsInv, BatchInv, LogInv, NEW p \in Phases, log[p] # <<>>, ~Short(p)
  PROVE  Whole(p, Len(log[p]))
<1> DEFINE n == Len(log[p])
<1>1. log[p] \in Seq(Batch) /\ n \in Nat /\ n > 0 BY DEF FieldsInv
<1>2. LastBatch(p) = log[p][n] BY <1>1 DEF LastBatch, Last
<1>3. log[p][n] \in Batch BY <1>1
<1>4. log[p][n].scored \in Nat /\ log[p][n].drawn \in Nat BY <1>3 DEF Batch
<1>5. log[p][n].scored <= log[p][n].drawn BY <1>1 DEF BatchInv
<1>6. log[p][n].scored = log[p][n].drawn BY <1>2, <1>4, <1>5 DEF Short
<1>7. Whole(p, n - 1) BY DEF LogInv
<1>8. ASSUME NEW i \in 1..n PROVE log[p][i].scored = log[p][i].drawn
  <2>1. CASE i = n BY <1>6, <2>1
  <2>2. CASE i # n
    <3>1. i \in 1..(n - 1) BY <1>1, <2>2
    <3> QED BY <1>7, <3>1 DEF Whole
  <2> QED BY <2>1, <2>2
<1> QED BY <1>8 DEF Whole

(* A batch added to the log of a phase that has only whole ones.           *)
LEMMA WaveAdds ==
  ASSUME FieldsInv, BatchInv, LogInv, Steady, run' = run, stop' \in [Phases -> 0..Budget],
         limit' \in Nat,
         NEW phase \in Phases, NEW count \in Nat, count > 0, NEW remaining \in Nat,
         NEW scored \in 0..count, NEW passed \in 0..scored,
         Left(phase, count, remaining, scored, passed),
         Whole(phase, Len(log[phase]))
  PROVE  /\ FieldsInv' /\ BatchInv'
         /\ analysed'[phase] = analysed[phase] + passed
         /\ rejects'[phase] = rejects[phase] + (scored - passed)
         /\ Base(phase)' = Base(phase) + scored
         /\ \A p \in Phases : p # phase => /\ analysed'[p] = analysed[p]
                                           /\ rejects'[p] = rejects[p]
                                           /\ log'[p] = log[p]
         /\ log'[phase] # <<>>
         /\ \A p \in Phases : Whole(p, Len(log[p]) - 1)'
         /\ scored = count => Whole(phase, Len(log[phase]))'
         /\ FoundValid => FoundValid'
<1>a. PICK b \in Nat : b = Base(phase)
  <2>1. Base(phase) \in Nat BY DEF FieldsInv, Base
  <2> QED BY <2>1
<1>b. PICK n \in Nat : n = Len(log[phase])
  <2>1. log[phase] \in Seq(Batch) BY DEF FieldsInv
  <2> QED BY <2>1
<1> DEFINE e == [from |-> b, drawn |-> count, scored |-> scored, analysed |-> passed]
<1>0. /\ scored \in Nat /\ passed \in Nat /\ passed <= scored /\ scored <= count
      /\ scored - passed \in Nat
  OBVIOUS
<1>1. /\ analysed \in [Phases -> Nat] /\ rejects \in [Phases -> Nat]
      /\ log \in [Phases -> Seq(Batch)]
      /\ \A p \in Phases : Base(p) \in Nat /\ log[p] \in Seq(Batch) /\ Len(log[p]) \in Nat
  <2>1. \A p \in Phases : Base(p) \in Nat BY SMTT(30) DEF FieldsInv, Base
  <2> QED BY <2>1, SMTT(30) DEF FieldsInv
<1>2. e \in Batch BY <1>0 DEF Batch
<1>3. /\ analysed' = [analysed EXCEPT ![phase] = @ + passed]
      /\ rejects' = [rejects EXCEPT ![phase] = @ + (scored - passed)]
      /\ log' = [log EXCEPT ![phase] = Append(@, e)]
      /\ Grows /\ b + scored <= Len(sample'[phase]) /\ expired' \in BOOLEAN
  BY <1>a DEF Left
<1>4. /\ analysed' \in [Phases -> Nat] /\ rejects' \in [Phases -> Nat]
      /\ log' \in [Phases -> Seq(Batch)]
  <2>1. Append(log[phase], e) \in Seq(Batch) BY <1>1, <1>2
  <2> HIDE DEF e
  <2> QED BY <1>0, <1>1, <1>3, <2>1, SMTT(30)
<1>5. FieldsInv'
  <2>1. /\ Budget' = Budget /\ Initial' = Initial /\ Floor' = Floor
    BY Limits DEF FieldsInv, Steady
  <2> HIDE DEF e
  <2> QED BY <1>3, <1>4, <2>1 DEF FieldsInv, Steady, Terminations, Places, Grows
<1>6. /\ analysed'[phase] = analysed[phase] + passed
      /\ rejects'[phase] = rejects[phase] + (scored - passed)
      /\ log'[phase] = Append(log[phase], e)
      /\ \A p \in Phases : p # phase => /\ analysed'[p] = analysed[p]
                                        /\ rejects'[p] = rejects[p]
                                        /\ log'[p] = log[p]
  <2> HIDE DEF e
  <2> QED BY <1>1, <1>3
<1>7. Base(phase)' = b + scored
  <2>1. analysed[phase] \in Nat /\ rejects[phase] \in Nat BY <1>1
  <2> QED BY <1>0, <1>a, <1>6, <2>1, SMTT(30) DEF Base
<1>8. \A p \in Phases : p # phase => Base(p)' = Base(p) BY <1>6 DEF Base
<1>9. /\ Len(log'[phase]) = n + 1 /\ log'[phase][n + 1] = e
      /\ \A i \in 1..n : log'[phase][i] = log[phase][i]
  <2>1. log[phase] \in Seq(Batch) BY <1>1
  <2> HIDE DEF e
  <2> QED BY <1>b, <1>2, <1>6, <2>1
<1>10. e.from = b /\ e.drawn = count /\ e.scored = scored OBVIOUS
<1> HIDE DEF e
<1>11. BatchInv'
  <2>1. ASSUME NEW p \in Phases
        PROVE  /\ Base(p)' <= Len(sample'[p])
               /\ Base(p)' = End(p, Len(log[p]))'
               /\ \A i \in 1..Len(log'[p]) : /\ log'[p][i].from = End(p, i - 1)'
                                             /\ log'[p][i].drawn > 0
                                             /\ log'[p][i].scored <= log'[p][i].drawn
    <3>0. /\ Base(p) <= Len(sample[p]) /\ Base(p) = End(p, Len(log[p]))
          /\ \A i \in 1..Len(log[p]) : /\ log[p][i].from = End(p, i - 1)
                                       /\ log[p][i].drawn > 0
                                       /\ log[p][i].scored <= log[p][i].drawn
      BY DEF BatchInv
    <3>1. CASE p # phase
      <4>1. log'[p] = log[p] /\ Base(p)' = Base(p) BY <1>6, <1>8, <3>1
      <4>2. Len(sample[p]) <= Len(sample'[p]) BY <1>3 DEF Grows
      <4>3. Len(sample[p]) \in Nat /\ Len(sample'[p]) \in Nat
        <5>1. sample[p] \in Seq(Kinds) BY DEF FieldsInv
        <5>2. sample'[p] \in Seq(Kinds) BY <1>5 DEF FieldsInv
        <5> QED BY <5>1, <5>2
      <4>4. Base(p)' <= Len(sample'[p]) BY <1>1, <3>0, <4>1, <4>2, <4>3, SMTT(30)
      <4>5. \A i : End(p, i)' = End(p, i) BY <4>1 DEF End
      <4> QED BY <3>0, <4>1, <4>4, <4>5
    <3>2. CASE p = phase
      <4>1. ASSUME NEW i \in 0..n PROVE End(p, i)' = End(p, i)
        <5>1. CASE i = 0 BY <5>1 DEF End
        <5>2. CASE i # 0
          <6>1. i \in 1..n BY <5>2
          <6>2. log'[p][i] = log[p][i] BY <1>9, <3>2, <6>1
          <6> QED BY <6>2 DEF End
        <5> QED BY <5>1, <5>2
      <4>2. End(p, n + 1)' = b + scored
        <5>1. End(p, n + 1)' = log'[p][n + 1].from + log'[p][n + 1].scored
          BY DEF End
        <5> QED BY <1>9, <1>10, <3>2, <5>1
      <4>3. End(p, n) = b BY <1>a, <1>b, <3>0, <3>2
      <4>4. ASSUME NEW i \in 1..Len(log'[p])
            PROVE  /\ log'[p][i].from = End(p, i - 1)'
                   /\ log'[p][i].drawn > 0
                   /\ log'[p][i].scored <= log'[p][i].drawn
        <5>1. CASE i = n + 1
          <6>1. log'[p][i] = e BY <1>9, <3>2, <5>1
          <6>2. End(p, i - 1)' = End(p, n)
            <7>1. i - 1 = n BY <5>1
            <7>2. n \in 0..n OBVIOUS
            <7>3. End(p, n)' = End(p, n) BY <4>1, <7>2
            <7> QED BY <7>1, <7>3
          <6> QED BY <1>0, <1>10, <4>3, <6>1, <6>2
        <5>2. CASE i # n + 1
          <6>1. i \in 1..n /\ i - 1 \in 0..n BY <1>9, <3>2, <5>2
          <6>2. log'[p][i] = log[p][i] BY <1>9, <3>2, <6>1
          <6>3. End(p, i - 1)' = End(p, i - 1) BY <4>1, <6>1
          <6> QED BY <1>b, <3>0, <3>2, <6>1, <6>2, <6>3
        <5> QED BY <5>1, <5>2
      <4>5. Base(p)' <= Len(sample'[p]) BY <1>3, <1>7, <3>2
      <4>6. Base(p)' = End(p, Len(log[p]))'
        <5>1. Base(p)' = End(p, n + 1)' BY <1>7, <3>2, <4>2
        <5>2. Len(log'[p]) = n + 1 BY <1>9, <3>2
        <5> QED BY <5>1, <5>2 DEF End
      <4> QED BY <4>4, <4>5, <4>6
    <3> QED BY <3>1, <3>2
  <2> QED BY <2>1 DEF BatchInv
<1>12. \A p \in Phases : Whole(p, Len(log[p]) - 1)'
  <2>1. ASSUME NEW p \in Phases PROVE Whole(p, Len(log[p]) - 1)'
    <3>1. CASE p # phase
      <4>1. log'[p] = log[p] BY <1>6, <3>1
      <4>2. Whole(p, Len(log[p]) - 1) BY DEF LogInv
      <4> QED BY <4>1, <4>2 DEF Whole
    <3>2. CASE p = phase
      <4>1. Len(log'[p]) - 1 = n BY <1>9, <3>2
      <4>2. \A i \in 1..n : log'[p][i].scored = log'[p][i].drawn
        BY <1>b, <1>9, <3>2 DEF Whole
      <4> QED BY <4>1, <4>2 DEF Whole
    <3> QED BY <3>1, <3>2
  <2> QED BY <2>1
<1>13. ASSUME scored = count PROVE Whole(phase, Len(log[phase]))'
  <2>1. ASSUME NEW i \in 1..Len(log'[phase])
        PROVE  log'[phase][i].scored = log'[phase][i].drawn
    <3>1. CASE i = n + 1 BY <1>9, <1>10, <1>13, <3>1
    <3>2. CASE i # n + 1
      <4>1. i \in 1..n BY <1>9, <3>2
      <4> QED BY <1>b, <1>9, <4>1 DEF Whole
    <3> QED BY <3>1, <3>2
  <2> QED BY <2>1 DEF Whole
<1>14. log'[phase] # <<>> BY <1>9
<1>15. ASSUME FoundValid PROVE FoundValid'
  <2>0. PICK p \in Phases : \E i \in 1..Base(p) : sample[p][i] = "valid"
    BY <1>15 DEF FoundValid
  <2>1. PICK i \in 1..Base(p) : sample[p][i] = "valid" BY <2>0
  <2>2. Base(p) \in Nat /\ Base(p)' \in Nat /\ Base(p) <= Base(p)'
    <3>1. CASE p = phase BY <1>0, <1>a, <1>1, <1>7, <3>1
    <3>2. CASE p # phase BY <1>1, <1>8, <3>2
    <3> QED BY <3>1, <3>2
  <2>3. i \in 1..Len(sample[p])
    <3>1. Base(p) <= Len(sample[p]) /\ Len(sample[p]) \in Nat BY DEF BatchInv, FieldsInv
    <3> QED BY <2>2, <3>1
  <2>4. sample'[p][i] = "valid" /\ i \in 1..Base(p)'
    BY <1>3, <2>1, <2>2, <2>3, SMTT(30) DEF Grows
  <2> QED BY <2>4 DEF FoundValid
<1> QED BY <1>a, <1>5, <1>6, <1>7, <1>11, <1>12, <1>13, <1>14, <1>15

-----------------------------------------------------------------------------
(* The batches of the two phases. *)

LEMMA Counters ==
  ASSUME FieldsInv
  PROVE  /\ "kernel" \in Phases /\ "restoration" \in Phases
         /\ \A p \in Phases : /\ analysed[p] \in Nat /\ rejects[p] \in Nat /\ Base(p) \in Nat
                              /\ stop[p] \in Nat /\ stop[p] <= Budget
                              /\ log[p] \in Seq(Batch) /\ Len(log[p]) \in Nat
<1>1. Budget \in Nat BY Limits DEF FieldsInv
<1>2. ASSUME NEW p \in Phases
      PROVE  /\ analysed[p] \in Nat /\ rejects[p] \in Nat /\ stop[p] \in 0..Budget
             /\ log[p] \in Seq(Batch)
  BY DEF FieldsInv
<1>3. "kernel" \in Phases /\ "restoration" \in Phases BY DEF Phases
<1>4. ASSUME NEW p \in Phases
      PROVE  Base(p) \in Nat /\ stop[p] \in Nat /\ stop[p] <= Budget /\ Len(log[p]) \in Nat
  BY <1>1, <1>2 DEF Base
<1> QED BY <1>2, <1>3, <1>4

(* A batch of the kernel keeps the invariant when the count that stops the *)
(* phase, the rejections and, until something feasible is found, the share *)
(* of the schedule leave room for it.                                      *)
LEMMA KernelWave ==
  ASSUME StageInv, NEW count \in 1..Initial, NEW remaining \in Nat,
         Wave("kernel", count, remaining), Before,
         analysed["kernel"] + remaining <= stop["kernel"],
         rejects["kernel"] < MaxRejects,
         ~FoundValid => analysed["kernel"] + count <= Most(Initial, Minus(Schedule, Reserve)),
         Whole("kernel", Len(log["kernel"])),
         pc' \in {"initial", "generation"},
         UNCHANGED <<envVars, requested, size, generations, polls, limit, termination>>
  PROVE  StageInv'
<1>0. FieldsInv /\ BatchInv /\ CountInv /\ LogInv BY DEF StageInv
<1>1. Initial \in Nat /\ Budget \in Nat /\ Initial > 0 BY <1>0, Limits DEF FieldsInv
<1>2. count \in Nat /\ count > 0 /\ count <= Initial BY <1>1
<1>3. /\ "kernel" \in Phases /\ "restoration" \in Phases
      /\ analysed["kernel"] \in Nat /\ rejects["kernel"] \in Nat
      /\ stop["kernel"] \in Nat /\ stop["kernel"] <= Budget
      /\ stop["restoration"] \in Nat
  BY <1>0, Counters
<1>4. Steady /\ setting' = setting /\ run' = run /\ stop' = stop /\ limit' = limit
  BY <1>0 DEF FieldsInv, Steady, envVars, Terminations, Places
<1>5. PICK scored \in 0..count, passed \in 0..count :
        passed \in 0..scored /\ Left("kernel", count, remaining, scored, passed)
  <2>1. \E scored \in 0..count : \E passed \in 0..scored :
           Left("kernel", count, remaining, scored, passed)
    BY <1>0, <1>2, <1>3, WaveLeaves
  <2>2. \A scored \in 0..count : \A passed \in 0..scored : passed \in 0..count BY <1>2
  <2> QED BY <2>1, <2>2
<1>6. /\ scored \in Nat /\ passed \in Nat /\ scored <= count /\ passed <= scored
      /\ passed <= count
  BY <1>2, <1>5
<1>7. stop' \in [Phases -> 0..Budget] /\ limit' \in Nat BY <1>0, <1>4 DEF FieldsInv
<1>8. /\ FieldsInv' /\ BatchInv'
      /\ analysed'["kernel"] = analysed["kernel"] + passed
      /\ rejects'["kernel"] = rejects["kernel"] + (scored - passed)
      /\ \A p \in Phases : p # "kernel" => /\ analysed'[p] = analysed[p]
                                           /\ rejects'[p] = rejects[p]
                                           /\ log'[p] = log[p]
      /\ log'["kernel"] # <<>>
      /\ \A p \in Phases : Whole(p, Len(log[p]) - 1)'
      /\ FoundValid => FoundValid'
  BY <1>0, <1>2, <1>3, <1>4, <1>5, <1>7, WaveAdds, SMTT(30)
<1>9. /\ Budget' = Budget /\ Initial' = Initial /\ Schedule' = Schedule
  BY <1>0, <1>4, Limits DEF FieldsInv
<1>10. /\ analysed'["restoration"] = 0 /\ rejects'["restoration"] = 0
       /\ log'["restoration"] = <<>> /\ limit' = 0
  BY <1>0, <1>3, <1>4, <1>8 DEF CountInv
<1>11. passed <= remaining BY <1>5 DEF Left
<1>12. analysed'["kernel"] <= stop'["kernel"] /\ Total' <= Budget
  <2>1. analysed["kernel"] + passed <= stop["kernel"] BY <1>3, <1>6, <1>11
  <2>2. Total' = analysed["kernel"] + passed BY <1>3, <1>6, <1>8, <1>10 DEF Total
  <2> QED BY <1>1, <1>3, <1>4, <1>6, <1>8, <2>1, <2>2, SMTT(30)
<1>13. rejects'["kernel"] < MaxRejects + Initial
  <2>1. MaxRejects \in Nat BY RefinementAssumption
  <2> QED BY <1>1, <1>2, <1>3, <1>6, <1>8, <2>1
<1>14. Base("restoration")' = 0 BY <1>10 DEF Base
<1>15. limit' <= Minus(MaxRejects, rejects'["kernel"])
  <2>1. MaxRejects \in Nat BY RefinementAssumption
  <2>2. rejects'["kernel"] \in Nat BY <1>3, <1>6, <1>8, SMTT(30)
  <2>3. Minus(MaxRejects, rejects'["kernel"]) \in Nat BY <2>1, <2>2 DEF Minus
  <2> QED BY <1>10, <2>3
<1>16. ~FoundValid' => analysed'["kernel"] <= Most(Initial, Minus(Schedule, Reserve))
  <2> SUFFICES ASSUME ~FoundValid'
               PROVE  analysed'["kernel"] <= Most(Initial, Minus(Schedule, Reserve))
    OBVIOUS
  <2>1. analysed["kernel"] + count <= Most(Initial, Minus(Schedule, Reserve)) BY <1>8
  <2>2. Most(Initial, Minus(Schedule, Reserve)) \in Int
    <3>1. Schedule \in Nat /\ Reserve \in Nat
      BY <1>0, Limits, RefinementAssumption DEF FieldsInv
    <3> QED BY <1>1, <3>1 DEF Most, Minus
  <2> QED BY <1>2, <1>3, <1>6, <1>8, <2>1, <2>2
<1>17. ~Polling' /\ pc' # "enter" BY DEF Polling
<1>18. CountInv'
  <2>1. run' = "replay" => stop'["kernel"] + stop'["restoration"] <= Budget
    BY <1>0, <1>4 DEF CountInv
  <2> QED BY <1>9, <1>10, <1>12, <1>13, <1>14, <1>15, <1>16, <1>17, <2>1 DEF CountInv
<1>19. LogInv' BY <1>8 DEF LogInv
<1> QED BY <1>8, <1>18, <1>19 DEF StageInv

(* A batch of the restoration, likewise. *)
LEMMA RestorationWave ==
  ASSUME StageInv, NEW count \in Nat, count > 0, NEW remaining \in Nat,
         Wave("restoration", count, remaining), Polling,
         analysed["restoration"] + remaining <= stop["restoration"],
         Base("restoration") + count <= limit,
         Whole("restoration", Len(log["restoration"])),
         pc' \in {"polled", "tried"}, polls' \in 0..MaxPolls,
         pc' = "polled" => polls' < MaxPolls,
         pc' = "tried" => count <= remaining,
         UNCHANGED <<envVars, requested, size, generations, limit, termination>>
  PROVE  StageInv'
<1>0. FieldsInv /\ BatchInv /\ CountInv /\ LogInv BY DEF StageInv
<1>1. Initial \in Nat /\ Budget \in Nat BY <1>0, Limits DEF FieldsInv
<1>3. /\ "kernel" \in Phases /\ "restoration" \in Phases
      /\ analysed["kernel"] \in Nat /\ analysed["restoration"] \in Nat
      /\ Base("restoration") \in Nat /\ limit \in Nat
      /\ stop["kernel"] \in Nat /\ stop["restoration"] \in Nat
  BY <1>0, Counters DEF FieldsInv
<1>4. Steady /\ setting' = setting /\ run' = run /\ stop' = stop /\ limit' = limit
  BY <1>0 DEF FieldsInv, Steady, envVars, Terminations, Places
<1>5. PICK scored \in 0..count, passed \in 0..count :
        passed \in 0..scored /\ Left("restoration", count, remaining, scored, passed)
  <2>1. \E scored \in 0..count : \E passed \in 0..scored :
           Left("restoration", count, remaining, scored, passed)
    BY <1>0, <1>3, WaveLeaves
  <2>2. \A scored \in 0..count : \A passed \in 0..scored : passed \in 0..count OBVIOUS
  <2> QED BY <2>1, <2>2
<1>6. /\ scored \in Nat /\ passed \in Nat /\ scored <= count /\ passed <= scored
  BY <1>5
<1>7. stop' \in [Phases -> 0..Budget] /\ limit' \in Nat BY <1>0, <1>4 DEF FieldsInv
<1>8. /\ FieldsInv' /\ BatchInv'
      /\ analysed'["restoration"] = analysed["restoration"] + passed
      /\ Base("restoration")' = Base("restoration") + scored
      /\ \A p \in Phases : p # "restoration" => /\ analysed'[p] = analysed[p]
                                                /\ rejects'[p] = rejects[p]
                                                /\ log'[p] = log[p]
      /\ log'["restoration"] # <<>>
      /\ \A p \in Phases : Whole(p, Len(log[p]) - 1)'
      /\ scored = count => Whole("restoration", Len(log["restoration"]))'
      /\ FoundValid => FoundValid'
  BY <1>0, <1>3, <1>4, <1>5, <1>7, WaveAdds, SMTT(30)
<1>9. /\ Budget' = Budget /\ Initial' = Initial /\ Schedule' = Schedule
  BY <1>0, <1>4, Limits DEF FieldsInv
<1>10. analysed'["kernel"] = analysed["kernel"] /\ rejects'["kernel"] = rejects["kernel"]
  BY <1>3, <1>8
<1>11. passed <= remaining BY <1>5 DEF Left
<1>12. /\ analysed["kernel"] + stop["restoration"] <= Budget
       /\ analysed'["restoration"] <= stop["restoration"]
       /\ Total' <= Budget
  <2>1. analysed["kernel"] + stop["restoration"] <= Budget BY <1>0 DEF CountInv
  <2>2. analysed["restoration"] + passed <= stop["restoration"]
    BY <1>3, <1>6, <1>11, SMTT(30)
  <2>3. Total' = analysed["kernel"] + (analysed["restoration"] + passed)
    BY <1>8, <1>10 DEF Total
  <2>4. analysed'["restoration"] = analysed["restoration"] + passed BY <1>8
  <2> QED BY <1>1, <1>3, <1>6, <2>1, <2>2, <2>3, <2>4, SMTT(30)
<1>13. Base("restoration")' <= limit BY <1>3, <1>6, <1>8
<1>14. ~Before' /\ pc' # "enter" BY DEF Before
<1>15. CountInv'
  <2>1. /\ analysed["kernel"] <= stop["kernel"]
        /\ run = "replay" => stop["kernel"] + stop["restoration"] <= Budget
        /\ rejects["kernel"] < MaxRejects + Initial
        /\ limit <= Minus(MaxRejects, rejects["kernel"])
        /\ ~FoundValid => analysed["kernel"] <= Most(Initial, Minus(Schedule, Reserve))
    BY <1>0 DEF CountInv
  <2> QED BY <1>4, <1>8, <1>9, <1>10, <1>12, <1>13, <1>14, <2>1 DEF CountInv
<1>16. ASSUME pc' = "tried"
       PROVE  Whole("restoration", Len(log["restoration"]))' \/ (Timed' /\ expired')
  <2>1. Timed' = Timed BY <1>4 DEF Timed
  <2>2. scored = count \/ (Timed /\ expired') \/ remaining < count BY <1>5 DEF Left
  <2>3. ~(remaining < count) BY <1>16
  <2>4. scored = count \/ (Timed' /\ expired') BY <2>1, <2>2, <2>3
  <2> QED BY <1>8, <2>4
<1>17. LogInv' BY <1>8, <1>16 DEF LogInv
<1> QED BY <1>8, <1>15, <1>17 DEF StageInv

-----------------------------------------------------------------------------
(* The steps. *)

LEMMA InitStage == Init => StageInv
<1> SUFFICES ASSUME Init PROVE StageInv OBVIOUS
<1>1. setting \in Settings BY DEF Init, Settings
<1>2. /\ Budget \in Nat /\ Initial \in Nat /\ Floor \in Nat /\ Floor <= Initial /\ Initial > 0
  BY <1>1, Limits
<1>3. setting.timed \in BOOLEAN BY <1>1 DEF Settings
<1>4. stop \in [Phases -> 0..Budget] /\ stop["kernel"] = Budget
  BY <1>2 DEF Init, Phases
<1>5. /\ \A p \in Phases : analysed[p] = 0 /\ rejects[p] = 0 /\ log[p] = <<>>
      /\ analysed \in [Phases -> Nat] /\ rejects \in [Phases -> Nat]
      /\ log \in [Phases -> Seq(Batch)] /\ sample \in [Phases -> Seq(Kinds)]
      /\ \A p \in Phases : Len(sample[p]) = 0
  BY DEF Init, Zero
<1>6. FieldsInv
  <2>1. MaxPolls \in Nat BY RefinementAssumption
  <2>2. size \in Floor..Initial /\ polls \in 0..MaxPolls /\ limit \in Nat /\ generations \in Nat
    BY <1>2, <2>1 DEF Init
  <2>3. expired \in BOOLEAN /\ requested \in BOOLEAN BY <1>3 DEF Init
  <2> QED BY <1>1, <1>4, <1>5, <2>2, <2>3 DEF Init, FieldsInv
<1>7. \A p \in Phases : Base(p) = 0 BY <1>5 DEF Base
<1>8. BatchInv BY <1>5, <1>7 DEF BatchInv, End
<1>9. "kernel" \in Phases /\ "restoration" \in Phases BY DEF Phases
<1>10. CountInv
  <2>1. Total = 0 BY <1>5, <1>9 DEF Total
  <2>2. MaxRejects \in Nat /\ MaxRejects > 0 /\ Reserve \in Nat BY RefinementAssumption
  <2>3. Minus(MaxRejects, 0) \in Nat BY <2>2 DEF Minus
  <2>4. 0 <= Most(Initial, Minus(Schedule, Reserve))
    <3>1. Schedule \in Nat BY <1>1, Limits
    <3> QED BY <1>2, <2>2, <3>1 DEF Most, Minus
  <2>5. pc = "enter" /\ run = "original" /\ limit = 0 BY DEF Init
  <2> QED BY <1>2, <1>4, <1>5, <1>7, <1>9, <2>1, <2>2, <2>3, <2>4, <2>5
          DEF CountInv, Polling, Before
<1>11. LogInv
  <2>1. \A p \in Phases : Whole(p, Len(log[p]) - 1)
    <3>1. \A p \in Phases : \A i : i \notin 1..(Len(log[p]) - 1) BY <1>5
    <3> QED BY <3>1 DEF Whole
  <2> QED BY <2>1 DEF Init, LogInv
<1> QED BY <1>6, <1>8, <1>10, <1>11 DEF StageInv

(* What the fields say of a step that leaves them alone. *)
LEMMA StillSteady ==
  ASSUME FieldsInv, setting' = setting
  PROVE  /\ requested \in BOOLEAN /\ size \in Floor..Initial /\ generations \in Nat
         /\ polls \in 0..MaxPolls /\ termination \in Terminations /\ pc \in Places
BY DEF FieldsInv, Terminations, Places

LEMMA RequestKeeps == StageInv /\ Request => StageInv'
<1> SUFFICES ASSUME StageInv, Request PROVE StageInv' OBVIOUS
<1>0. FieldsInv BY DEF StageInv
<1>1. /\ requested' = TRUE
      /\ UNCHANGED <<setting, run, stop, sample, pc, expired, size, generations, polls, limit,
                     countVars, termination>>
  BY DEF Request, envVars
<1>2. Steady BY <1>0, <1>1, StillSteady DEF Steady, FieldsInv
<1>3. (Before' => Before) /\ (Polling' => Polling) BY <1>1 DEF Before, Polling
<1> QED BY <1>1, <1>2, <1>3, QuietStep

(* The kernel returns, from wherever it stands. *)
LEMMA KernelReturns ==
  ASSUME StageInv, NEW why \in Terminations,
         pc \in {"enter", "initial", "top", "generation"},
         pc' = "restore", termination' = why, generations' \in Nat, size' \in Floor..Initial,
         UNCHANGED <<envVars, sample, expired, requested, polls, limit, countVars>>
  PROVE  StageInv'
<1>0. FieldsInv BY DEF StageInv
<1>1. UNCHANGED <<setting, run, stop, sample, expired, limit, countVars>> BY DEF envVars
<1>2. Steady BY <1>0, <1>1, StillSteady DEF Steady, Places
<1>3. (Before' => Before) /\ (Polling' => Polling) BY DEF Before, Polling
<1> QED BY <1>1, <1>2, <1>3, QuietStep

LEMMA LinearIsInt == ASSUME FieldsInv PROVE \A e \in Nat : Linear(e) \in Int
<1> SUFFICES ASSUME NEW e \in Nat PROVE Linear(e) \in Int OBVIOUS
<1>1. Schedule \in Nat /\ Schedule > 0 /\ Initial \in Nat /\ Floor \in Nat
  BY Limits DEF FieldsInv
<1>2. Least(e, Schedule) \in Nat BY <1>1 DEF Least
<1>3. \A i, f, n, d \in Nat : n > 0 => (2 * (i * n - (i - f) * d) + n) \div (2 * n) \in Int
  <2> SUFFICES ASSUME NEW i \in Nat, NEW f \in Nat, NEW n \in Nat, NEW d \in Nat, n > 0
               PROVE  (2 * (i * n - (i - f) * d) + n) \div (2 * n) \in Int
    OBVIOUS
  <2>1. i * n \in Int /\ (i - f) * d \in Int
    <3>1. i - f \in Int OBVIOUS
    <3> QED BY <3>1
  <2>2. 2 * (i * n - (i - f) * d) + n \in Int
    <3> DEFINE u == i * n
               w == (i - f) * d
    <3>1. u \in Int /\ w \in Int BY <2>1
    <3> HIDE DEF u, w
    <3>2. 2 * (u - w) + n \in Int BY <3>1
    <3> QED BY <3>2 DEF u, w
  <2>3. 2 * n \in Nat /\ 2 * n > 0 OBVIOUS
  <2> DEFINE top == 2 * (i * n - (i - f) * d) + n
             under == 2 * n
  <2>4. top \in Int /\ under \in Nat /\ under > 0 BY <2>2, <2>3
  <2> HIDE DEF top, under
  <2>5. top \div under \in Int BY <2>4
  <2> QED BY <2>5 DEF top, under
<1> QED BY <1>1, <1>2, <1>3 DEF Linear

(* The population never grows and stops at its floor. *)
LEMMA NextSizeInRange ==
  ASSUME FieldsInv
  PROVE  Least(NextSize, size) \in Floor..Initial
<1>1. Initial \in Nat /\ Floor \in Nat BY Limits DEF FieldsInv
<1>2. size \in Nat /\ Floor <= size /\ size <= Initial BY <1>1 DEF FieldsInv
<1>3. Linear(analysed["kernel"]) \in Int BY Counters, LinearIsInt
<1>4. NextSize \in Int /\ NextSize >= Floor BY <1>1, <1>2, <1>3 DEF NextSize, Least, Most
<1> QED BY <1>1, <1>2, <1>4 DEF Least

LEMMA KernelKeeps == StageInv /\ Kernel => StageInv'
<1> SUFFICES ASSUME StageInv, Kernel PROVE StageInv' OBVIOUS
<1>0. FieldsInv /\ BatchInv /\ CountInv /\ LogInv BY DEF StageInv
<1>a. generations \in Nat /\ size \in Floor..Initial /\ termination \in Terminations
  BY <1>0 DEF FieldsInv, Terminations
<1>b. PrefixTermination \in Terminations BY DEF PrefixTermination, Terminations
<1>c. ASSUME NEW why \in Terminations, pc \in {"enter", "initial", "top", "generation"},
             KernelEnds(why)
      PROVE  StageInv'
  BY <1>a, <1>c, KernelReturns DEF KernelEnds
<1>d. {"evaluation_budget", "pregate_exhausted", "time_budget", "cancelled", "stagnated"}
        \subseteq Terminations
  BY DEF Terminations
<1>e. /\ Initial \in Nat /\ Initial > 0 /\ Schedule \in Nat /\ Budget \in Nat
      /\ Reserve \in Nat /\ MaxRejects \in Nat /\ MaxRejects > 0
      /\ analysed["kernel"] \in Nat /\ rejects["kernel"] \in Nat /\ stop["kernel"] \in Nat
      /\ "kernel" \in Phases
  BY <1>0, Limits, Counters, RefinementAssumption DEF FieldsInv
<1>1. CASE InitialCancelled BY <1>1, <1>c, <1>d DEF InitialCancelled
<1>2. CASE InitialPopulation
  <2>1. /\ pc = "enter" /\ Wave("kernel", Initial, stop["kernel"]) /\ pc' = "initial"
        /\ UNCHANGED <<envVars, requested, size, generations, polls, limit, termination>>
    BY <1>2 DEF InitialPopulation
  <2>2. /\ analysed["kernel"] = 0 /\ rejects["kernel"] = 0 /\ log["kernel"] = <<>>
    BY <1>0, <2>1 DEF CountInv
  <2>3. analysed["kernel"] + Initial <= Most(Initial, Minus(Schedule, Reserve))
    BY <1>e, <2>2 DEF Most, Minus
  <2>4. Whole("kernel", Len(log["kernel"])) BY <2>2 DEF Whole
  <2>5. analysed["kernel"] + stop["kernel"] <= stop["kernel"] BY <1>e, <2>2
  <2>6. Before BY <2>1 DEF Before
  <2>7. Initial \in 1..Initial BY <1>e
  <2>8. rejects["kernel"] < MaxRejects BY <1>e, <2>2
  <2> QED BY <1>e, <2>1, <2>3, <2>4, <2>5, <2>6, <2>7, <2>8, KernelWave
<1>3. CASE InitialEnds BY <1>3, <1>b, <1>c, <1>d DEF InitialEnds
<1>4. CASE InitialDone
  <2>1. /\ pc = "initial" /\ ~Short("kernel") /\ pc' = "top"
        /\ UNCHANGED <<setting, run, stop, sample, expired, requested, size, generations, polls,
                       limit, countVars, termination>>
    BY <1>4 DEF InitialDone, envVars
  <2>2. log["kernel"] # <<>> BY <1>0, <2>1 DEF LogInv
  <2>3. Whole("kernel", Len(log["kernel"])) BY <1>0, <1>e, <2>1, <2>2, NotShort
  <2>4. Steady BY <1>0, <2>1, StillSteady DEF Steady, Places
  <2>5. (Before' => Before) /\ (Polling' => Polling) BY <2>1 DEF Before, Polling
  <2> QED BY <2>1, <2>3, <2>4, <2>5, QuietStep
<1>5. CASE OperatorsStop BY <1>5, <1>c, <1>d DEF OperatorsStop
<1>6. CASE CountReached BY <1>6, <1>c, <1>d DEF CountReached, InLoop
<1>7. CASE CapReached BY <1>7, <1>c, <1>d DEF CapReached, InLoop
<1>8. CASE LimitReached BY <1>8, <1>c, <1>d DEF LimitReached, MayGenerate, InLoop
<1>9. CASE TimeReached BY <1>9, <1>c, <1>d DEF TimeReached, MayGenerate, InLoop
<1>10. CASE GenerationCancelled
  BY <1>10, <1>c, <1>d DEF GenerationCancelled, MayGenerate, InLoop
<1>11. CASE Generation
  <2>1. /\ pc = "top" /\ ~Reached /\ ~Capped /\ Count > 0 /\ pc' = "generation"
        /\ Wave("kernel", Count, stop["kernel"] - analysed["kernel"])
        /\ UNCHANGED <<envVars, requested, size, generations, polls, limit, termination>>
    BY <1>11 DEF Generation, MayGenerate, InLoop
  <2>2. analysed["kernel"] < stop["kernel"] /\ rejects["kernel"] < MaxRejects
    BY <1>e, <2>1 DEF Reached, Capped
  <2>3. EvaluationLimit \in Nat BY <1>e DEF EvaluationLimit, Minus
  <2>4. size \in Nat /\ size <= Initial
    <3>1. Floor \in Nat BY <1>0, Limits DEF FieldsInv
    <3> QED BY <1>a, <1>e, <3>1
  <2>5. Count \in Nat /\ Count <= size /\ Count <= Minus(EvaluationLimit, analysed["kernel"])
    BY <1>e, <2>3, <2>4 DEF Count, Least, Minus
  <2>6. analysed["kernel"] + Count <= EvaluationLimit
    BY <1>e, <2>1, <2>3, <2>5 DEF Minus
  <2>7. ~FoundValid => analysed["kernel"] + Count <= Most(Initial, Minus(Schedule, Reserve))
    <3> SUFFICES ASSUME ~FoundValid
                 PROVE  analysed["kernel"] + Count <= Most(Initial, Minus(Schedule, Reserve))
      OBVIOUS
    <3>1. EvaluationLimit = Minus(Schedule, Reserve) BY DEF EvaluationLimit
    <3>2. EvaluationLimit <= Most(Initial, EvaluationLimit) BY <1>e, <2>3 DEF Most
    <3>3. Most(Initial, EvaluationLimit) \in Nat BY <1>e, <2>3 DEF Most
    <3> QED BY <1>e, <2>3, <2>5, <2>6, <3>1, <3>2, <3>3
  <2>8. Count \in 1..Initial BY <1>e, <2>1, <2>4, <2>5
  <2>9. /\ stop["kernel"] - analysed["kernel"] \in Nat
        /\ analysed["kernel"] + (stop["kernel"] - analysed["kernel"]) <= stop["kernel"]
    BY <1>e, <2>2
  <2>10. Whole("kernel", Len(log["kernel"])) BY <1>0, <2>1 DEF LogInv
  <2>11. Before BY <2>1 DEF Before
  <2> QED BY <2>1, <2>2, <2>7, <2>8, <2>9, <2>10, <2>11, KernelWave
<1>12. CASE BatchCancelled BY <1>12, <1>c, <1>d DEF BatchCancelled
<1>13. CASE GenerationCut BY <1>13, <1>a, <1>b, KernelReturns DEF GenerationCut
<1>14. CASE GenerationDone
  <2>1. /\ pc = "generation" /\ ~Short("kernel")
        /\ generations' = generations + 1 /\ size' = Least(NextSize, size)
        /\ (pc' = "restore" /\ termination' = "stagnated")
             \/ (pc' = "top" /\ termination' = termination)
        /\ UNCHANGED <<envVars, sample, expired, requested, polls, limit, countVars>>
    BY <1>14 DEF GenerationDone
  <2>2. size' \in Floor..Initial BY <1>0, <2>1, NextSizeInRange
  <2>3. generations' \in Nat BY <1>a, <2>1
  <2>4. CASE pc' = "restore" /\ termination' = "stagnated"
    BY <1>d, <2>1, <2>2, <2>3, <2>4, KernelReturns
  <2>5. CASE pc' = "top" /\ termination' = termination
    <3>1. UNCHANGED <<setting, run, stop, sample, expired, requested, polls, limit, countVars>>
      BY <2>1 DEF envVars
    <3>2. log["kernel"] # <<>> BY <1>0, <2>1 DEF LogInv
    <3>3. Whole("kernel", Len(log["kernel"])) BY <1>0, <1>e, <2>1, <3>2, NotShort
    <3>4. Steady BY <1>0, <2>2, <2>3, <2>5, <3>1, StillSteady DEF Steady, Places
    <3>5. (Before' => Before) /\ (Polling' => Polling) BY <2>1, <2>5 DEF Before, Polling
    <3> QED BY <2>1, <2>5, <3>1, <3>3, <3>4, <3>5, QuietStep
  <2> QED BY <2>1, <2>4, <2>5
<1> QED BY <1>1, <1>2, <1>3, <1>4, <1>5, <1>6, <1>7, <1>8, <1>9, <1>10, <1>11, <1>12, <1>13,
           <1>14 DEF Kernel

(* The restoration returns, from wherever it stands. *)
LEMMA StageReturns ==
  ASSUME StageInv, pc' \in {"done", "unreplayable"}, termination' \in Terminations,
         polls' \in 0..MaxPolls,
         UNCHANGED <<envVars, sample, expired, requested, size, generations, limit, countVars>>
  PROVE  StageInv'
<1>0. FieldsInv BY DEF StageInv
<1>1. UNCHANGED <<setting, run, stop, sample, expired, limit, countVars>> BY DEF envVars
<1>2. Steady BY <1>0, <1>1, StillSteady DEF Steady, Places
<1>3. ~Before' /\ ~Polling' BY DEF Before, Polling
<1> QED BY <1>1, <1>2, <1>3, QuietStep

(* The restoration starts with what the kernel left of its stop, and with  *)
(* no more scores than the rejections leave.                               *)
LEMMA StartKeeps == StageInv /\ StartRestoration => StageInv'
<1> SUFFICES ASSUME StageInv, StartRestoration PROVE StageInv' OBVIOUS
<1>0. FieldsInv /\ BatchInv /\ CountInv /\ LogInv BY DEF StageInv
<1>1. /\ pc = "restore" /\ NeedsRestoration /\ pc' = "poll"
      /\ stop' = IF run = "original"
                   THEN [stop EXCEPT !["restoration"] = Minus(stop["kernel"], analysed["kernel"])]
                   ELSE stop
      /\ limit' = Least(MaxPolls * (2 * Free + 1), MaxScores)
      /\ UNCHANGED <<setting, run, sample, expired, requested, size, generations, polls,
                     analysed, rejects, log, termination>>
  BY DEF StartRestoration, countVars
<1>2. /\ Budget \in Nat /\ Initial \in Nat /\ Budget' = Budget /\ Initial' = Initial
      /\ Schedule' = Schedule /\ Floor' = Floor
  BY <1>0, <1>1, Limits DEF FieldsInv
<1>3. /\ "kernel" \in Phases /\ "restoration" \in Phases
      /\ analysed["kernel"] \in Nat /\ rejects["kernel"] \in Nat
      /\ stop["kernel"] \in Nat /\ stop["kernel"] <= Budget /\ stop["restoration"] \in Nat
      /\ stop["restoration"] <= Budget /\ stop \in [Phases -> 0..Budget]
  BY <1>0, Counters DEF FieldsInv
<1>4. /\ Total <= Budget /\ analysed["kernel"] <= stop["kernel"]
      /\ run = "replay" => stop["kernel"] + stop["restoration"] <= Budget
      /\ analysed["restoration"] = 0 /\ rejects["restoration"] = 0
      /\ log["restoration"] = <<>>
      /\ rejects["kernel"] < MaxRejects + Initial
      /\ ~FoundValid => analysed["kernel"] <= Most(Initial, Minus(Schedule, Reserve))
  BY <1>0, <1>1 DEF CountInv, Before
<1>5. /\ stop' \in [Phases -> 0..Budget] /\ stop'["kernel"] = stop["kernel"]
      /\ analysed["kernel"] + stop'["restoration"] <= Budget
      /\ run = "replay" => stop' = stop
  <2>1. CASE run = "original"
    <3>1. stop' = [stop EXCEPT !["restoration"] = Minus(stop["kernel"], analysed["kernel"])]
      BY <1>1, <2>1
    <3>2. /\ Minus(stop["kernel"], analysed["kernel"]) \in 0..Budget
          /\ analysed["kernel"] + Minus(stop["kernel"], analysed["kernel"]) <= Budget
      BY <1>2, <1>3, <1>4 DEF Minus
    <3>3. stop'["restoration"] = Minus(stop["kernel"], analysed["kernel"])
          /\ stop'["kernel"] = stop["kernel"]
      BY <1>3, <3>1 DEF Phases
    <3>4. stop' \in [Phases -> 0..Budget] BY <1>3, <3>1, <3>2
    <3> QED BY <2>1, <3>2, <3>3, <3>4
  <2>2. CASE run # "original"
    <3>1. run = "replay" BY <1>0, <2>2 DEF FieldsInv
    <3>2. stop' = stop BY <1>1, <2>2
    <3>3. analysed["kernel"] + stop["restoration"] <= Budget BY <1>2, <1>3, <1>4, <3>1
    <3> QED BY <1>3, <3>2, <3>3
  <2> QED BY <2>1, <2>2
<1>6. limit' \in Nat /\ limit' <= Minus(MaxRejects, rejects["kernel"])
  <2>1. /\ MaxRejects \in Nat /\ MaxPolls \in Nat /\ Free \in Nat BY RefinementAssumption
  <2>2. MaxPolls * (2 * Free + 1) \in Nat BY <2>1
  <2>3. Minus(MaxRejects, rejects["kernel"]) \in Nat BY <1>3, <2>1 DEF Minus
  <2>4. Budget - analysed["kernel"] \in Nat BY <1>2, <1>3, <1>4
  <2>5. MaxScores \in Nat /\ MaxScores <= Minus(MaxRejects, rejects["kernel"])
    BY <2>3, <2>4 DEF MaxScores, Least
  <2> DEFINE most == MaxPolls * (2 * Free + 1)
  <2>6. limit' = Least(most, MaxScores) /\ most \in Nat BY <1>1, <2>2
  <2> HIDE DEF most
  <2> QED BY <2>3, <2>5, <2>6 DEF Least
<1>7. FieldsInv' BY <1>0, <1>1, <1>2, <1>5, <1>6 DEF FieldsInv
<1>8. \A p \in Phases : Base(p)' = Base(p) BY <1>1 DEF Base
<1>9. BatchInv' BY <1>0, <1>1, <1>8 DEF BatchInv, End
<1>10. FoundValid' = FoundValid BY <1>1, <1>8 DEF FoundValid
<1>11. CountInv'
  <2>1. Total' = Total BY <1>1 DEF Total
  <2>2. Base("restoration")' = 0 BY <1>1, <1>4 DEF Base
  <2>3. ~Before' BY <1>1 DEF Before
  <2>4. analysed'["restoration"] = 0 /\ stop'["restoration"] \in Nat
    BY <1>1, <1>2, <1>3, <1>4, <1>5
  <2>5. Base("restoration")' <= limit' BY <1>6, <2>2
  <2>6. analysed'["restoration"] <= stop'["restoration"] BY <2>4
  <2> QED BY <1>1, <1>2, <1>4, <1>5, <1>6, <1>10, <2>1, <2>3, <2>5, <2>6 DEF CountInv
<1>12. LogInv'
  <2>1. \A p, n : Whole(p, n)' = Whole(p, n) BY <1>1 DEF Whole
  <2>2. Whole("restoration", Len(log["restoration"])) BY <1>4 DEF Whole
  <2> QED BY <1>0, <1>1, <2>1, <2>2 DEF LogInv
<1> QED BY <1>7, <1>9, <1>11, <1>12 DEF StageInv

LEMMA RestorationKeeps == StageInv /\ Restoration => StageInv'
<1> SUFFICES ASSUME StageInv, Restoration PROVE StageInv' OBVIOUS
<1>0. FieldsInv /\ BatchInv /\ CountInv /\ LogInv BY DEF StageInv
<1>a. /\ polls \in 0..MaxPolls /\ termination \in Terminations /\ "cancelled" \in Terminations
  BY <1>0 DEF FieldsInv, Terminations
<1>b. ASSUME NEW why \in Terminations, Ends(why) PROVE StageInv'
  BY <1>a, <1>b, StageReturns DEF Ends
<1>c. /\ Free \in Nat /\ Free > 0 /\ MaxPolls \in Nat BY RefinementAssumption
<1>d. /\ polls \in Nat /\ polls <= MaxPolls /\ (pc = "polled" => polls < MaxPolls)
      /\ limit \in Nat
  BY <1>0, <1>c DEF FieldsInv
<1>e. /\ "restoration" \in Phases /\ analysed["restoration"] \in Nat
      /\ stop["restoration"] \in Nat /\ Base("restoration") \in Nat
  BY <1>0, Counters
<1>f. Timed \in BOOLEAN BY <1>0 DEF FieldsInv, Timed, Settings
<1>1. CASE NoRestoration BY <1>1, <1>a, <1>b DEF NoRestoration
<1>2. CASE RestorationCancelled BY <1>2, <1>a, <1>b DEF RestorationCancelled
<1>3. CASE StartRestoration BY <1>3, StartKeeps
<1>4. CASE PollsEnd BY <1>4, <1>a, <1>b DEF PollsEnd
<1>5. CASE PollCancelled BY <1>5, <1>a, <1>b DEF PollCancelled
<1>6. CASE Poll
  <2>1. /\ pc = "poll" /\ polls < MaxPolls /\ Fits
        /\ analysed["restoration"] < stop["restoration"] /\ (Timed => ~expired)
        /\ Wave("restoration", 2 * Free, stop["restoration"] - analysed["restoration"])
        /\ pc' = "polled"
        /\ UNCHANGED <<envVars, requested, size, generations, polls, limit, termination>>
    BY <1>6 DEF Poll, MayPoll
  <2>2. 2 * Free \in Nat /\ 2 * Free > 0 BY <1>c
  <2>3. /\ stop["restoration"] - analysed["restoration"] \in Nat
        /\ analysed["restoration"] + (stop["restoration"] - analysed["restoration"])
             <= stop["restoration"]
    BY <1>e, <2>1
  <2>4. Base("restoration") + 2 * Free <= limit BY <2>1 DEF Fits
  <2>5. Whole("restoration", Len(log["restoration"])) BY <1>0, <2>1 DEF LogInv
  <2>6. Polling BY <2>1 DEF Polling
  <2>7. polls' \in 0..MaxPolls /\ polls' < MaxPolls BY <1>a, <2>1
  <2> QED BY <2>1, <2>2, <2>3, <2>4, <2>5, <2>6, <2>7, RestorationWave
<1>7. CASE PollStops
  <2>1. /\ pc \in {"polled", "tried"}
        /\ polls' = IF pc = "polled" /\ ~requested THEN polls + 1 ELSE polls
        /\ pc' = "done"
        /\ termination' = IF requested THEN "cancelled" ELSE termination
        /\ UNCHANGED <<envVars, sample, expired, requested, size, generations, limit, countVars>>
    BY <1>7 DEF PollStops
  <2>2. polls' \in 0..MaxPolls BY <1>c, <1>d, <2>1
  <2>3. termination' \in Terminations BY <1>a, <2>1
  <2> QED BY <2>1, <2>2, <2>3, StageReturns
<1>8. CASE Try
  <2>1. /\ pc = "polled" /\ ~Short("restoration") /\ MayTry
        /\ Wave("restoration", 1, 1)
        /\ polls' = polls + 1 /\ pc' = "tried"
        /\ UNCHANGED <<envVars, requested, size, generations, limit, termination>>
    BY <1>8 DEF Try
  <2>2. Base("restoration") < limit /\ analysed["restoration"] < stop["restoration"]
    BY <2>1 DEF MayTry
  <2>3. log["restoration"] # <<>> BY <1>0, <2>1 DEF LogInv
  <2>4. Whole("restoration", Len(log["restoration"])) BY <1>0, <1>e, <2>1, <2>3, NotShort
  <2>5. Polling BY <2>1 DEF Polling
  <2>6. polls' \in 0..MaxPolls BY <1>c, <1>d, <2>1
  <2>7. /\ analysed["restoration"] + 1 <= stop["restoration"]
        /\ Base("restoration") + 1 <= limit
    BY <1>d, <1>e, <2>2
  <2>8. 1 \in Nat /\ 1 > 0 /\ 1 <= 1 /\ pc' # "polled" BY <2>1
  <2> QED BY <2>1, <2>4, <2>5, <2>6, <2>7, <2>8, RestorationWave
<1>9. CASE PollDone
  <2>1. /\ (pc = "polled" /\ ~Short("restoration")) \/ pc = "tried"
        /\ polls' = IF pc = "polled" THEN polls + 1 ELSE polls
        /\ pc' = "poll"
        /\ UNCHANGED <<setting, run, stop, sample, expired, requested, size, generations, limit,
                       countVars, termination>>
    BY <1>9 DEF PollDone, envVars
  <2>2. polls' \in 0..MaxPolls BY <1>c, <1>d, <2>1
  <2>3. Steady BY <1>0, <2>1, <2>2, StillSteady DEF Steady, Places
  <2>4. (Before' => Before) /\ (Polling' => Polling) BY <2>1 DEF Before, Polling
  <2>5. Whole("restoration", Len(log["restoration"])) \/ (Timed /\ expired)
    <3>1. CASE pc = "polled" /\ ~Short("restoration")
      <4>1. log["restoration"] # <<>> BY <1>0, <3>1 DEF LogInv
      <4> QED BY <1>0, <1>e, <3>1, <4>1, NotShort
    <3>2. CASE pc = "tried" BY <1>0, <3>2 DEF LogInv
    <3> QED BY <2>1, <3>1, <3>2
  <2>6. pc' # "enter" /\ pc' # "top" /\ pc' \notin {"initial", "generation", "polled", "tried"}
    BY <2>1
  <2> QED BY <2>1, <2>3, <2>4, <2>5, <2>6, QuietStep
<1> QED BY <1>1, <1>2, <1>3, <1>4, <1>5, <1>6, <1>7, <1>8, <1>9 DEF Restoration

LEMMA UnreplayableKeeps == StageInv /\ Unreplayable => StageInv'
<1> SUFFICES ASSUME StageInv, Unreplayable PROVE StageInv' OBVIOUS
<1>0. FieldsInv BY DEF StageInv
<1>1. termination \in Terminations /\ polls \in 0..MaxPolls
  BY <1>0 DEF FieldsInv, Terminations
<1> QED BY <1>1, StageReturns DEF Unreplayable

(* The replay starts afresh, with the recorded counts inside the budget.   *)
LEMMA ReplayKeeps == StageInv /\ Replay => StageInv'
<1> SUFFICES ASSUME StageInv, Replay PROVE StageInv' OBVIOUS
<1>0. FieldsInv /\ BatchInv /\ CountInv /\ LogInv BY DEF StageInv
<1>1. /\ Total > 0 /\ run' = "replay" /\ stop' = ReplayStop(Total, analysed["restoration"])
      /\ expired' = FALSE /\ requested' = FALSE
      /\ pc' = "enter" /\ size' = Initial /\ generations' = 0 /\ polls' = 0 /\ limit' = 0
      /\ analysed' = Zero /\ rejects' = Zero /\ log' = [p \in Phases |-> <<>>]
      /\ termination' = "evaluation_budget"
      /\ setting' = setting /\ sample' = sample
  BY DEF Replay
<1>2. /\ Budget \in Nat /\ Initial \in Nat /\ Floor \in Nat /\ Floor <= Initial /\ Initial > 0
      /\ Schedule \in Nat /\ Budget > 0
      /\ Budget' = Budget /\ Initial' = Initial /\ Schedule' = Schedule /\ Floor' = Floor
  BY <1>0, <1>1, Limits DEF FieldsInv
<1>3. /\ "kernel" \in Phases /\ "restoration" \in Phases
      /\ analysed["kernel"] \in Nat /\ analysed["restoration"] \in Nat
  BY <1>0, Counters
<1>4. Total <= Budget /\ Total \in Nat BY <1>0, <1>3 DEF CountInv, Total
<1>5. Total >= analysed["restoration"] BY <1>3 DEF Total
<1>6. /\ stop' \in [Phases -> 0..Budget]
      /\ stop'["kernel"] + stop'["restoration"] <= Budget
      /\ stop'["kernel"] \in Nat
  <2> DEFINE restored == analysed["restoration"]
             kept == Minus(Least(Most(Total, 1), Budget), restored)
  <2>1. restored \in Nat /\ restored <= Budget BY <1>2, <1>3, <1>4, <1>5
  <2>2. Least(Most(Total, 1), Budget) = Total BY <1>1, <1>2, <1>4 DEF Least, Most
  <2>3. kept \in Nat /\ kept + restored <= Budget BY <1>2, <1>3, <1>4, <1>5, <2>2 DEF Minus
  <2>4. stop' = [kernel |-> kept, restoration |-> restored] BY <1>1 DEF ReplayStop
  <2> HIDE DEF restored, kept
  <2>5. stop'["kernel"] = kept /\ stop'["restoration"] = restored BY <2>4
  <2>6. kept \in 0..Budget /\ restored \in 0..Budget BY <1>2, <2>1, <2>3
  <2>7. stop' \in [Phases -> 0..Budget] BY <2>4, <2>6 DEF Phases
  <2> QED BY <2>3, <2>5, <2>7
<1>7. /\ \A p \in Phases : analysed'[p] = 0 /\ rejects'[p] = 0 /\ log'[p] = <<>>
      /\ analysed' \in [Phases -> Nat] /\ rejects' \in [Phases -> Nat]
      /\ log' \in [Phases -> Seq(Batch)] /\ sample' \in [Phases -> Seq(Kinds)]
  BY <1>0, <1>1 DEF Zero, FieldsInv
<1>8. FieldsInv'
  <2>1. MaxPolls \in Nat BY RefinementAssumption
  <2>2. size' \in Floor..Initial /\ polls' \in 0..MaxPolls /\ limit' \in Nat
        /\ generations' \in Nat
    BY <1>1, <1>2, <2>1
  <2>3. setting' \in Settings BY <1>0, <1>1 DEF FieldsInv
  <2> QED BY <1>1, <1>2, <1>6, <1>7, <2>2, <2>3 DEF FieldsInv
<1>9. \A p \in Phases : Base(p)' = 0 BY <1>7 DEF Base
<1>10. BatchInv'
  <2>1. \A p \in Phases : Len(sample'[p]) \in Nat BY <1>7
  <2>2. \A p \in Phases : Base(p)' <= Len(sample'[p]) BY <1>9, <2>1
  <2> QED BY <1>7, <1>9, <2>2 DEF BatchInv, End
<1>11. CountInv'
  <2>1. Total' = 0 BY <1>3, <1>7 DEF Total
  <2>2. MaxRejects \in Nat /\ MaxRejects > 0 /\ Reserve \in Nat BY RefinementAssumption
  <2>3. Minus(MaxRejects, 0) \in Nat BY <2>2 DEF Minus
  <2>4. 0 <= Most(Initial, Minus(Schedule, Reserve)) BY <1>2, <2>2 DEF Most, Minus
  <2>5. Base("restoration")' = 0 BY <1>3, <1>9
  <2>6. ~Polling' BY <1>1 DEF Polling
  <2>7. /\ Total' <= Budget' /\ analysed'["kernel"] = 0 /\ analysed'["restoration"] = 0
        /\ rejects'["kernel"] = 0 /\ rejects'["restoration"] = 0
        /\ log'["kernel"] = <<>> /\ log'["restoration"] = <<>>
        /\ limit' = 0 /\ 0 <= stop'["kernel"]
        /\ 0 < MaxRejects + Initial'
    BY <1>1, <1>2, <1>3, <1>6, <1>7, <2>1, <2>2
  <2>8. Most(Initial, Minus(Schedule, Reserve))' = Most(Initial, Minus(Schedule, Reserve))
    BY <1>2 DEF Most, Minus
  <2>9. stop'["kernel"] + stop'["restoration"] <= Budget' BY <1>2, <1>6
  <2> QED BY <2>3, <2>4, <2>5, <2>6, <2>7, <2>8, <2>9 DEF CountInv
<1>12. LogInv'
  <2>1. \A p \in Phases : \A i : i \notin 1..(Len(log'[p]) - 1) BY <1>7
  <2>2. \A p \in Phases : Whole(p, Len(log[p]) - 1)' BY <2>1 DEF Whole
  <2> QED BY <1>1, <2>2 DEF LogInv
<1> QED BY <1>8, <1>10, <1>11, <1>12 DEF StageInv

LEMMA StutterKeeps == StageInv /\ UNCHANGED vars => StageInv'
<1> SUFFICES ASSUME StageInv, UNCHANGED vars PROVE StageInv' OBVIOUS
<1>0. FieldsInv BY DEF StageInv
<1>1. UNCHANGED <<setting, run, stop, sample, pc, expired, requested, size, generations, polls,
                  limit, countVars, termination>>
  BY DEF vars, envVars
<1>2. Steady BY <1>0, <1>1, StillSteady DEF Steady, FieldsInv
<1>3. (Before' => Before) /\ (Polling' => Polling) BY <1>1 DEF Before, Polling
<1> QED BY <1>1, <1>2, <1>3, QuietStep

LEMMA StageStep == StageInv /\ [Next]_vars => StageInv'
BY RequestKeeps, KernelKeeps, RestorationKeeps, UnreplayableKeeps, ReplayKeeps, StutterKeeps
   DEF Next

LEMMA StageInvariant == Spec => []StageInv
BY InitStage, StageStep, PTL DEF Spec

-----------------------------------------------------------------------------
(* The population's schedule. *)

(* The line the population falls on.                                       *)
LEMMA ProductGrows ==
  ASSUME NEW k \in Nat, NEW d \in Nat, NEW e \in Nat, d <= e
  PROVE  k * d <= k * e
<1>1. PICK x \in Nat : e = d + x
  <2>1. e - d \in Nat /\ e = d + (e - d) OBVIOUS
  <2> QED BY <2>1
<1>2. k * e = k * d + k * x BY <1>1
<1>3. k * x \in Nat /\ k * d \in Nat OBVIOUS
<1> QED BY <1>2, <1>3

LEMMA QuotientOf ==
  ASSUME NEW m \in Nat, m > 0, NEW a \in Int
  PROVE  \E q \in Int, r \in 0..(m - 1) : a = m * q + r /\ a \div m = q
OBVIOUS

LEMMA QuotientGrows ==
  ASSUME NEW m \in Nat, m > 0, NEW a \in Int, NEW b \in Int, a <= b
  PROVE  a \div m <= b \div m
OBVIOUS

LEMMA LinearFalls ==
  ASSUME FieldsInv, NEW d \in Nat, NEW e \in Nat, d <= e
  PROVE  Linear(e) <= Linear(d) /\ Linear(e) <= Initial
<1> DEFINE i == Initial
           n == Schedule
           k == Initial - Floor
           D == Least(d, n)
           E == Least(e, n)
<1>1. n \in Nat /\ n > 0 /\ i \in Nat /\ k \in Nat BY Limits DEF FieldsInv
<1>2. D \in Nat /\ E \in Nat /\ D <= E BY <1>1 DEF Least
<1>3. /\ Linear(d) = (2 * (i * n - k * D) + n) \div (2 * n)
      /\ Linear(e) = (2 * (i * n - k * E) + n) \div (2 * n)
  BY DEF Linear
<1> HIDE DEF i, n, k, D, E
<1>4. k * D <= k * E BY <1>1, <1>2, ProductGrows
<1> DEFINE x == i * n
           y == k * D
           z == k * E
           m == 2 * n
<1>5. x \in Nat /\ y \in Nat /\ z \in Nat /\ m \in Nat /\ m > 0 /\ y <= z
  BY <1>1, <1>2, <1>4
<1>6. m * i = 2 * x /\ m = 2 * n BY <1>1
<1>7. /\ Linear(d) = (2 * (x - y) + n) \div m /\ Linear(e) = (2 * (x - z) + n) \div m
  BY <1>3
<1> HIDE DEF x, y, z, m
<1>8. 2 * (x - z) + n <= 2 * (x - y) + n BY <1>1, <1>5
<1>9. 2 * (x - z) + n \in Int /\ 2 * (x - y) + n \in Int BY <1>1, <1>5
<1>10. Linear(e) <= Linear(d) BY <1>5, <1>7, <1>8, <1>9, QuotientGrows
<1> DEFINE u == 2 * (x - z) + n
<1>11. u \div m <= i
  <2>0. u \in Int BY <1>9
  <2>1. PICK q \in Int, r \in 0..(m - 1) :
          u = m * q + r /\ u \div m = q
    <3> HIDE DEF u
    <3> QED BY <1>5, <2>0, QuotientOf
  <2>2. u < 2 * x + m BY <1>1, <1>5, <1>6
  <2> HIDE DEF u
  <2>3. m * q < m * i + m BY <1>1, <1>5, <1>6, <2>0, <2>1, <2>2
  <2>4. ~(q >= i + 1)
    <3> SUFFICES ASSUME q >= i + 1 PROVE FALSE OBVIOUS
    <3>1. PICK w \in Nat : q = (i + 1) + w
      <4>1. q - (i + 1) \in Nat /\ q = (i + 1) + (q - (i + 1)) BY <1>1
      <4> QED BY <4>1
    <3>2. m * q = m * i + m + m * w BY <1>1, <1>5, <3>1
    <3>3. m * w \in Nat /\ m * i \in Nat /\ m * q \in Int BY <1>1, <1>5
    <3> QED BY <1>5, <2>3, <3>2, <3>3
  <2> QED BY <1>1, <2>1, <2>4
<1>12. Linear(e) <= i BY <1>7, <1>11
<1> QED BY <1>10, <1>12 DEF i

-----------------------------------------------------------------------------
(* What a phase did, read off its log and its sample. *)

(* The end of the i-th batch of a log, what passed among the first b       *)
(* points of a phase, and whether one of them is valid.                    *)
EndOf(l, i)        == IF i = 0 THEN 0 ELSE l[i].from + l[i].scored
Analysed(p, b)     == Passed(sample[p], 0, b)
ValidUpTo(p, b)    == \E i \in 1..b : sample[p][i] = "valid"

(* What the i-th batch of the kernel, after b points, must be: the         *)
(* population is laid out on what was analysed, the draw is cut by the     *)
(* budget open to the kernel, and no test at the head of the generation    *)
(* had ended it.                                                           *)
SizeAt(i, b)  == IF i <= 2 THEN Initial ELSE Most(Linear(Analysed("kernel", b)), Floor)
LimitAt(b)    == IF ValidUpTo("kernel", b) THEN Budget ELSE Minus(Schedule, Reserve)
KernelDraws(i, b) ==
  IF i = 1 THEN Initial ELSE Least(SizeAt(i, b), Minus(LimitAt(b), Analysed("kernel", b)))
Unsettled(i, b) == i >= 3 /\ ValidUpTo("kernel", b) => i - 2 # setting.stagnates

KernelLog(l) ==
  \A i \in 1..Len(l) :
    /\ l[i].drawn = KernelDraws(i, l[i].from)
    /\ i >= 2 => /\ SizeAt(i, l[i].from) >= OperatorMin
                 /\ l[i].from - Analysed("kernel", l[i].from) < MaxRejects
                 /\ Unsettled(i, l[i].from)

(* What a restoration after b points of the kernel may score, and what its *)
(* i-th batch draws: a poll, or the gradient trial behind one.             *)
LimitFrom(b)    ==
  Least(MaxPolls * (2 * Free + 1),
        Least(Budget - Analysed("kernel", b), Minus(MaxRejects, b - Analysed("kernel", b))))
RestorationDraws(i) == IF setting.gradient /\ i % 2 = 0 THEN 1 ELSE 2 * Free
PollsIn(n)      == IF setting.gradient THEN (n + 1) \div 2 ELSE n

RestorationLog(l, b) ==
  /\ \A i \in 1..Len(l) : /\ l[i].drawn = RestorationDraws(i)
                          /\ l[i].from + l[i].drawn <= LimitFrom(b)
                          /\ ~ValidUpTo("restoration", l[i].from)
  /\ PollsIn(Len(l)) <= MaxPolls
  /\ l # <<>> => ~ValidUpTo("kernel", b) /\ Analysed("kernel", b) > 0

(* The batches of a log follow one another along a sample, and the one     *)
(* that was cut, the last, was cut before a point that passes.             *)
BatchLog(s, l) ==
  \A i \in 1..Len(l) :
    /\ l[i].from = EndOf(l, i - 1)
    /\ l[i].drawn > 0 /\ l[i].scored <= l[i].drawn
    /\ i < Len(l) => l[i].scored = l[i].drawn
    /\ l[i].from + l[i].scored <= Len(s)
    /\ l[i].analysed = Passed(s, l[i].from, l[i].scored)
    /\ l[i].scored < l[i].drawn => /\ l[i].from + l[i].scored < Len(s)
                                   /\ s[l[i].from + l[i].scored + 1] # "rejected"

Logs(l) ==
  /\ \A p \in Phases : BatchLog(sample[p], l[p])
  /\ KernelLog(l["kernel"])
  /\ RestorationLog(l["restoration"], EndOf(l["kernel"], Len(l["kernel"])))

Batches(p) == Len(log[p])

(* Where the stage stands tells its counters from its logs.                *)
PlaceInv ==
  /\ pc \in {"enter", "initial"} => size = Initial /\ generations = 0
  /\ pc = "initial" => Batches("kernel") = 1
  /\ pc = "top" => /\ Batches("kernel") >= 1
                   /\ size = SizeAt(Batches("kernel") + 1, Base("kernel"))
                   /\ Unsettled(Batches("kernel") + 1, Base("kernel"))
                   /\ generations = Batches("kernel") - 1
  /\ pc = "generation" => /\ Batches("kernel") >= 2
                          /\ size = SizeAt(Batches("kernel"), LastBatch("kernel").from)
                          /\ generations = Batches("kernel") - 2
  /\ pc \in {"restore", "poll", "polled", "tried", "done"} /\ termination # "cancelled" =>
       generations = Minus(Batches("kernel"), 1)
  /\ Polling => /\ limit = LimitFrom(Base("kernel")) /\ limit > 0
                /\ ~ValidUpTo("kernel", Base("kernel")) /\ analysed["kernel"] > 0
                /\ termination # "cancelled"
  /\ pc = "poll" => /\ polls = PollsIn(Batches("restoration"))
                    /\ ~ValidUpTo("restoration", Base("restoration"))
                    /\ setting.gradient /\ Batches("restoration") % 2 = 1 =>
                         \/ Base("restoration") >= limit
                         \/ analysed["restoration"] >= stop["restoration"]
                         \/ Timed /\ expired
  /\ pc = "polled" => /\ polls + 1 = PollsIn(Batches("restoration"))
                      /\ setting.gradient => Batches("restoration") % 2 = 1
  /\ pc = "tried" => /\ polls = PollsIn(Batches("restoration"))
                     /\ setting.gradient /\ Batches("restoration") % 2 = 0
  /\ Before => polls = 0

(* Logs of batches a run could have sent, none of them missing a guard.    *)
PlayedInv ==
  /\ Logs(log)
  /\ \A p \in Phases : analysed[p] = Analysed(p, Base(p))

RunInv == PlayedInv /\ PlaceInv

(* What a replay was given: the counts that stop its phases are those of   *)
(* logs a run could have sent.                                             *)
Recorded(p) == EndOf(recorded.log[p], Len(recorded.log[p]))

RecordInv ==
  run = "replay" =>
    /\ ~requested
    /\ recorded.log \in [Phases -> Seq(Batch)] /\ recorded.valid \in BOOLEAN
    /\ Logs(recorded.log)
    /\ recorded.analysed = stop /\ stop["kernel"] > 0
    /\ \A p \in Phases : stop[p] = Analysed(p, Recorded(p))
    /\ recorded.valid <=> \E p \in Phases : ValidUpTo(p, Recorded(p))
    /\ recorded.termination # "cancelled" =>
         recorded.generations = Minus(Len(recorded.log["kernel"]), 1)

(* The replay sends the batches of the record, and a phase does not end    *)
(* before its count.                                                       *)
FollowInv ==
  run = "replay" =>
    /\ \A p \in Phases : /\ Len(log[p]) <= Len(recorded.log[p])
                         /\ \A i \in 1..Len(log[p]) : log[p][i] = recorded.log[p][i]
    /\ termination # "cancelled"
    /\ pc \in {"restore", "poll", "polled", "tried", "done"} =>
         analysed["kernel"] = stop["kernel"]
    /\ pc = "done" => analysed["restoration"] = stop["restoration"]
    /\ pc # "unreplayable"

ReplayInv == StageInv /\ RunInv /\ RecordInv /\ FollowInv

LEMMA EndsGrow ==
  ASSUME NEW l \in Seq(Batch), \A i \in 1..Len(l) : l[i].from = EndOf(l, i - 1)
  PROVE  /\ \A j \in 0..Len(l) : EndOf(l, j) \in Nat
         /\ \A j \in 1..Len(l) : EndOf(l, j) = EndOf(l, j - 1) + l[j].scored
         /\ \A i, j \in 0..Len(l) : i <= j => EndOf(l, i) <= EndOf(l, j)
<1>0. Len(l) \in Nat OBVIOUS
<1>1. \A j \in 1..Len(l) : l[j].from \in Nat /\ l[j].scored \in Nat
  <2>1. \A j \in 1..Len(l) : l[j] \in Batch OBVIOUS
  <2> QED BY <2>1 DEF Batch
<1>2. \A j \in 0..Len(l) : EndOf(l, j) \in Nat
  <2> TAKE j \in 0..Len(l)
  <2>1. CASE j = 0 BY <2>1 DEF EndOf
  <2>2. CASE j # 0
    <3>1. j \in 1..Len(l) BY <1>0, <2>2
    <3> QED BY <1>1, <2>2, <3>1 DEF EndOf
  <2> QED BY <2>1, <2>2
<1>3. ASSUME NEW j \in 1..Len(l) PROVE EndOf(l, j) = EndOf(l, j - 1) + l[j].scored
  <2>1. j # 0 OBVIOUS
  <2>2. EndOf(l, j) = l[j].from + l[j].scored BY <2>1 DEF EndOf
  <2> QED BY <2>2
<1>4. ASSUME NEW i \in 0..Len(l), NEW k \in 0..Len(l), i <= k
      PROVE  EndOf(l, i) <= EndOf(l, k)
  <2> DEFINE S == {j \in Nat : i <= j /\ j <= Len(l) /\ ~(EndOf(l, i) <= EndOf(l, j))}
  <2>a. k \in Nat /\ k <= Len(l) BY <1>0
  <2>b. k \notin S => EndOf(l, i) <= EndOf(l, k) BY <1>4, <2>a
  <2> SUFFICES S = {} BY <2>b
  <2> SUFFICES ASSUME S # {} PROVE FALSE OBVIOUS
  <2>1. S \in SUBSET Nat OBVIOUS
  <2>2. PICK j \in S : \A n \in S : j <= n
    <3> HIDE DEF S
    <3> QED BY <2>1, LeastIsIn
  <2>3. i \in Nat /\ j \in Nat /\ i <= j /\ j <= Len(l) /\ ~(EndOf(l, i) <= EndOf(l, j))
    OBVIOUS
  <2>4. j # i
    <3>1. EndOf(l, i) <= EndOf(l, i) BY <1>2
    <3> QED BY <2>3, <3>1
  <2>5. j \in 1..Len(l) /\ j - 1 \in Nat /\ i <= j - 1 /\ j - 1 <= Len(l) /\ ~(j <= j - 1)
    BY <1>0, <2>3, <2>4
  <2>6. EndOf(l, i) <= EndOf(l, j - 1) BY <2>2, <2>5
  <2>7. EndOf(l, j) = EndOf(l, j - 1) + l[j].scored BY <1>3, <2>5
  <2>8. /\ EndOf(l, i) \in Nat /\ EndOf(l, j - 1) \in Nat /\ l[j].scored \in Nat
    BY <1>0, <1>1, <1>2, <2>3, <2>5
  <2>9. EndOf(l, i) <= EndOf(l, j) BY <2>6, <2>7, <2>8
  <2> QED BY <2>3, <2>9
<1> QED BY <1>2, <1>3, <1>4

(* What was scored is told by the sample as it was, however it grows.      *)
LEMMA PrefixStays ==
  ASSUME FieldsInv, Grows, NEW p \in Phases
  PROVE  /\ Len(sample[p]) \in Nat /\ Len(sample'[p]) \in Nat
         /\ Len(sample[p]) <= Len(sample'[p])
         /\ \A b \in Nat : b <= Len(sample[p]) =>
              /\ Analysed(p, b) \in 0..b /\ Analysed(p, b)' = Analysed(p, b)
              /\ ValidUpTo(p, b)' <=> ValidUpTo(p, b)
         /\ \A b, c \in Nat : b + c <= Len(sample[p]) =>
              Passed(sample'[p], b, c) = Passed(sample[p], b, c)
<1>1. /\ Len(sample[p]) \in Nat /\ Len(sample'[p]) \in Nat
      /\ Len(sample[p]) <= Len(sample'[p])
      /\ \A i \in 1..Len(sample[p]) : sample'[p][i] = sample[p][i]
  <2>1. sample[p] \in Seq(Kinds) /\ sample'[p] \in Seq(Kinds) BY DEF FieldsInv, Grows
  <2> QED BY <2>1 DEF Grows
<1>2. ASSUME NEW b \in Nat, NEW c \in Nat, b + c <= Len(sample[p])
      PROVE  Passed(sample'[p], b, c) = Passed(sample[p], b, c)
  <2>1. \A i \in (b + 1)..(b + c) : sample'[p][i] = sample[p][i] BY <1>1, <1>2
  <2> QED BY <2>1, PassedSame
<1>3. ASSUME NEW b \in Nat, b <= Len(sample[p])
      PROVE  /\ Analysed(p, b) \in 0..b /\ Analysed(p, b)' = Analysed(p, b)
             /\ ValidUpTo(p, b)' <=> ValidUpTo(p, b)
  <2>1. Analysed(p, b) \in 0..b
    <3>1. 0 \in Nat OBVIOUS
    <3> QED BY <3>1, PassedPoints DEF Analysed
  <2>2. Passed(sample'[p], 0, b) = Passed(sample[p], 0, b)
    <3>1. 0 \in Nat /\ 0 + b <= Len(sample[p]) BY <1>3
    <3> QED BY <1>2, <3>1
  <2>3. \A i \in 1..b : sample'[p][i] = sample[p][i] BY <1>1, <1>3
  <2> QED BY <2>1, <2>2, <2>3 DEF Analysed, ValidUpTo
<1> QED BY <1>1, <1>2, <1>3

(* ... and so do the schedule and the limits that depend on it.            *)
LEMMA SchedulesStay ==
  ASSUME FieldsInv, Grows, setting' = setting, NEW b \in Nat, b <= Len(sample["kernel"])
  PROVE  /\ \A i \in Nat : /\ SizeAt(i, b)' = SizeAt(i, b)
                           /\ KernelDraws(i, b)' = KernelDraws(i, b)
                           /\ Unsettled(i, b)' <=> Unsettled(i, b)
         /\ LimitFrom(b)' = LimitFrom(b)
<1>1. "kernel" \in Phases BY DEF Phases
<1>2. Analysed("kernel", b)' = Analysed("kernel", b)
      /\ (ValidUpTo("kernel", b)' <=> ValidUpTo("kernel", b))
  BY <1>1, PrefixStays
<1>3. /\ Budget' = Budget /\ Schedule' = Schedule /\ Initial' = Initial /\ Floor' = Floor
  BY Limits DEF FieldsInv
<1>4. \A e : Linear(e)' = Linear(e) BY <1>3 DEF Linear
<1>5. \A i \in Nat : SizeAt(i, b)' = SizeAt(i, b) BY <1>2, <1>3, <1>4 DEF SizeAt
<1>6. LimitAt(b)' = LimitAt(b) BY <1>2, <1>3 DEF LimitAt
<1>7. \A i \in Nat : KernelDraws(i, b)' = KernelDraws(i, b)
  BY <1>2, <1>3, <1>5, <1>6 DEF KernelDraws
<1>8. \A i \in Nat : Unsettled(i, b)' <=> Unsettled(i, b) BY <1>2 DEF Unsettled
<1>9. LimitFrom(b)' = LimitFrom(b) BY <1>2, <1>3 DEF LimitFrom
<1> QED BY <1>5, <1>7, <1>8, <1>9

LEMMA LogsStay ==
  ASSUME FieldsInv, Grows, setting' = setting,
         NEW l \in [Phases -> Seq(Batch)], Logs(l)
  PROVE  Logs(l)'
<1>0. "kernel" \in Phases /\ "restoration" \in Phases BY DEF Phases
<1>1. ASSUME NEW p \in Phases, NEW i \in 1..Len(l[p])
      PROVE  /\ l[p][i].from \in Nat /\ l[p][i].scored \in Nat /\ l[p][i].drawn \in Nat
             /\ l[p][i].from + l[p][i].scored <= Len(sample[p])
             /\ l[p][i].from <= Len(sample[p])
  <2>1. l[p][i] \in Batch OBVIOUS
  <2>2. l[p][i].from \in Nat /\ l[p][i].scored \in Nat /\ l[p][i].drawn \in Nat
    BY <2>1 DEF Batch
  <2>3. l[p][i].from + l[p][i].scored <= Len(sample[p]) BY DEF Logs, BatchLog
  <2>4. Len(sample[p]) \in Nat BY PrefixStays
  <2> QED BY <2>2, <2>3, <2>4
<1>2. ASSUME NEW p \in Phases PROVE BatchLog(sample'[p], l[p])
  <2>1. ASSUME NEW i \in 1..Len(l[p])
        PROVE  /\ l[p][i].from = EndOf(l[p], i - 1)
               /\ l[p][i].drawn > 0 /\ l[p][i].scored <= l[p][i].drawn
               /\ i < Len(l[p]) => l[p][i].scored = l[p][i].drawn
               /\ l[p][i].from + l[p][i].scored <= Len(sample'[p])
               /\ l[p][i].analysed = Passed(sample'[p], l[p][i].from, l[p][i].scored)
               /\ l[p][i].scored < l[p][i].drawn =>
                    /\ l[p][i].from + l[p][i].scored < Len(sample'[p])
                    /\ sample'[p][l[p][i].from + l[p][i].scored + 1] # "rejected"
    <3>1. BatchLog(sample[p], l[p]) BY DEF Logs
    <3>2. /\ l[p][i].from = EndOf(l[p], i - 1)
          /\ l[p][i].drawn > 0 /\ l[p][i].scored <= l[p][i].drawn
          /\ i < Len(l[p]) => l[p][i].scored = l[p][i].drawn
          /\ l[p][i].analysed = Passed(sample[p], l[p][i].from, l[p][i].scored)
          /\ l[p][i].scored < l[p][i].drawn =>
               /\ l[p][i].from + l[p][i].scored < Len(sample[p])
               /\ sample[p][l[p][i].from + l[p][i].scored + 1] # "rejected"
      BY <3>1 DEF BatchLog
    <3> DEFINE f == l[p][i].from
               c == l[p][i].scored
    <3>3. f \in Nat /\ c \in Nat /\ f + c <= Len(sample[p]) BY <1>1
    <3>4. /\ Len(sample[p]) \in Nat /\ Len(sample'[p]) \in Nat
          /\ Len(sample[p]) <= Len(sample'[p])
      BY PrefixStays
    <3>5. Passed(sample'[p], f, c) = Passed(sample[p], f, c)
      <4> HIDE DEF f, c
      <4> QED BY <3>3, PrefixStays
    <3>6. f + c < Len(sample[p]) => /\ sample'[p][f + c + 1] = sample[p][f + c + 1]
                                    /\ f + c < Len(sample'[p])
      <4> HIDE DEF f, c
      <4>1. f + c < Len(sample[p]) => f + c + 1 \in 1..Len(sample[p]) BY <3>3, <3>4
      <4> QED BY <3>3, <3>4, <4>1 DEF Grows
    <3>7. f + c <= Len(sample'[p])
      <4> HIDE DEF f, c
      <4> QED BY <3>3, <3>4
    <3> QED BY <3>2, <3>5, <3>6, <3>7
  <2> QED BY <2>1 DEF BatchLog
<1>3. KernelLog(l["kernel"])'
  <2> DEFINE k == l["kernel"]
  <2>1. ASSUME NEW i \in 1..Len(k)
        PROVE  /\ k[i].drawn = KernelDraws(i, k[i].from)'
               /\ i >= 2 => /\ SizeAt(i, k[i].from)' >= OperatorMin
                            /\ k[i].from - Analysed("kernel", k[i].from)' < MaxRejects
                            /\ Unsettled(i, k[i].from)'
    <3>1. /\ k[i].drawn = KernelDraws(i, k[i].from)
          /\ i >= 2 => /\ SizeAt(i, k[i].from) >= OperatorMin
                       /\ k[i].from - Analysed("kernel", k[i].from) < MaxRejects
                       /\ Unsettled(i, k[i].from)
      BY DEF Logs, KernelLog
    <3>2. PICK f \in Nat : f = k[i].from /\ f <= Len(sample["kernel"]) BY <1>0, <1>1
    <3>3. i \in Nat OBVIOUS
    <3>4. /\ SizeAt(i, f)' = SizeAt(i, f) /\ KernelDraws(i, f)' = KernelDraws(i, f)
          /\ Unsettled(i, f)' <=> Unsettled(i, f)
      BY <3>2, <3>3, SchedulesStay
    <3>5. Analysed("kernel", f)' = Analysed("kernel", f) BY <1>0, <3>2, PrefixStays
    <3> QED BY <3>1, <3>2, <3>4, <3>5
  <2> QED BY <2>1 DEF KernelLog
<1>4. RestorationLog(l["restoration"], EndOf(l["kernel"], Len(l["kernel"])))'
  <2> DEFINE k == l["kernel"]
             t == l["restoration"]
  <2>1. PICK b \in Nat : b = EndOf(k, Len(k)) /\ b <= Len(sample["kernel"])
    <3>1. Len(sample["kernel"]) \in Nat /\ Len(k) \in Nat BY <1>0, PrefixStays
    <3>2. CASE Len(k) = 0 BY <3>1, <3>2 DEF EndOf
    <3>3. CASE Len(k) # 0
      <4>1. Len(k) \in 1..Len(k) BY <3>1, <3>3
      <4>2. /\ k[Len(k)].from \in Nat /\ k[Len(k)].scored \in Nat
            /\ k[Len(k)].from + k[Len(k)].scored <= Len(sample["kernel"])
        BY <1>0, <1>1, <4>1
      <4>3. EndOf(k, Len(k)) = k[Len(k)].from + k[Len(k)].scored BY <3>3 DEF EndOf
      <4> QED BY <4>2, <4>3
    <3> QED BY <3>2, <3>3
  <2>2. RestorationLog(t, b) BY <2>1 DEF Logs
  <2>3. /\ Analysed("kernel", b)' = Analysed("kernel", b)
        /\ ValidUpTo("kernel", b)' <=> ValidUpTo("kernel", b)
        /\ LimitFrom(b)' = LimitFrom(b)
    BY <1>0, <2>1, PrefixStays, SchedulesStay
  <2>4. \A i : RestorationDraws(i)' = RestorationDraws(i) BY DEF RestorationDraws
  <2>5. \A n : PollsIn(n)' = PollsIn(n) BY DEF PollsIn
  <2>6. ASSUME NEW i \in 1..Len(t)
        PROVE  /\ t[i].drawn = RestorationDraws(i)'
               /\ t[i].from + t[i].drawn <= LimitFrom(b)'
               /\ ~ValidUpTo("restoration", t[i].from)'
    <3>1. /\ t[i].drawn = RestorationDraws(i)
          /\ t[i].from + t[i].drawn <= LimitFrom(b)
          /\ ~ValidUpTo("restoration", t[i].from)
      BY <2>2 DEF RestorationLog
    <3>2. PICK f \in Nat : f = t[i].from /\ f <= Len(sample["restoration"]) BY <1>0, <1>1
    <3>3. ValidUpTo("restoration", f)' <=> ValidUpTo("restoration", f)
      BY <1>0, <3>2, PrefixStays
    <3> QED BY <2>3, <2>4, <3>1, <3>2, <3>3
  <2>7. PollsIn(Len(t))' <= MaxPolls BY <2>2, <2>5 DEF RestorationLog
  <2>8. t # <<>> => ~ValidUpTo("kernel", b)' /\ Analysed("kernel", b)' > 0
    BY <2>2, <2>3 DEF RestorationLog
  <2>9. RestorationLog(t, b)' BY <2>6, <2>7, <2>8 DEF RestorationLog
  <2>10. EndOf(k, Len(k))' = b BY <2>1 DEF EndOf
  <2> QED BY <2>9, <2>10
<1> QED BY <1>2, <1>3, <1>4 DEF Logs

-----------------------------------------------------------------------------
(* A batch more. *)

LEMMA OneMore ==
  ASSUME NEW l \in Seq(Batch), NEW e \in Batch
  PROVE  /\ Len(l) \in Nat
         /\ Append(l, e) \in Seq(Batch) /\ Len(Append(l, e)) = Len(l) + 1
         /\ Append(l, e)[Len(l) + 1] = e
         /\ \A i \in 1..Len(l) : Append(l, e)[i] = l[i]
         /\ \A i \in 0..Len(l) : EndOf(Append(l, e), i) = EndOf(l, i)
         /\ EndOf(Append(l, e), Len(l) + 1) = e.from + e.scored
         /\ \A i \in 1..(Len(l) + 1) : i = Len(l) + 1 \/ i \in 1..Len(l)
<1>1. Len(l) \in Nat OBVIOUS
<1>2. /\ Append(l, e) \in Seq(Batch) /\ Len(Append(l, e)) = Len(l) + 1
      /\ Append(l, e)[Len(l) + 1] = e
      /\ \A i \in 1..Len(l) : Append(l, e)[i] = l[i]
  OBVIOUS
<1>3. ASSUME NEW i \in 0..Len(l) PROVE EndOf(Append(l, e), i) = EndOf(l, i)
  <2>1. CASE i = 0 BY <2>1 DEF EndOf
  <2>2. CASE i # 0
    <3>1. i \in 1..Len(l) BY <1>1, <2>2
    <3>2. Append(l, e)[i] = l[i] BY <1>2, <3>1
    <3> QED BY <3>2 DEF EndOf
  <2> QED BY <2>1, <2>2
<1>4. EndOf(Append(l, e), Len(l) + 1) = e.from + e.scored
  <2>1. Len(l) + 1 # 0 BY <1>1
  <2> QED BY <1>2, <2>1 DEF EndOf
<1>5. \A i \in 1..(Len(l) + 1) : i = Len(l) + 1 \/ i \in 1..Len(l) BY <1>1
<1> QED BY <1>1, <1>2, <1>3, <1>4, <1>5

LEMMA BatchEntry ==
  ASSUME NEW s, NEW l \in Seq(Batch), NEW e \in Batch, BatchLog(s, l),
         \A i \in 1..Len(l) : l[i].scored = l[i].drawn,
         e.from = EndOf(l, Len(l)), e.drawn > 0, e.scored <= e.drawn,
         e.from + e.scored <= Len(s), e.analysed = Passed(s, e.from, e.scored),
         e.scored < e.drawn => /\ e.from + e.scored < Len(s)
                               /\ s[e.from + e.scored + 1] # "rejected"
  PROVE  BatchLog(s, Append(l, e))
<1> DEFINE m == Append(l, e)
<1>1. /\ Len(l) \in Nat /\ Len(m) = Len(l) + 1 /\ m[Len(l) + 1] = e
      /\ \A i \in 1..Len(l) : m[i] = l[i]
      /\ \A i \in 0..Len(l) : EndOf(m, i) = EndOf(l, i)
      /\ \A i \in 1..(Len(l) + 1) : i = Len(l) + 1 \/ i \in 1..Len(l)
  BY OneMore
<1> HIDE DEF m
<1>2. ASSUME NEW i \in 1..Len(m)
      PROVE  /\ m[i].from = EndOf(m, i - 1)
             /\ m[i].drawn > 0 /\ m[i].scored <= m[i].drawn
             /\ i < Len(m) => m[i].scored = m[i].drawn
             /\ m[i].from + m[i].scored <= Len(s)
             /\ m[i].analysed = Passed(s, m[i].from, m[i].scored)
             /\ m[i].scored < m[i].drawn => /\ m[i].from + m[i].scored < Len(s)
                                            /\ s[m[i].from + m[i].scored + 1] # "rejected"
  <2>1. CASE i = Len(l) + 1
    <3>1. m[i] = e BY <1>1, <2>1
    <3>2. EndOf(m, i - 1) = EndOf(l, Len(l))
      <4>1. i - 1 = Len(l) /\ Len(l) \in 0..Len(l) BY <1>1, <2>1
      <4> QED BY <1>1, <4>1
    <3>3. ~(i < Len(m)) BY <1>1, <2>1
    <3> QED BY <3>1, <3>2, <3>3
  <2>2. CASE i \in 1..Len(l)
    <3>1. m[i] = l[i] BY <1>1, <2>2
    <3>2. EndOf(m, i - 1) = EndOf(l, i - 1)
      <4>1. i - 1 \in 0..Len(l) BY <1>1, <2>2
      <4> QED BY <1>1, <4>1
    <3> QED BY <2>2, <3>1, <3>2 DEF BatchLog
  <2> QED BY <1>1, <2>1, <2>2
<1> QED BY <1>2 DEF BatchLog, m

LEMMA KernelEntry ==
  ASSUME NEW l \in Seq(Batch), NEW e \in Batch, KernelLog(l)',
         NEW n \in Nat, n = Len(l) + 1,
         e.drawn = KernelDraws(n, e.from)',
         n >= 2 => /\ SizeAt(n, e.from)' >= OperatorMin
                   /\ e.from - Analysed("kernel", e.from)' < MaxRejects
                   /\ Unsettled(n, e.from)'
  PROVE  KernelLog(Append(l, e))'
<1> DEFINE m == Append(l, e)
<1>1. /\ Len(m) = n /\ m[n] = e /\ \A i \in 1..Len(l) : m[i] = l[i]
      /\ \A i \in 1..n : i = n \/ i \in 1..Len(l)
  BY OneMore
<1>2. ASSUME NEW i \in 1..Len(m)
      PROVE  /\ m[i].drawn = KernelDraws(i, m[i].from)'
             /\ i >= 2 => /\ SizeAt(i, m[i].from)' >= OperatorMin
                          /\ m[i].from - Analysed("kernel", m[i].from)' < MaxRejects
                          /\ Unsettled(i, m[i].from)'
  <2>1. CASE i = n
    <3>1. m[i] = e BY <1>1, <2>1
    <3> HIDE DEF m
    <3> QED BY <2>1, <3>1
  <2>2. CASE i \in 1..Len(l)
    <3>1. m[i] = l[i] BY <1>1, <2>2
    <3> HIDE DEF m
    <3> QED BY <2>2, <3>1 DEF KernelLog
  <2> QED BY <1>1, <2>1, <2>2
<1> QED BY <1>2 DEF KernelLog

LEMMA RestorationEntry ==
  ASSUME NEW l \in Seq(Batch), NEW e \in Batch, NEW b, RestorationLog(l, b)',
         NEW n \in Nat, n = Len(l) + 1,
         e.drawn = RestorationDraws(n)', e.from + e.drawn <= LimitFrom(b)',
         ~ValidUpTo("restoration", e.from)', PollsIn(n)' <= MaxPolls,
         ~ValidUpTo("kernel", b)', Analysed("kernel", b)' > 0
  PROVE  RestorationLog(Append(l, e), b)'
<1> DEFINE m == Append(l, e)
<1>1. /\ Len(m) = n /\ m[n] = e /\ \A i \in 1..Len(l) : m[i] = l[i]
      /\ \A i \in 1..n : i = n \/ i \in 1..Len(l)
  BY OneMore
<1>2. ASSUME NEW i \in 1..Len(m)
      PROVE  /\ m[i].drawn = RestorationDraws(i)'
             /\ m[i].from + m[i].drawn <= LimitFrom(b)'
             /\ ~ValidUpTo("restoration", m[i].from)'
  <2>1. CASE i = n
    <3>1. m[i] = e BY <1>1, <2>1
    <3> HIDE DEF m
    <3> QED BY <2>1, <3>1
  <2>2. CASE i \in 1..Len(l)
    <3>1. m[i] = l[i] BY <1>1, <2>2
    <3> HIDE DEF m
    <3> QED BY <2>2, <3>1 DEF RestorationLog
  <2> QED BY <1>1, <2>1, <2>2
<1>3. PollsIn(Len(m))' <= MaxPolls BY <1>1
<1> QED BY <1>2, <1>3 DEF RestorationLog

LEMMA EmptyRestoration ==
  ASSUME NEW b
  PROVE  RestorationLog(<<>>, b) /\ RestorationLog(<<>>, b)'
<1>1. Len(<<>>) = 0 /\ 1..0 = {} OBVIOUS
<1>2. PollsIn(0) <= MaxPolls /\ PollsIn(0)' <= MaxPolls
  <2>1. MaxPolls \in Nat BY RefinementAssumption
  <2>2. (0 + 1) \div 2 = 0 OBVIOUS
  <2> QED BY <2>1, <2>2 DEF PollsIn
<1> QED BY <1>1, <1>2 DEF RestorationLog

(* What the next batch of each phase must be for the logs to go on.        *)
KernelMay(count) ==
  LET i == Len(log["kernel"]) + 1
      b == Base("kernel")
  IN  /\ log["restoration"] = <<>>
      /\ count = KernelDraws(i, b)
      /\ i >= 2 => /\ SizeAt(i, b) >= OperatorMin
                   /\ b - Analysed("kernel", b) < MaxRejects
                   /\ Unsettled(i, b)

RestorationMay(count) ==
  LET i == Len(log["restoration"]) + 1
      k == Base("kernel")
  IN  /\ count = RestorationDraws(i)
      /\ Base("restoration") + count <= LimitFrom(k)
      /\ ~ValidUpTo("restoration", Base("restoration"))
      /\ PollsIn(i) <= MaxPolls
      /\ ~ValidUpTo("kernel", k) /\ Analysed("kernel", k) > 0

LEMMA WavePlays ==
  ASSUME StageInv, PlayedInv, Steady, run' = run, stop' \in [Phases -> 0..Budget],
         limit' \in Nat,
         NEW phase \in Phases, NEW count \in Nat, count > 0, NEW remaining \in Nat,
         NEW scored \in 0..count, NEW passed \in 0..scored,
         Left(phase, count, remaining, scored, passed),
         Whole(phase, Len(log[phase])),
         phase = "kernel" => KernelMay(count),
         phase = "restoration" => RestorationMay(count)
  PROVE  PlayedInv'
<1>0. FieldsInv /\ BatchInv /\ CountInv /\ LogInv BY DEF StageInv
<1>1. PICK b \in Nat : b = Base(phase)
  <2>1. Base(phase) \in Nat BY <1>0, Counters
  <2> QED BY <2>1
<1>2. PICK old \in [Phases -> Seq(Batch)] : old = log BY <1>0 DEF FieldsInv
<1> DEFINE e == [from |-> b, drawn |-> count, scored |-> scored, analysed |-> passed]
<1>3. /\ "kernel" \in Phases /\ "restoration" \in Phases /\ setting' = setting
      /\ \A p \in Phases : /\ old[p] \in Seq(Batch) /\ Len(old[p]) \in Nat
                           /\ Base(p) \in Nat /\ Base(p) = EndOf(old[p], Len(old[p]))
                           /\ Base(p) <= Len(sample[p])
  <2>1. \A p \in Phases : Base(p) = EndOf(log[p], Len(log[p])) /\ Base(p) <= Len(sample[p])
    BY <1>0 DEF BatchInv, End, EndOf
  <2> QED BY <1>0, <1>2, <2>1, Counters DEF Steady
<1>4. /\ scored \in Nat /\ passed \in Nat /\ scored <= count OBVIOUS
<1>5. e \in Batch /\ e.from = b /\ e.drawn = count /\ e.scored = scored /\ e.analysed = passed
  BY <1>4 DEF Batch
<1>6. /\ FieldsInv' /\ BatchInv'
      /\ analysed'[phase] = analysed[phase] + passed
      /\ Base(phase)' = Base(phase) + scored
      /\ \A p \in Phases : p # phase => /\ analysed'[p] = analysed[p]
                                        /\ rejects'[p] = rejects[p]
                                        /\ log'[p] = log[p]
  BY <1>0, WaveAdds
<1>7. /\ Grows /\ b + scored <= Len(sample'[phase])
      /\ passed = Passed(sample'[phase], b, scored)
      /\ scored < count => /\ b + scored < Len(sample'[phase])
                           /\ sample'[phase][b + scored + 1] # "rejected"
      /\ log' = [log EXCEPT ![phase] = Append(@, e)]
  BY <1>1 DEF Left
<1>8. log'[phase] = Append(old[phase], e) /\ \A p \in Phases : p # phase => log'[p] = old[p]
  <2> HIDE DEF e
  <2> QED BY <1>2, <1>6, <1>7
<1>9. Logs(old)' BY <1>0, <1>2, <1>3, <1>7, LogsStay DEF PlayedInv
<1>10. /\ \A p \in Phases : BatchLog(sample'[p], old[p])
       /\ KernelLog(old["kernel"])'
       /\ RestorationLog(old["restoration"], EndOf(old["kernel"], Len(old["kernel"])))'
  BY <1>9 DEF Logs
<1> HIDE DEF e
<1>11. ASSUME NEW p \in Phases PROVE BatchLog(sample'[p], log'[p])
  <2>1. CASE p # phase BY <1>8, <1>10, <2>1
  <2>2. CASE p = phase
    <3>1. \A i \in 1..Len(old[p]) : old[p][i].scored = old[p][i].drawn
      BY <1>2, <2>2 DEF Whole
    <3>2. e.from = EndOf(old[p], Len(old[p])) BY <1>1, <1>3, <1>5, <2>2
    <3>3. BatchLog(sample'[p], Append(old[p], e))
      <4>1. old[p] \in Seq(Batch) /\ BatchLog(sample'[p], old[p]) BY <1>3, <1>10
      <4>2. /\ e.drawn > 0 /\ e.scored <= e.drawn /\ e.from + e.scored <= Len(sample'[p])
            /\ e.analysed = Passed(sample'[p], e.from, e.scored)
            /\ e.scored < e.drawn => /\ e.from + e.scored < Len(sample'[p])
                                     /\ sample'[p][e.from + e.scored + 1] # "rejected"
        BY <1>4, <1>5, <1>7, <2>2
      <4> QED BY <1>5, <3>1, <3>2, <4>1, <4>2, BatchEntry
    <3> QED BY <1>8, <2>2, <3>3
  <2> QED BY <2>1, <2>2
<1>12. PICK n \in Nat : n = Len(old[phase]) + 1 BY <1>3
<1>13. KernelLog(log["kernel"])'
  <2>1. CASE phase # "kernel"
    <3>1. log'["kernel"] = old["kernel"] BY <1>3, <1>8, <2>1
    <3> QED BY <1>10, <3>1
  <2>2. CASE phase = "kernel"
    <3>1. b <= Len(sample["kernel"]) BY <1>1, <1>3, <2>2
    <3>2. /\ count = KernelDraws(n, b)
          /\ n >= 2 => /\ SizeAt(n, b) >= OperatorMin
                       /\ b - Analysed("kernel", b) < MaxRejects
                       /\ Unsettled(n, b)
      BY <1>1, <1>2, <1>12, <2>2 DEF KernelMay
    <3>3. /\ SizeAt(n, b)' = SizeAt(n, b) /\ KernelDraws(n, b)' = KernelDraws(n, b)
          /\ (Unsettled(n, b)' <=> Unsettled(n, b))
      BY <1>0, <1>3, <1>7, <3>1, SchedulesStay
    <3>4. Analysed("kernel", b)' = Analysed("kernel", b)
      BY <1>0, <1>3, <1>7, <3>1, PrefixStays
    <3>5. e.drawn = KernelDraws(n, e.from)'
      <4>1. count = KernelDraws(n, b)' BY <3>2, <3>3
      <4> QED BY <1>5, <4>1
    <3>6. n >= 2 => /\ SizeAt(n, e.from)' >= OperatorMin
                    /\ e.from - Analysed("kernel", e.from)' < MaxRejects
                    /\ Unsettled(n, e.from)'
      <4>1. n >= 2 => /\ SizeAt(n, b)' >= OperatorMin
                      /\ b - Analysed("kernel", b)' < MaxRejects
                      /\ Unsettled(n, b)'
        BY <3>2, <3>3, <3>4
      <4> QED BY <1>5, <4>1
    <3>7. KernelLog(Append(old["kernel"], e))'
      BY <1>3, <1>5, <1>10, <1>12, <2>2, <3>5, <3>6, KernelEntry
    <3> QED BY <1>8, <2>2, <3>7
  <2> QED BY <2>1, <2>2
<1>14. RestorationLog(log["restoration"], EndOf(log["kernel"], Len(log["kernel"])))'
  <2>1. CASE phase # "restoration"
    <3>1. phase = "kernel" BY <2>1 DEF Phases
    <3>2. log'["restoration"] = <<>> BY <1>2, <1>3, <1>8, <3>1 DEF KernelMay
    <3> QED BY <3>2, EmptyRestoration
  <2>2. CASE phase = "restoration"
    <3>1. log'["kernel"] = old["kernel"] BY <1>3, <1>8, <2>2
    <3>2. PICK k \in Nat : k = EndOf(old["kernel"], Len(old["kernel"]))
                           /\ k = Base("kernel") /\ k <= Len(sample["kernel"])
      BY <1>3
    <3>3. b <= Len(sample["restoration"]) BY <1>1, <1>3, <2>2
    <3>4. /\ count = RestorationDraws(n) /\ b + count <= LimitFrom(k)
          /\ ~ValidUpTo("restoration", b) /\ PollsIn(n) <= MaxPolls
          /\ ~ValidUpTo("kernel", k) /\ Analysed("kernel", k) > 0
      BY <1>1, <1>2, <1>12, <2>2, <3>2 DEF RestorationMay
    <3>5. /\ LimitFrom(k)' = LimitFrom(k) /\ Analysed("kernel", k)' = Analysed("kernel", k)
          /\ (ValidUpTo("kernel", k)' <=> ValidUpTo("kernel", k))
          /\ (ValidUpTo("restoration", b)' <=> ValidUpTo("restoration", b))
      BY <1>0, <1>3, <1>7, <3>2, <3>3, SchedulesStay, PrefixStays
    <3>6. RestorationDraws(n)' = RestorationDraws(n) /\ PollsIn(n)' = PollsIn(n)
      BY <1>3 DEF RestorationDraws, PollsIn
    <3>7. /\ e.drawn = RestorationDraws(n)' /\ e.from + e.drawn <= LimitFrom(k)'
          /\ PollsIn(n)' <= MaxPolls /\ ~ValidUpTo("kernel", k)'
          /\ Analysed("kernel", k)' > 0
      BY <1>5, <3>4, <3>5, <3>6
    <3>8. ~ValidUpTo("restoration", e.from)'
      <4>1. ~ValidUpTo("restoration", b)' BY <3>4, <3>5
      <4> QED BY <1>5, <4>1
    <3>9. RestorationLog(old["restoration"], k)' BY <1>10, <3>2
    <3>10. RestorationLog(Append(old["restoration"], e), k)'
      BY <1>3, <1>5, <1>12, <2>2, <3>7, <3>8, <3>9, RestorationEntry
    <3> QED BY <1>8, <2>2, <3>1, <3>2, <3>10
  <2> QED BY <2>1, <2>2
<1>15. Logs(log)' BY <1>11, <1>13, <1>14 DEF Logs
<1>16. ASSUME NEW p \in Phases PROVE analysed'[p] = Analysed(p, Base(p))'
  <2>1. PICK q \in Nat : q = Base(p) /\ q <= Len(sample[p]) BY <1>3
  <2>2. analysed[p] = Analysed(p, q) /\ Analysed(p, q)' = Analysed(p, q)
    <3>1. analysed[p] = Analysed(p, q) BY <2>1 DEF PlayedInv
    <3> QED BY <1>0, <1>7, <2>1, <3>1, PrefixStays
  <2>3. CASE p # phase
    <3>1. analysed'[p] = analysed[p] /\ Base(p)' = q BY <1>6, <2>1, <2>3 DEF Base
    <3> QED BY <2>2, <3>1
  <2>4. CASE p = phase
    <3>1. q = b /\ Base(p)' = b + scored BY <1>1, <1>6, <2>1, <2>4
    <3>2. Passed(sample'[p], 0, b + scored)
            = Passed(sample'[p], 0, b) + Passed(sample'[p], b, scored)
      BY <1>4, PassedAdds
    <3>3. Analysed(p, b)' = Passed(sample'[p], 0, b) BY DEF Analysed
    <3>4. Analysed(p, Base(p))' = Passed(sample'[p], 0, Base(p)') BY DEF Analysed
    <3>5. analysed'[p] = Passed(sample'[p], 0, b) + passed BY <1>6, <2>2, <2>4, <3>1, <3>3
    <3> QED BY <1>7, <2>4, <3>1, <3>2, <3>4, <3>5
  <2> QED BY <2>3, <2>4
<1> QED BY <1>15, <1>16 DEF PlayedInv

-----------------------------------------------------------------------------
(* Where the stage is in its logs. *)

LEMMA Frozen ==
  ASSUME FieldsInv, UNCHANGED <<setting, sample, countVars>>
  PROVE  /\ \A p : /\ Base(p)' = Base(p) /\ Batches(p)' = Batches(p)
                   /\ analysed'[p] = analysed[p] /\ log'[p] = log[p]
                   /\ LastBatch(p)' = LastBatch(p)
         /\ \A p, b : /\ Analysed(p, b)' = Analysed(p, b)
                      /\ ValidUpTo(p, b)' <=> ValidUpTo(p, b)
         /\ \A i, b : /\ SizeAt(i, b)' = SizeAt(i, b)
                      /\ Unsettled(i, b)' <=> Unsettled(i, b)
         /\ \A b : LimitFrom(b)' = LimitFrom(b)
         /\ \A n : PollsIn(n)' = PollsIn(n)
         /\ Initial' = Initial
         /\ PlayedInv => PlayedInv'
<1>1. analysed' = analysed /\ rejects' = rejects /\ log' = log /\ setting' = setting
      /\ sample' = sample
  BY DEF countVars
<1>2. \A p : /\ Base(p)' = Base(p) /\ Batches(p)' = Batches(p)
             /\ analysed'[p] = analysed[p] /\ log'[p] = log[p]
             /\ LastBatch(p)' = LastBatch(p)
  BY <1>1 DEF Base, Batches, LastBatch
<1>3. \A p, b : /\ Analysed(p, b)' = Analysed(p, b)
                /\ ValidUpTo(p, b)' <=> ValidUpTo(p, b)
  BY <1>1 DEF Analysed, ValidUpTo
<1>4. /\ Budget' = Budget /\ Schedule' = Schedule /\ Initial' = Initial /\ Floor' = Floor
  BY <1>1, Limits DEF FieldsInv
<1>5. \A e : Linear(e)' = Linear(e) BY <1>4 DEF Linear
<1>6. \A i, b : /\ SizeAt(i, b)' = SizeAt(i, b)
                /\ Unsettled(i, b)' <=> Unsettled(i, b)
  BY <1>1, <1>3, <1>4, <1>5 DEF SizeAt, Unsettled
<1>7. \A b : LimitFrom(b)' = LimitFrom(b) BY <1>3, <1>4 DEF LimitFrom
<1>8. \A n : PollsIn(n)' = PollsIn(n) BY <1>1 DEF PollsIn
<1>9. ASSUME PlayedInv PROVE PlayedInv'
  <2>1. PICK old \in [Phases -> Seq(Batch)] : old = log BY DEF FieldsInv
  <2>2. Grows
    <3>1. \A p \in Phases : Len(sample[p]) <= Len(sample[p])
      <4>1. \A p \in Phases : sample[p] \in Seq(Kinds) BY DEF FieldsInv
      <4>2. \A p \in Phases : Len(sample[p]) \in Nat BY <4>1
      <4> QED BY <4>2
    <3>2. sample \in [Phases -> Seq(Kinds)] BY DEF FieldsInv
    <3> QED BY <1>1, <3>1, <3>2 DEF Grows
  <2>3. Logs(old)' BY <1>1, <1>9, <2>1, <2>2, LogsStay DEF PlayedInv
  <2>4. Logs(log)' BY <1>1, <2>1, <2>3
  <2>5. \A p \in Phases : analysed'[p] = Analysed(p, Base(p))'
    BY <1>2, <1>3, <1>9 DEF PlayedInv
  <2> QED BY <2>4, <2>5 DEF PlayedInv
<1> QED BY <1>2, <1>3, <1>4, <1>6, <1>7, <1>8, <1>9

LEMMA StillPlaced ==
  ASSUME StageInv, RunInv,
         UNCHANGED <<setting, run, stop, sample, pc, expired, size, generations, polls, limit,
                     countVars, termination>>
  PROVE  RunInv'
<1>0. FieldsInv /\ PlayedInv /\ PlaceInv BY DEF StageInv, RunInv
<1>1. /\ \A p : /\ Base(p)' = Base(p) /\ Batches(p)' = Batches(p)
                /\ analysed'[p] = analysed[p] /\ LastBatch(p)' = LastBatch(p)
      /\ \A p, b : ValidUpTo(p, b)' <=> ValidUpTo(p, b)
      /\ \A i, b : /\ SizeAt(i, b)' = SizeAt(i, b)
                   /\ Unsettled(i, b)' <=> Unsettled(i, b)
      /\ \A b : LimitFrom(b)' = LimitFrom(b)
      /\ \A n : PollsIn(n)' = PollsIn(n)
      /\ Initial' = Initial
      /\ PlayedInv'
  BY <1>0, Frozen
<1>2. (Before' <=> Before) /\ (Polling' <=> Polling) /\ (Timed' <=> Timed)
  BY DEF Before, Polling, Timed
<1>3. PlaceInv' BY <1>0, <1>1, <1>2 DEF PlaceInv
<1> QED BY <1>1, <1>3 DEF RunInv

(* A phase that returns. *)
LEMMA PlaceReturns ==
  ASSUME StageInv, RunInv, pc' \in {"restore", "done", "unreplayable"},
         pc' = "restore" => polls' = 0,
         pc' # "unreplayable" /\ termination' # "cancelled" =>
           generations' = Minus(Batches("kernel"), 1),
         UNCHANGED <<setting, sample, countVars>>
  PROVE  RunInv'
<1>0. FieldsInv /\ PlayedInv BY DEF StageInv, RunInv
<1>1. PlayedInv' /\ Batches("kernel")' = Batches("kernel") BY <1>0, Frozen
<1>2. ~Polling' /\ (Before' => pc' = "restore") BY DEF Polling, Before
<1>3. PlaceInv' BY <1>1, <1>2 DEF PlaceInv, Minus
<1> QED BY <1>1, <1>3 DEF RunInv

(* Before the restoration everything found is in the kernel's sample.      *)
LEMMA FoundInKernel ==
  ASSUME StageInv, Before
  PROVE  FoundValid <=> ValidUpTo("kernel", Base("kernel"))
<1>1. Base("restoration") = 0 BY DEF StageInv, CountInv, Base
<1>2. 1..Base("restoration") = {} BY <1>1
<1> QED BY <1>2 DEF FoundValid, ValidUpTo, Phases

LEMMA FoundAnywhere ==
  FoundValid <=> ValidUpTo("kernel", Base("kernel"))
                   \/ ValidUpTo("restoration", Base("restoration"))
BY DEF FoundValid, ValidUpTo, Phases

LEMMA KernelCounts ==
  ASSUME StageInv, RunInv, NEW p \in Phases
  PROVE  /\ Base(p) \in Nat /\ Base(p) <= Len(sample[p]) /\ Len(sample[p]) \in Nat
         /\ analysed[p] = Analysed(p, Base(p)) /\ analysed[p] \in Nat
         /\ rejects[p] = Base(p) - Analysed(p, Base(p))
         /\ Batches(p) \in Nat /\ Len(log[p]) = Batches(p) /\ log[p] \in Seq(Batch)
         /\ Base(p) = EndOf(log[p], Batches(p))
         /\ Batches(p) = 0 <=> log[p] = <<>>
<1>0. FieldsInv /\ BatchInv /\ PlayedInv BY DEF StageInv, RunInv
<1>1. /\ Base(p) \in Nat /\ analysed[p] \in Nat /\ rejects[p] \in Nat
      /\ log[p] \in Seq(Batch) /\ Len(log[p]) \in Nat
  BY <1>0, Counters
<1>2. Base(p) <= Len(sample[p]) /\ Base(p) = EndOf(log[p], Len(log[p]))
  BY <1>0 DEF BatchInv, End, EndOf
<1>3. Len(sample[p]) \in Nat
  <2>1. sample[p] \in Seq(Kinds) BY <1>0 DEF FieldsInv
  <2> QED BY <2>1
<1>4. analysed[p] = Analysed(p, Base(p)) BY <1>0 DEF PlayedInv
<1>5. rejects[p] = Base(p) - analysed[p] BY <1>1 DEF Base
<1> QED BY <1>1, <1>2, <1>3, <1>4, <1>5 DEF Batches

LEMMA WaveLogs ==
  ASSUME StageInv, RunInv, Steady, run' = run, stop' = stop, limit' = limit,
         NEW phase \in Phases, NEW count \in Nat, count > 0, NEW remaining \in Nat,
         Wave(phase, count, remaining), Whole(phase, Len(log[phase])),
         phase = "kernel" => KernelMay(count),
         phase = "restoration" => RestorationMay(count)
  PROVE  /\ PlayedInv' /\ Grows
         /\ Batches(phase)' = Batches(phase) + 1 /\ Batches(phase) \in Nat
         /\ log'[phase][Batches(phase) + 1].from = Base(phase)
         /\ LastBatch(phase)'.from = Base(phase)
         /\ \A p \in Phases : p # phase => /\ log'[p] = log[p] /\ Base(p)' = Base(p)
                                           /\ analysed'[p] = analysed[p]
         /\ \E scored \in 0..count : \E passed \in 0..scored :
              /\ Left(phase, count, remaining, scored, passed)
              /\ log'[phase] = Append(log[phase],
                   [from |-> Base(phase), drawn |-> count, scored |-> scored,
                    analysed |-> passed])
              /\ analysed'[phase] = analysed[phase] + passed
<1>0. FieldsInv /\ BatchInv /\ LogInv /\ PlayedInv BY DEF StageInv, RunInv
<1>1. PICK scored \in 0..count, passed \in 0..count :
        passed \in 0..scored /\ Left(phase, count, remaining, scored, passed)
  <2>1. \E scored \in 0..count : \E passed \in 0..scored :
           Left(phase, count, remaining, scored, passed)
    BY <1>0, WaveLeaves
  <2>2. \A scored \in 0..count : \A passed \in 0..scored : passed \in 0..count OBVIOUS
  <2> QED BY <2>1, <2>2
<1>2. stop' \in [Phases -> 0..Budget] /\ limit' \in Nat BY <1>0 DEF FieldsInv
<1>3. /\ analysed'[phase] = analysed[phase] + passed
      /\ \A p \in Phases : p # phase => /\ analysed'[p] = analysed[p]
                                        /\ rejects'[p] = rejects[p]
                                        /\ log'[p] = log[p]
  BY <1>0, <1>1, <1>2, WaveAdds
<1>4. PlayedInv' BY <1>0, <1>1, <1>2, WavePlays
<1>5. Grows BY <1>1 DEF Left
<1> DEFINE e == [from |-> Base(phase), drawn |-> count, scored |-> scored, analysed |-> passed]
<1>6. log' = [log EXCEPT ![phase] = Append(@, e)] BY <1>1 DEF Left
<1>7. /\ log[phase] \in Seq(Batch) /\ Len(log[phase]) \in Nat /\ Base(phase) \in Nat
      /\ log \in [Phases -> Seq(Batch)]
  BY <1>0, Counters DEF FieldsInv
<1>8. e \in Batch /\ e.from = Base(phase)
  <2>1. scored \in Nat /\ passed \in Nat BY <1>1
  <2> QED BY <1>7, <2>1 DEF Batch
<1>9. log'[phase] = Append(log[phase], e)
  <2> HIDE DEF e
  <2> QED BY <1>6, <1>7
<1>10. \E sc \in 0..count : \E pa \in 0..sc :
              /\ Left(phase, count, remaining, sc, pa)
              /\ log'[phase] = Append(log[phase],
                   [from |-> Base(phase), drawn |-> count, scored |-> sc, analysed |-> pa])
              /\ analysed'[phase] = analysed[phase] + pa
  BY <1>1, <1>3, <1>9
<1> HIDE DEF e
<1>11. /\ Len(log'[phase]) = Len(log[phase]) + 1
       /\ log'[phase][Len(log[phase]) + 1] = e
  BY <1>7, <1>8, <1>9
<1>12. LastBatch(phase)' = e BY <1>11 DEF LastBatch, Last
<1>13. \A p \in Phases : p # phase => Base(p)' = Base(p) BY <1>3 DEF Base
<1> QED BY <1>3, <1>4, <1>5, <1>7, <1>8, <1>10, <1>11, <1>12, <1>13 DEF Batches

(* The stage is where the logs say: the population after a generation is a *)
(* function of what was analysed, since it only ever falls on its line.    *)
LEMMA SizeFollows ==
  ASSUME StageInv, RunInv, pc = "generation"
  PROVE  Least(NextSize, size) = SizeAt(Batches("kernel") + 1, Base("kernel"))
<1>0. FieldsInv BY DEF StageInv
<1>1. /\ Initial \in Nat /\ Floor \in Nat /\ Floor <= Initial BY <1>0, Limits DEF FieldsInv
<1>2. /\ Batches("kernel") \in Nat /\ Batches("kernel") >= 2
      /\ size = SizeAt(Batches("kernel"), LastBatch("kernel").from)
  <2>1. "kernel" \in Phases BY DEF Phases
  <2> QED BY <2>1, KernelCounts DEF RunInv, PlaceInv
<1> DEFINE n == Batches("kernel")
           f == LastBatch("kernel").from
           b == Base("kernel")
           A == Analysed("kernel", b)
<1>3. /\ b \in Nat /\ analysed["kernel"] = A /\ A \in Nat
      /\ log["kernel"] \in Seq(Batch) /\ Len(log["kernel"]) = n
      /\ b = EndOf(log["kernel"], n)
  <2>1. "kernel" \in Phases BY DEF Phases
  <2> QED BY <2>1, KernelCounts
<1>4. f \in Nat /\ f <= b
  <2>1. n \in 1..n /\ n # 0 BY <1>2
  <2>2. LastBatch("kernel") = log["kernel"][n] BY <1>3 DEF LastBatch, Last
  <2>3. log["kernel"][n] \in Batch BY <1>3, <2>1
  <2>4. f \in Nat /\ LastBatch("kernel").scored \in Nat BY <2>2, <2>3 DEF Batch
  <2>5. b = f + LastBatch("kernel").scored BY <1>3, <2>1, <2>2 DEF EndOf
  <2> HIDE DEF f, b
  <2> QED BY <2>4, <2>5
<1>5. /\ Analysed("kernel", f) \in Nat /\ Analysed("kernel", f) <= A
  <2> HIDE DEF f, b
  <2>1. 0 \in Nat OBVIOUS
  <2>2. Passed(sample["kernel"], 0, f) <= Passed(sample["kernel"], 0, b)
    BY <1>3, <1>4, <2>1, PassedGrows
  <2>3. Passed(sample["kernel"], 0, f) \in Nat BY <1>4, <2>1, PassedIsFinite
  <2> QED BY <2>2, <2>3 DEF Analysed
<1>6. /\ Linear(A) \in Int /\ Linear(Analysed("kernel", f)) \in Int
      /\ Linear(A) <= Linear(Analysed("kernel", f)) /\ Linear(A) <= Initial
  <2> HIDE DEF A, f, b
  <2> QED BY <1>0, <1>3, <1>5, LinearIsInt, LinearFalls
<1>7. SizeAt(n + 1, b) = Most(Linear(A), Floor)
  <2>1. ~(n + 1 <= 2) BY <1>2
  <2> QED BY <2>1 DEF SizeAt
<1>8. /\ size \in Int /\ Floor <= size /\ Most(Linear(A), Floor) <= size
  <2>1. CASE n <= 2
    <3>1. size = Initial BY <1>2, <2>1 DEF SizeAt
    <3> HIDE DEF A
    <3> QED BY <1>1, <1>6, <3>1 DEF Most
  <2>2. CASE ~(n <= 2)
    <3>1. size = Most(Linear(Analysed("kernel", f)), Floor) BY <1>2, <2>2 DEF SizeAt
    <3> HIDE DEF A, f
    <3> QED BY <1>1, <1>6, <3>1 DEF Most
  <2> QED BY <2>1, <2>2
<1>9. NextSize = Least(Most(Linear(A), Floor), Most(size, Floor)) BY <1>3 DEF NextSize
<1> HIDE DEF A
<1> QED BY <1>1, <1>6, <1>7, <1>8, <1>9 DEF Least, Most

(* What the head of a generation lets through is what the log asks for.    *)
LEMMA GenerationMay ==
  ASSUME StageInv, RunInv, pc = "top", size >= OperatorMin, ~Capped, Count > 0
  PROVE  KernelMay(Count) /\ Count \in Nat
<1>0. FieldsInv /\ CountInv /\ PlaceInv BY DEF StageInv, RunInv
<1>1. "kernel" \in Phases /\ Before BY <1>0 DEF Phases, Before
<1>2. /\ Base("kernel") \in Nat /\ Batches("kernel") \in Nat
      /\ analysed["kernel"] = Analysed("kernel", Base("kernel"))
      /\ analysed["kernel"] \in Nat
      /\ rejects["kernel"] = Base("kernel") - Analysed("kernel", Base("kernel"))
      /\ Len(log["kernel"]) = Batches("kernel")
  BY <1>1, KernelCounts
<1>3. /\ Batches("kernel") >= 1 /\ size = SizeAt(Batches("kernel") + 1, Base("kernel"))
      /\ Unsettled(Batches("kernel") + 1, Base("kernel"))
  BY <1>0 DEF PlaceInv
<1>4. FoundValid <=> ValidUpTo("kernel", Base("kernel")) BY <1>1, FoundInKernel
<1>5. EvaluationLimit = LimitAt(Base("kernel")) BY <1>4 DEF EvaluationLimit, LimitAt
<1>6. Count = KernelDraws(Batches("kernel") + 1, Base("kernel"))
  <2>1. Batches("kernel") + 1 # 1 BY <1>2, <1>3
  <2> QED BY <1>2, <1>3, <1>5, <2>1 DEF Count, KernelDraws
<1>7. rejects["kernel"] < MaxRejects
  <2>1. rejects["kernel"] \in Nat /\ MaxRejects \in Nat
    BY <1>0, <1>1, Counters, RefinementAssumption
  <2> QED BY <2>1 DEF Capped
<1>8. Count \in Nat
  <2>1. /\ Schedule \in Nat /\ Budget \in Nat /\ Reserve \in Nat /\ Floor \in Nat
        /\ Initial \in Nat
    BY <1>0, Limits, RefinementAssumption DEF FieldsInv
  <2>2. size \in Nat BY <1>0, <2>1 DEF FieldsInv
  <2>3. EvaluationLimit \in Nat BY <2>1 DEF EvaluationLimit, Minus
  <2> QED BY <1>2, <2>2, <2>3 DEF Count, Least, Minus
<1>9. log["restoration"] = <<>> BY <1>0, <1>1 DEF CountInv
<1> QED BY <1>2, <1>3, <1>6, <1>7, <1>8, <1>9 DEF KernelMay

LEMMA KernelRuns == StageInv /\ RunInv /\ Kernel => RunInv'
<1> SUFFICES ASSUME StageInv, RunInv, Kernel PROVE RunInv' OBVIOUS
<1>0. FieldsInv /\ BatchInv /\ CountInv /\ LogInv /\ PlayedInv /\ PlaceInv
  BY DEF StageInv, RunInv
<1>a. ASSUME NEW why, pc \in {"enter", "initial", "top", "generation"}, KernelEnds(why),
             why # "cancelled" => pc \in {"initial", "top"}
      PROVE  RunInv'
  <2>1. /\ pc' = "restore" /\ termination' = why
        /\ UNCHANGED <<setting, sample, countVars, polls, generations>>
    BY <1>a DEF KernelEnds, envVars
  <2>2. polls' = 0 BY <1>0, <1>a, <2>1 DEF PlaceInv, Before
  <2>3. why # "cancelled" => generations = Minus(Batches("kernel"), 1)
    <3>1. CASE pc = "initial" BY <1>0, <3>1 DEF PlaceInv, Minus
    <3>2. CASE pc = "top" BY <1>0, <3>2 DEF PlaceInv, Minus
    <3> QED BY <1>a, <3>1, <3>2
  <2> QED BY <2>1, <2>2, <2>3, PlaceReturns
<1>b. /\ "kernel" \in Phases /\ Initial \in Nat /\ Initial > 0
      /\ analysed["kernel"] \in Nat /\ stop["kernel"] \in Nat
  BY <1>0, Limits, Counters DEF FieldsInv
<1>c. Before => polls = 0 BY <1>0 DEF PlaceInv
<1>1. CASE InitialCancelled BY <1>1, <1>a DEF InitialCancelled
<1>2. CASE InitialPopulation
  <2>1. /\ pc = "enter" /\ Wave("kernel", Initial, stop["kernel"]) /\ pc' = "initial"
        /\ UNCHANGED <<envVars, requested, size, generations, polls, limit, termination>>
    BY <1>2 DEF InitialPopulation
  <2>2. /\ log["kernel"] = <<>> /\ log["restoration"] = <<>> /\ Before
    BY <1>0, <2>1 DEF CountInv, Before
  <2>3. KernelMay(Initial) BY <2>2 DEF KernelMay, KernelDraws
  <2>4. Whole("kernel", Len(log["kernel"])) BY <2>2 DEF Whole
  <2>5. Steady /\ run' = run /\ stop' = stop /\ limit' = limit /\ setting' = setting
    BY <1>0, <2>1, StillSteady DEF Steady, Places, envVars
  <2>6. PlayedInv' /\ Batches("kernel")' = Batches("kernel") + 1
    BY <1>b, <2>1, <2>3, <2>4, <2>5, WaveLogs
  <2>7. Batches("kernel")' = 1 BY <2>2, <2>6 DEF Batches
  <2>8. Initial' = Initial BY <1>0, <2>5, Limits DEF FieldsInv
  <2>9. PlaceInv'
    <3>1. ~Polling' BY <2>1 DEF Polling
    <3>2. size = Initial /\ generations = 0 /\ polls = 0
      BY <1>0, <2>1, <2>2, <1>c DEF PlaceInv
    <3> QED BY <2>1, <2>7, <2>8, <3>1, <3>2 DEF PlaceInv
  <2> QED BY <2>6, <2>9 DEF RunInv
<1>3. CASE InitialEnds BY <1>3, <1>a DEF InitialEnds
<1>4. CASE InitialDone
  <2>1. /\ pc = "initial" /\ pc' = "top"
        /\ UNCHANGED <<setting, sample, size, generations, polls, countVars>>
    BY <1>4 DEF InitialDone, envVars
  <2>2. /\ \A p : Batches(p)' = Batches(p)
        /\ Initial' = Initial /\ PlayedInv'
    BY <1>0, <2>1, Frozen
  <2>3. PlaceInv'
    <3>1. ~Polling' /\ Before BY <2>1 DEF Polling, Before
    <3>2. size = Initial /\ generations = 0 /\ polls = 0 /\ Batches("kernel") = 1
      BY <1>0, <2>1, <3>1, <1>c DEF PlaceInv
    <3>3. SizeAt(Batches("kernel") + 1, Base("kernel"))' = Initial
      BY <2>2, <3>2 DEF SizeAt
    <3>4. Unsettled(Batches("kernel") + 1, Base("kernel"))'
      BY <2>2, <3>2 DEF Unsettled
    <3> QED BY <2>1, <2>2, <3>1, <3>2, <3>3, <3>4 DEF PlaceInv
  <2> QED BY <2>2, <2>3 DEF RunInv
<1>5. CASE OperatorsStop BY <1>5, <1>a DEF OperatorsStop
<1>6. CASE CountReached BY <1>6, <1>a DEF CountReached, InLoop
<1>7. CASE CapReached BY <1>7, <1>a DEF CapReached, InLoop
<1>8. CASE LimitReached BY <1>8, <1>a DEF LimitReached, MayGenerate, InLoop
<1>9. CASE TimeReached BY <1>9, <1>a DEF TimeReached, MayGenerate, InLoop
<1>10. CASE GenerationCancelled BY <1>10, <1>a DEF GenerationCancelled, MayGenerate, InLoop
<1>11. CASE Generation
  <2>1. /\ pc = "top" /\ size >= OperatorMin /\ ~Reached /\ ~Capped /\ Count > 0
        /\ pc' = "generation"
        /\ Wave("kernel", Count, stop["kernel"] - analysed["kernel"])
        /\ UNCHANGED <<envVars, requested, size, generations, polls, limit, termination>>
    BY <1>11 DEF Generation, MayGenerate, InLoop
  <2>2. Before /\ log["restoration"] = <<>> BY <1>0, <2>1 DEF CountInv, Before
  <2>3. KernelMay(Count) /\ Count \in Nat BY <2>1, GenerationMay
  <2>4. Whole("kernel", Len(log["kernel"])) BY <1>0, <2>1 DEF LogInv
  <2>5. Steady /\ run' = run /\ stop' = stop /\ limit' = limit /\ setting' = setting
    BY <1>0, <2>1, StillSteady DEF Steady, Places, envVars
  <2>6. stop["kernel"] - analysed["kernel"] \in Nat BY <1>b, <2>1 DEF Reached
  <2>7. /\ PlayedInv' /\ Grows /\ Batches("kernel")' = Batches("kernel") + 1
        /\ LastBatch("kernel")'.from = Base("kernel")
    BY <1>b, <2>1, <2>3, <2>4, <2>5, <2>6, WaveLogs
  <2>8. Batches("kernel") \in Nat /\ Base("kernel") \in Nat
        /\ Base("kernel") <= Len(sample["kernel"])
    BY <1>b, KernelCounts
  <2>9. PlaceInv'
    <3>1. ~Polling' BY <2>1 DEF Polling
    <3>2. /\ size = SizeAt(Batches("kernel") + 1, Base("kernel")) /\ polls = 0
          /\ generations = Batches("kernel") - 1 /\ Batches("kernel") >= 1
      BY <1>0, <1>c, <2>1, <2>2 DEF PlaceInv
    <3>3. PICK n \in Nat, b \in Nat :
            n = Batches("kernel") + 1 /\ b = Base("kernel") /\ b <= Len(sample["kernel"])
      BY <2>8
    <3>4. SizeAt(n, b)' = SizeAt(n, b) BY <1>0, <2>5, <2>7, <3>3, SchedulesStay
    <3>5. SizeAt(Batches("kernel"), LastBatch("kernel").from)' = SizeAt(n, b)'
      <4>1. Batches("kernel")' = n /\ LastBatch("kernel")'.from = b BY <2>7, <3>3
      <4> QED BY <4>1 DEF SizeAt
    <3>6. size' = SizeAt(Batches("kernel"), LastBatch("kernel").from)'
      BY <2>1, <3>2, <3>3, <3>4, <3>5
    <3>7. Batches("kernel")' >= 2 /\ generations' = Batches("kernel")' - 2
      BY <2>1, <2>7, <2>8, <3>2
    <3> QED BY <2>1, <3>1, <3>2, <3>6, <3>7 DEF PlaceInv
  <2> QED BY <2>7, <2>9 DEF RunInv
<1>12. CASE BatchCancelled BY <1>12, <1>a DEF BatchCancelled
<1>13. CASE GenerationCut
  <2>1. /\ pc = "generation" /\ generations' = generations + 1 /\ pc' = "restore"
        /\ UNCHANGED <<setting, sample, countVars, polls>>
    BY <1>13 DEF GenerationCut, envVars
  <2>2. polls' = 0 BY <1>0, <2>1 DEF PlaceInv, Before
  <2>3. Batches("kernel") \in Nat BY <1>b, KernelCounts
  <2>4. generations' = Minus(Batches("kernel"), 1)
    BY <1>0, <2>1, <2>3 DEF PlaceInv, Minus
  <2> QED BY <2>1, <2>2, <2>4, PlaceReturns
<1>14. CASE GenerationDone
  <2>1. /\ pc = "generation" /\ generations' = generations + 1
        /\ size' = Least(NextSize, size)
        /\ (Settled /\ pc' = "restore") \/ (~Settled /\ pc' = "top")
        /\ UNCHANGED <<setting, sample, countVars, polls>>
    BY <1>14 DEF GenerationDone, envVars
  <2>2. Before /\ polls = 0 BY <1>c, <2>1 DEF Before
  <2>3. /\ Batches("kernel") \in Nat /\ Batches("kernel") >= 2
        /\ generations = Batches("kernel") - 2
    BY <1>0, <1>b, <2>1, KernelCounts DEF PlaceInv
  <2>4. CASE Settled /\ pc' = "restore"
    <3>1. generations' = Minus(Batches("kernel"), 1) BY <2>1, <2>3 DEF Minus
    <3> QED BY <2>1, <2>2, <2>4, <3>1, PlaceReturns
  <2>5. CASE ~Settled /\ pc' = "top"
    <3>1. /\ \A p : Batches(p)' = Batches(p) /\ Base(p)' = Base(p)
          /\ \A i, b : /\ SizeAt(i, b)' = SizeAt(i, b)
                       /\ Unsettled(i, b)' <=> Unsettled(i, b)
          /\ PlayedInv'
      BY <1>0, <2>1, Frozen
    <3>2. size' = SizeAt(Batches("kernel") + 1, Base("kernel")) BY <2>1, SizeFollows
    <3>3. Unsettled(Batches("kernel") + 1, Base("kernel"))
      <4>1. FoundValid <=> ValidUpTo("kernel", Base("kernel")) BY <2>2, FoundInKernel
      <4>2. (Batches("kernel") + 1) - 2 = generations + 1 BY <2>3
      <4> QED BY <2>5, <4>1, <4>2 DEF Settled, Unsettled
    <3>4. generations' = Batches("kernel") - 1 BY <2>1, <2>3
    <3>5. PICK n \in Nat : n = Batches("kernel") /\ n >= 2 BY <2>3
    <3>6. PICK b : b = Base("kernel") OBVIOUS
    <3>7. /\ SizeAt(Batches("kernel") + 1, Base("kernel"))' = SizeAt(n + 1, b)'
          /\ Unsettled(Batches("kernel") + 1, Base("kernel"))' <=> Unsettled(n + 1, b)'
      <4>1. Batches("kernel")' = n /\ Base("kernel")' = b BY <3>1, <3>5, <3>6
      <4> QED BY <4>1 DEF SizeAt, Unsettled
    <3>8. /\ size' = SizeAt(Batches("kernel") + 1, Base("kernel"))'
          /\ Unsettled(Batches("kernel") + 1, Base("kernel"))'
      BY <3>1, <3>2, <3>3, <3>5, <3>6, <3>7
    <3>9. /\ Batches("kernel")' >= 1 /\ generations' = Batches("kernel")' - 1
      BY <3>1, <3>4, <3>5
    <3>10. ~Polling' /\ polls' = 0 BY <2>1, <2>2, <2>5 DEF Polling
    <3>11. PlaceInv' BY <2>5, <3>8, <3>9, <3>10 DEF PlaceInv
    <3> QED BY <3>1, <3>11 DEF RunInv
  <2> QED BY <2>1, <2>4, <2>5
<1> QED BY <1>0, <1>1, <1>2, <1>3, <1>4, <1>5, <1>6, <1>7, <1>8, <1>9, <1>10, <1>11, <1>12,
           <1>13, <1>14 DEF Kernel

-----------------------------------------------------------------------------
(* The restoration and the other steps keep the logs and the place. *)

(* A batch of the restoration, where its limit and the kernel's log let it. *)
LEMMA RestorationPlays ==
  ASSUME StageInv, RunInv, Polling,
         NEW count \in Nat, count > 0, NEW remaining \in Nat,
         Wave("restoration", count, remaining),
         Whole("restoration", Len(log["restoration"])),
         count = RestorationDraws(Batches("restoration") + 1),
         Base("restoration") + count <= limit, ~FoundValid,
         PollsIn(Batches("restoration") + 1) <= MaxPolls,
         pc' \in {"polled", "tried"}, polls' \in 0..MaxPolls,
         pc' = "polled" => polls' < MaxPolls,
         pc' = "polled" => /\ polls' + 1 = PollsIn(Batches("restoration") + 1)
                           /\ setting.gradient => (Batches("restoration") + 1) % 2 = 1,
         pc' = "tried" => /\ polls' = PollsIn(Batches("restoration") + 1)
                          /\ setting.gradient /\ (Batches("restoration") + 1) % 2 = 0,
         UNCHANGED <<envVars, requested, size, generations, limit, termination>>
  PROVE  RunInv'
<1>0. FieldsInv /\ PlaceInv BY DEF StageInv, RunInv
<1>1. "kernel" \in Phases /\ "restoration" \in Phases BY DEF Phases
<1>2. /\ limit = LimitFrom(Base("kernel")) /\ limit > 0
      /\ ~ValidUpTo("kernel", Base("kernel")) /\ analysed["kernel"] > 0
      /\ termination # "cancelled"
  BY <1>0 DEF PlaceInv
<1>3. ~ValidUpTo("restoration", Base("restoration")) BY FoundAnywhere
<1>4. /\ Base("kernel") \in Nat /\ Base("kernel") <= Len(sample["kernel"])
      /\ analysed["kernel"] = Analysed("kernel", Base("kernel"))
      /\ Batches("restoration") \in Nat /\ Len(log["restoration"]) = Batches("restoration")
  BY <1>1, KernelCounts
<1>5. RestorationMay(count) BY <1>2, <1>3, <1>4 DEF RestorationMay
<1>6. Steady /\ run' = run /\ stop' = stop /\ limit' = limit /\ setting' = setting
  BY <1>0, StillSteady DEF Steady, Places, envVars
<1>7. /\ PlayedInv' /\ Grows
      /\ Batches("restoration")' = Batches("restoration") + 1
      /\ log'["kernel"] = log["kernel"] /\ Base("kernel")' = Base("kernel")
      /\ analysed'["kernel"] = analysed["kernel"]
  <2>1. "kernel" # "restoration" OBVIOUS
  <2>2. "restoration" # "kernel" OBVIOUS
  <2> QED BY <1>1, <1>5, <1>6, <2>1, <2>2, WaveLogs
<1>8. PICK b \in Nat : b = Base("kernel") /\ b <= Len(sample["kernel"]) BY <1>4
<1>9. /\ LimitFrom(b)' = LimitFrom(b) /\ (ValidUpTo("kernel", b)' <=> ValidUpTo("kernel", b))
  BY <1>0, <1>1, <1>6, <1>7, <1>8, SchedulesStay, PrefixStays
<1>10. Base("kernel")' = b BY <1>7, <1>8
<1>11. LimitFrom(Base("kernel"))' = LimitFrom(b)' BY <1>10 DEF LimitFrom
<1>12. ValidUpTo("kernel", Base("kernel"))' <=> ValidUpTo("kernel", b)'
  BY <1>10 DEF ValidUpTo
<1>13. /\ limit' = LimitFrom(Base("kernel"))' /\ limit' > 0
       /\ ~ValidUpTo("kernel", Base("kernel"))' /\ analysed'["kernel"] > 0
       /\ termination' # "cancelled"
  BY <1>2, <1>6, <1>7, <1>8, <1>9, <1>11, <1>12
<1>14. PICK n : n = Batches("restoration") + 1 /\ Batches("restoration")' = n BY <1>7
<1>15. PollsIn(Batches("restoration"))' = PollsIn(n) BY <1>6, <1>14 DEF PollsIn
<1>16. generations' = Minus(Batches("kernel"), 1)'
  <2>1. generations = Minus(Batches("kernel"), 1) BY <1>0, <1>2 DEF PlaceInv, Polling
  <2>2. Batches("kernel")' = Batches("kernel") BY <1>7 DEF Batches
  <2> QED BY <2>1, <2>2 DEF Minus
<1>17. ~Before' /\ pc' \notin {"enter", "initial", "top", "generation", "poll"}
  BY DEF Before
<1>18. pc' = "polled" => /\ polls' + 1 = PollsIn(Batches("restoration"))'
                         /\ setting'.gradient => Batches("restoration")' % 2 = 1
  BY <1>6, <1>14, <1>15
<1>19. pc' = "tried" => /\ polls' = PollsIn(Batches("restoration"))'
                        /\ setting'.gradient /\ Batches("restoration")' % 2 = 0
  BY <1>6, <1>14, <1>15
<1>20. PlaceInv' BY <1>13, <1>16, <1>17, <1>18, <1>19 DEF PlaceInv
<1> QED BY <1>7, <1>20 DEF RunInv

LEMMA StartRuns == StageInv /\ RunInv /\ StartRestoration => RunInv'
<1> SUFFICES ASSUME StageInv, RunInv, StartRestoration PROVE RunInv' OBVIOUS
<1>0. FieldsInv /\ CountInv /\ PlaceInv BY DEF StageInv, RunInv
<1>1. /\ pc = "restore" /\ NeedsRestoration /\ pc' = "poll"
      /\ limit' = Least(MaxPolls * (2 * Free + 1), MaxScores)
      /\ UNCHANGED <<setting, run, sample, expired, requested, size, generations, polls,
                     countVars, termination>>
  BY DEF StartRestoration
<1>2. Before BY <1>1 DEF Before
<1>3. /\ MaxScores > 0 /\ ~FoundValid /\ termination # "cancelled" /\ analysed["kernel"] > 0
  BY <1>1 DEF NeedsRestoration
<1>4. /\ \A p : /\ Base(p)' = Base(p) /\ Batches(p)' = Batches(p)
                /\ analysed'[p] = analysed[p]
      /\ \A p, b : ValidUpTo(p, b)' <=> ValidUpTo(p, b)
      /\ \A b : LimitFrom(b)' = LimitFrom(b)
      /\ \A n : PollsIn(n)' = PollsIn(n)
      /\ PlayedInv'
  BY <1>0, <1>1, Frozen DEF RunInv
<1>5. /\ "kernel" \in Phases /\ "restoration" \in Phases
      /\ analysed["kernel"] = Analysed("kernel", Base("kernel"))
      /\ rejects["kernel"] = Base("kernel") - Analysed("kernel", Base("kernel"))
      /\ analysed["kernel"] \in Nat /\ rejects["kernel"] \in Nat
  <2>1. "kernel" \in Phases /\ "restoration" \in Phases BY DEF Phases
  <2> QED BY <1>0, <2>1, KernelCounts, Counters
<1>6. limit' = LimitFrom(Base("kernel")) BY <1>1, <1>5 DEF LimitFrom, MaxScores
<1>7. limit' > 0
  <2>1. /\ MaxRejects \in Nat /\ MaxPolls \in Nat /\ Free \in Nat /\ MaxPolls > 0 /\ Free > 0
        /\ Budget \in Nat
    BY <1>0, Limits, RefinementAssumption DEF FieldsInv
  <2>2. PICK most \in Nat : most = MaxPolls * (2 * Free + 1) /\ most > 0
    <3>1. MaxPolls * (2 * Free + 1) \in Nat BY <2>1
    <3>2. 2 * Free + 1 \in Nat /\ 1 <= 2 * Free + 1 BY <2>1
    <3>3. MaxPolls * 1 <= MaxPolls * (2 * Free + 1) BY <2>1, <3>2, ProductGrows
    <3> QED BY <2>1, <3>1, <3>3
  <2>3. MaxScores \in Int BY <1>5, <2>1 DEF MaxScores, Least, Minus
  <2>4. limit' = Least(most, MaxScores) BY <1>1, <2>2
  <2> QED BY <1>3, <2>2, <2>3, <2>4 DEF Least
<1>8. ~ValidUpTo("kernel", Base("kernel")) BY <1>2, <1>3, FoundInKernel
<1>9. /\ Batches("restoration") = 0 /\ Base("restoration") = 0
  BY <1>0, <1>2 DEF CountInv, Batches, Base
<1>10. polls = 0 /\ generations = Minus(Batches("kernel"), 1)
  BY <1>0, <1>1, <1>2, <1>3 DEF PlaceInv
<1>11. PollsIn(0) = 0
  <2>1. (0 + 1) \div 2 = 0 OBVIOUS
  <2> QED BY <2>1 DEF PollsIn
<1>12. ~ValidUpTo("restoration", 0)
  <2>1. 1..0 = {} OBVIOUS
  <2> QED BY <2>1 DEF ValidUpTo
<1>13. ~Before' /\ pc' \notin {"enter", "initial", "top", "generation", "polled", "tried"}
  BY <1>1 DEF Before
<1>14. LimitFrom(Base("kernel"))' = LimitFrom(Base("kernel"))
  <2>1. PICK b : b = Base("kernel") /\ Base("kernel")' = b BY <1>4
  <2>2. LimitFrom(Base("kernel"))' = LimitFrom(b)' BY <2>1 DEF LimitFrom
  <2> QED BY <1>4, <2>1, <2>2
<1>15. ~ValidUpTo("kernel", Base("kernel"))'
  <2>1. PICK b : b = Base("kernel") /\ Base("kernel")' = b BY <1>4
  <2>2. ValidUpTo("kernel", Base("kernel"))' <=> ValidUpTo("kernel", b)'
    BY <2>1 DEF ValidUpTo
  <2> QED BY <1>4, <1>8, <2>1, <2>2
<1>16. /\ polls' = PollsIn(Batches("restoration"))'
       /\ ~ValidUpTo("restoration", Base("restoration"))'
       /\ ~(Batches("restoration")' % 2 = 1)
  <2>1. Batches("restoration")' = 0 /\ Base("restoration")' = 0 BY <1>4, <1>9
  <2>2. PollsIn(Batches("restoration"))' = PollsIn(0)' BY <2>1 DEF PollsIn
  <2>3. ValidUpTo("restoration", Base("restoration"))' <=> ValidUpTo("restoration", 0)'
    BY <2>1 DEF ValidUpTo
  <2>4. ~(0 % 2 = 1) OBVIOUS
  <2> QED BY <1>1, <1>4, <1>10, <1>11, <1>12, <2>1, <2>2, <2>3, <2>4
<1>17. generations' = Minus(Batches("kernel"), 1)' BY <1>1, <1>4, <1>10 DEF Minus
<1>18. PlaceInv' BY <1>1, <1>3, <1>4, <1>6, <1>7, <1>13, <1>14, <1>15, <1>16, <1>17 DEF PlaceInv
<1> QED BY <1>4, <1>18 DEF RunInv

LEMMA RestorationRuns == StageInv /\ RunInv /\ Restoration => RunInv'
<1> SUFFICES ASSUME StageInv, RunInv, Restoration PROVE RunInv' OBVIOUS
<1>0. FieldsInv /\ BatchInv /\ CountInv /\ LogInv /\ PlayedInv /\ PlaceInv
  BY DEF StageInv, RunInv
<1>a. ASSUME NEW why, Ends(why), pc \in {"restore", "poll", "polled", "tried"},
             why = termination \/ why = "cancelled"
      PROVE  RunInv'
  <2>1. /\ pc' = "done" /\ termination' = why
        /\ UNCHANGED <<setting, sample, countVars, generations>>
    BY <1>a DEF Ends, envVars
  <2>2. why # "cancelled" => generations' = Minus(Batches("kernel"), 1)
    BY <1>0, <1>a, <2>1 DEF PlaceInv
  <2> QED BY <2>1, <2>2, PlaceReturns
<1>b. /\ Free \in Nat /\ Free > 0 /\ MaxPolls \in Nat BY RefinementAssumption
<1>c. /\ polls \in Nat /\ polls <= MaxPolls /\ (pc = "polled" => polls < MaxPolls)
      /\ limit \in Nat
  BY <1>0, <1>b DEF FieldsInv
<1>d. /\ "restoration" \in Phases /\ analysed["restoration"] \in Nat
      /\ stop["restoration"] \in Nat /\ Base("restoration") \in Nat
      /\ Batches("restoration") \in Nat /\ Batches("restoration") = Len(log["restoration"])
  BY <1>0, Counters DEF Batches
<1>e. setting.gradient \in BOOLEAN /\ Timed \in BOOLEAN
  BY <1>0 DEF FieldsInv, Settings, Timed
<1>f. PICK n \in Nat : n = Batches("restoration") BY <1>d
<1>1. CASE NoRestoration BY <1>1, <1>a DEF NoRestoration
<1>2. CASE RestorationCancelled BY <1>2, <1>a DEF RestorationCancelled
<1>3. CASE StartRestoration BY <1>3, StartRuns
<1>4. CASE PollsEnd BY <1>4, <1>a DEF PollsEnd
<1>5. CASE PollCancelled BY <1>5, <1>a DEF PollCancelled, MayPoll
<1>6. CASE Poll
  <2>1. /\ pc = "poll" /\ polls < MaxPolls /\ Base("restoration") + 2 * Free <= limit
        /\ analysed["restoration"] < stop["restoration"] /\ ~(Timed /\ expired)
        /\ Wave("restoration", 2 * Free, stop["restoration"] - analysed["restoration"])
        /\ pc' = "polled"
        /\ UNCHANGED <<envVars, requested, size, generations, polls, limit, termination>>
    BY <1>6 DEF Poll, MayPoll, Fits
  <2>2. 2 * Free \in Nat /\ 2 * Free > 0 BY <1>b
  <2>3. stop["restoration"] - analysed["restoration"] \in Nat BY <1>d, <2>1
  <2>4. Whole("restoration", Len(log["restoration"])) BY <1>0, <2>1 DEF LogInv
  <2>5. Polling BY <2>1 DEF Polling
  <2>6. ~(setting.gradient /\ n % 2 = 1)
    <3>1. ~(Base("restoration") >= limit) BY <1>b, <1>c, <1>d, <2>1
    <3>2. ~(analysed["restoration"] >= stop["restoration"]) BY <1>d, <2>1
    <3> QED BY <1>0, <1>f, <2>1, <3>1, <3>2 DEF PlaceInv
  <2>7. polls = PollsIn(n) BY <1>0, <1>f, <2>1 DEF PlaceInv
  <2>8. /\ 2 * Free = RestorationDraws(n + 1) /\ PollsIn(n + 1) = PollsIn(n) + 1
        /\ setting.gradient => (n + 1) % 2 = 1
    <3>1. CASE setting.gradient
      <4>1. n % 2 # 1 BY <2>6, <3>1
      <4>2. (n + 1) % 2 = 1 /\ (n + 1 + 1) \div 2 = (n + 1) \div 2 + 1 BY <4>1
      <4> QED BY <3>1, <4>2 DEF RestorationDraws, PollsIn
    <3>2. CASE ~setting.gradient BY <3>2 DEF RestorationDraws, PollsIn
    <3> QED BY <3>1, <3>2
  <2>9. ~FoundValid
    <3>1. ~ValidUpTo("restoration", Base("restoration")) /\ ~ValidUpTo("kernel", Base("kernel"))
      BY <1>0, <2>1, <2>5 DEF PlaceInv
    <3> QED BY <3>1, FoundAnywhere
  <2>10. PollsIn(n + 1) <= MaxPolls /\ polls' + 1 = PollsIn(n + 1)
    BY <1>b, <1>c, <2>1, <2>7, <2>8
  <2>11. polls' \in 0..MaxPolls /\ polls' < MaxPolls BY <1>b, <1>c, <2>1
  <2>12. pc' # "tried" /\ pc' \in {"polled", "tried"} BY <2>1
  <2> QED BY <1>f, <2>1, <2>2, <2>3, <2>4, <2>5, <2>8, <2>9, <2>10, <2>11, <2>12,
             RestorationPlays
<1>7. CASE PollStops
  <2>1. /\ pc \in {"polled", "tried"} /\ pc' = "done"
        /\ termination' = IF requested THEN "cancelled" ELSE termination
        /\ UNCHANGED <<setting, sample, countVars, generations>>
    BY <1>7 DEF PollStops, envVars
  <2>2. termination' # "cancelled" => generations' = Minus(Batches("kernel"), 1)
    BY <1>0, <2>1 DEF PlaceInv
  <2> QED BY <2>1, <2>2, PlaceReturns
<1>8. CASE Try
  <2>1. /\ pc = "polled" /\ ~FoundValid /\ ~Short("restoration") /\ MayTry
        /\ Wave("restoration", 1, 1)
        /\ polls' = polls + 1 /\ pc' = "tried"
        /\ UNCHANGED <<envVars, requested, size, generations, limit, termination>>
    BY <1>8 DEF Try
  <2>2. Base("restoration") < limit /\ setting.gradient BY <2>1 DEF MayTry
  <2>3. log["restoration"] # <<>> BY <1>0, <2>1 DEF LogInv
  <2>4. Whole("restoration", Len(log["restoration"])) BY <1>0, <1>d, <2>1, <2>3, NotShort
  <2>5. Polling BY <2>1 DEF Polling
  <2>6. polls' \in 0..MaxPolls BY <1>b, <1>c, <2>1
  <2>7. Base("restoration") + 1 <= limit BY <1>c, <1>d, <2>2
  <2>8. polls + 1 = PollsIn(n) /\ n % 2 = 1 BY <1>0, <1>f, <2>1, <2>2 DEF PlaceInv
  <2>9. (n + 1) % 2 = 0 /\ (n + 1 + 1) \div 2 = (n + 1) \div 2 BY <2>8
  <2>10. 1 = RestorationDraws(n + 1) /\ PollsIn(n + 1) = PollsIn(n)
    BY <2>2, <2>9 DEF RestorationDraws, PollsIn
  <2>11. PollsIn(n + 1) <= MaxPolls /\ polls' = PollsIn(n + 1)
    BY <1>b, <1>c, <2>1, <2>8, <2>10
  <2>12. pc' # "polled" /\ pc' \in {"polled", "tried"} /\ 1 \in Nat /\ 1 > 0 BY <2>1
  <2> QED BY <1>f, <2>1, <2>2, <2>4, <2>5, <2>6, <2>7, <2>9, <2>10, <2>11, <2>12,
             RestorationPlays
<1>9. CASE PollDone
  <2>1. /\ (pc = "polled" /\ ~MayTry) \/ pc = "tried"
        /\ ~FoundValid
        /\ polls' = IF pc = "polled" THEN polls + 1 ELSE polls
        /\ pc' = "poll"
        /\ UNCHANGED <<setting, run, stop, sample, expired, generations, limit, countVars,
                       termination>>
    BY <1>9 DEF PollDone, envVars
  <2>2. /\ \A p : /\ Base(p)' = Base(p) /\ Batches(p)' = Batches(p)
                  /\ analysed'[p] = analysed[p]
        /\ \A p, b : ValidUpTo(p, b)' <=> ValidUpTo(p, b)
        /\ \A b : LimitFrom(b)' = LimitFrom(b)
        /\ \A i : PollsIn(i)' = PollsIn(i)
        /\ PlayedInv'
    BY <1>0, <2>1, Frozen
  <2>3. Polling BY <2>1 DEF Polling
  <2>4. /\ limit = LimitFrom(Base("kernel")) /\ limit > 0
        /\ ~ValidUpTo("kernel", Base("kernel")) /\ analysed["kernel"] > 0
        /\ termination # "cancelled"
        /\ generations = Minus(Batches("kernel"), 1)
    BY <1>0, <2>3 DEF PlaceInv, Polling
  <2>5. polls' = PollsIn(n) BY <1>0, <1>f, <2>1 DEF PlaceInv
  <2>6. ~ValidUpTo("restoration", Base("restoration")) BY <2>1, FoundAnywhere
  <2>7. setting.gradient /\ n % 2 = 1 => \/ Base("restoration") >= limit
                                         \/ analysed["restoration"] >= stop["restoration"]
                                         \/ Timed /\ expired
    <3>1. CASE pc = "tried"
      <4>1. n % 2 = 0 BY <1>0, <1>f, <3>1 DEF PlaceInv
      <4> QED BY <4>1
    <3>2. CASE ~MayTry BY <1>c, <1>d, <3>2 DEF MayTry
    <3> QED BY <2>1, <3>1, <3>2
  <2>8. PICK k : k = Base("kernel") /\ Base("kernel")' = k BY <2>2
  <2>9. /\ LimitFrom(Base("kernel"))' = LimitFrom(k)'
        /\ ValidUpTo("kernel", Base("kernel"))' <=> ValidUpTo("kernel", k)'
    BY <2>8 DEF LimitFrom, ValidUpTo
  <2>10. PICK r : r = Base("restoration") /\ Base("restoration")' = r BY <2>2
  <2>11. ValidUpTo("restoration", Base("restoration"))' <=> ValidUpTo("restoration", r)'
    BY <2>10 DEF ValidUpTo
  <2>12. Batches("restoration")' = n BY <1>f, <2>2
  <2>13. PollsIn(Batches("restoration"))' = PollsIn(n)' BY <2>12 DEF PollsIn
  <2>14. /\ limit' = LimitFrom(Base("kernel"))' /\ limit' > 0
         /\ ~ValidUpTo("kernel", Base("kernel"))' /\ analysed'["kernel"] > 0
         /\ termination' # "cancelled"
    BY <2>1, <2>2, <2>4, <2>8, <2>9
  <2>15. generations' = Minus(Batches("kernel"), 1)' BY <2>1, <2>2, <2>4 DEF Minus
  <2>16. /\ polls' = PollsIn(Batches("restoration"))'
         /\ ~ValidUpTo("restoration", Base("restoration"))'
    BY <2>2, <2>5, <2>6, <2>10, <2>11, <2>13
  <2>17. setting'.gradient /\ Batches("restoration")' % 2 = 1 =>
           \/ Base("restoration")' >= limit' \/ analysed'["restoration"] >= stop'["restoration"]
           \/ Timed' /\ expired'
    <3>1. Timed' = Timed BY <2>1 DEF Timed
    <3> QED BY <2>1, <2>2, <2>7, <2>12, <3>1
  <2>18. ~Before' /\ pc' \notin {"enter", "initial", "top", "generation", "polled", "tried"}
    BY <2>1 DEF Before
  <2>19. PlaceInv' BY <2>14, <2>15, <2>16, <2>17, <2>18 DEF PlaceInv
  <2> QED BY <2>2, <2>19 DEF RunInv
<1> QED BY <1>1, <1>2, <1>3, <1>4, <1>5, <1>6, <1>7, <1>8, <1>9 DEF Restoration

LEMMA NothingLogged ==
  ASSUME NEW l, l = [p \in Phases |-> <<>>]
  PROVE  Logs(l) /\ Logs(l)' /\ \A p \in Phases : Analysed(p, 0) = 0 /\ Analysed(p, 0)' = 0
<1>1. "kernel" \in Phases /\ "restoration" \in Phases BY DEF Phases
<1>2. \A p \in Phases : l[p] = <<>> OBVIOUS
<1>3. Len(<<>>) = 0 /\ 1..0 = {} OBVIOUS
<1>4. \A p \in Phases : BatchLog(sample[p], l[p]) /\ BatchLog(sample'[p], l[p])
  BY <1>2, <1>3 DEF BatchLog
<1>5. KernelLog(l["kernel"]) /\ KernelLog(l["kernel"])' BY <1>1, <1>2, <1>3 DEF KernelLog
<1>6. /\ RestorationLog(l["restoration"], EndOf(l["kernel"], Len(l["kernel"])))
      /\ RestorationLog(l["restoration"], EndOf(l["kernel"], Len(l["kernel"])))'
  <2>1. EndOf(l["kernel"], Len(l["kernel"])) = 0 BY <1>1, <1>2, <1>3 DEF EndOf
  <2>2. l["restoration"] = <<>> BY <1>1, <1>2
  <2> QED BY <2>1, <2>2, EmptyRestoration
<1>7. ASSUME NEW p \in Phases PROVE Analysed(p, 0) = 0 /\ Analysed(p, 0)' = 0
  <2>1. Passed(sample[p], 0, 0) \in 0..0 /\ Passed(sample'[p], 0, 0) \in 0..0
    BY PassedPoints
  <2> QED BY <2>1 DEF Analysed
<1> QED BY <1>4, <1>5, <1>6, <1>7 DEF Logs

LEMMA InitRuns == Init => RunInv
<1> SUFFICES ASSUME Init PROVE RunInv OBVIOUS
<1>1. log = [p \in Phases |-> <<>>] /\ analysed = Zero /\ rejects = Zero BY DEF Init
<1>2. \A p \in Phases : analysed[p] = 0 /\ rejects[p] = 0 BY <1>1 DEF Zero
<1>3. \A p \in Phases : Base(p) = 0 BY <1>2 DEF Base
<1>4. PlayedInv BY <1>1, <1>2, <1>3, NothingLogged DEF PlayedInv
<1>5. PlaceInv BY DEF Init, PlaceInv, Polling
<1> QED BY <1>4, <1>5 DEF RunInv

LEMMA ReplayRuns == StageInv /\ RunInv /\ Replay => RunInv'
<1> SUFFICES ASSUME StageInv, Replay PROVE RunInv' OBVIOUS
<1>1. log' = [p \in Phases |-> <<>>] /\ analysed' = Zero /\ rejects' = Zero BY DEF Replay
<1>2. \A p \in Phases : analysed'[p] = 0 /\ rejects'[p] = 0
  <2>1. analysed' = [p \in Phases |-> 0] /\ rejects' = [p \in Phases |-> 0]
    BY <1>1 DEF Zero
  <2> QED BY <2>1
<1>3. \A p \in Phases : Base(p)' = 0 BY <1>2 DEF Base
<1>4. PlayedInv'
  <2>1. PICK l : l = [p \in Phases |-> <<>>] OBVIOUS
  <2>2. Logs(l)' /\ \A p \in Phases : Analysed(p, 0)' = 0 BY <2>1, NothingLogged
  <2>3. Logs(log)' BY <1>1, <2>1, <2>2
  <2>4. \A p \in Phases : Analysed(p, Base(p))' = Analysed(p, 0)' BY <1>3 DEF Analysed
  <2> QED BY <1>2, <2>2, <2>3, <2>4 DEF PlayedInv
<1>5. /\ pc' = "enter" /\ size' = Initial /\ generations' = 0 /\ polls' = 0 BY DEF Replay
<1>6. Initial' = Initial BY Limits DEF StageInv, FieldsInv, Replay
<1>7. PlaceInv' BY <1>5, <1>6 DEF PlaceInv, Polling
<1> QED BY <1>4, <1>7 DEF RunInv

LEMMA RunStep == StageInv /\ RunInv /\ [Next]_vars => RunInv'
<1> SUFFICES ASSUME StageInv, RunInv, [Next]_vars PROVE RunInv' OBVIOUS
<1>1. CASE Request BY <1>1, StillPlaced DEF Request, envVars
<1>2. CASE Kernel BY <1>2, KernelRuns
<1>3. CASE Restoration BY <1>3, RestorationRuns
<1>4. CASE Unreplayable
  <2>1. /\ pc' = "unreplayable" /\ UNCHANGED <<setting, sample, countVars>>
    BY <1>4 DEF Unreplayable, envVars
  <2> QED BY <2>1, PlaceReturns
<1>5. CASE Replay BY <1>5, ReplayRuns
<1>6. CASE UNCHANGED vars BY <1>6, StillPlaced DEF vars, envVars
<1> QED BY <1>1, <1>2, <1>3, <1>4, <1>5, <1>6 DEF Next

-----------------------------------------------------------------------------
(* A replay against its record. *)

(* What the record says of a phase, batch by batch.                        *)
LEMMA RecordFacts ==
  ASSUME StageInv, RecordInv, run = "replay", NEW p \in Phases,
         NEW R, R = recorded.log[p]
  PROVE  /\ R \in Seq(Batch) /\ Len(R) \in Nat /\ BatchLog(sample[p], R)
         /\ \A i \in 1..Len(R) : /\ R[i] \in Batch
                                 /\ R[i].from \in Nat /\ R[i].drawn \in Nat
                                 /\ R[i].scored \in Nat /\ R[i].analysed \in Nat
         /\ \A i \in 0..Len(R) : /\ EndOf(R, i) \in Nat
                                 /\ Analysed(p, EndOf(R, i)) \in Nat
         /\ \A i \in 1..Len(R) : Analysed(p, EndOf(R, i)) =
                                   Analysed(p, EndOf(R, i - 1)) + R[i].analysed
         /\ \A i, j \in 0..Len(R) : i <= j =>
              /\ EndOf(R, i) <= EndOf(R, j)
              /\ Analysed(p, EndOf(R, i)) <= Analysed(p, EndOf(R, j))
         /\ Recorded(p) = EndOf(R, Len(R)) /\ Recorded(p) <= Len(sample[p])
         /\ stop[p] = Analysed(p, EndOf(R, Len(R)))
<1>0. 0 \in Nat OBVIOUS
<1>1. /\ R \in Seq(Batch) /\ Len(R) \in Nat /\ BatchLog(sample[p], R)
      /\ Recorded(p) = EndOf(R, Len(R))
      /\ stop[p] = Analysed(p, EndOf(R, Len(R)))
  BY DEF RecordInv, Logs, Recorded
<1>2. ASSUME NEW i \in 1..Len(R)
      PROVE  /\ R[i] \in Batch
             /\ R[i].from \in Nat /\ R[i].drawn \in Nat
             /\ R[i].scored \in Nat /\ R[i].analysed \in Nat
  <2>1. R[i] \in Batch BY <1>1
  <2> QED BY <2>1 DEF Batch
<1>3. \A i \in 1..Len(R) : R[i].from = EndOf(R, i - 1) BY <1>1 DEF BatchLog
<1>4. /\ \A j \in 0..Len(R) : EndOf(R, j) \in Nat
      /\ \A j \in 1..Len(R) : EndOf(R, j) = EndOf(R, j - 1) + R[j].scored
      /\ \A i, j \in 0..Len(R) : i <= j => EndOf(R, i) <= EndOf(R, j)
  BY <1>1, <1>3, EndsGrow
<1>5. ASSUME NEW i \in 0..Len(R) PROVE Analysed(p, EndOf(R, i)) \in Nat
  <2>1. EndOf(R, i) \in Nat BY <1>4
  <2>2. Passed(sample[p], 0, EndOf(R, i)) \in 0..EndOf(R, i) BY <1>0, <2>1, PassedPoints
  <2> QED BY <2>1, <2>2 DEF Analysed
<1>6. ASSUME NEW i \in 1..Len(R)
      PROVE  Analysed(p, EndOf(R, i)) = Analysed(p, EndOf(R, i - 1)) + R[i].analysed
  <2>1. PICK f \in Nat, c \in Nat : f = R[i].from /\ c = R[i].scored BY <1>2
  <2>2. EndOf(R, i - 1) = f /\ EndOf(R, i) = f + c BY <1>3, <1>4, <2>1
  <2>3. R[i].analysed = Passed(sample[p], f, c) BY <1>1, <2>1 DEF BatchLog
  <2>4. Passed(sample[p], 0, f + c) = Passed(sample[p], 0, f) + Passed(sample[p], f, c)
    BY PassedAdds
  <2> QED BY <2>2, <2>3, <2>4 DEF Analysed
<1>7. ASSUME NEW i \in 0..Len(R), NEW j \in 0..Len(R), i <= j
      PROVE  Analysed(p, EndOf(R, i)) <= Analysed(p, EndOf(R, j))
  <2>1. EndOf(R, i) \in Nat /\ EndOf(R, j) \in Nat /\ EndOf(R, i) <= EndOf(R, j)
    BY <1>4, <1>7
  <2>2. Passed(sample[p], 0, EndOf(R, i)) <= Passed(sample[p], 0, EndOf(R, j))
    BY <1>0, <2>1, PassedGrows
  <2> QED BY <2>2 DEF Analysed
<1>8. EndOf(R, Len(R)) <= Len(sample[p])
  <2>0. Len(sample[p]) \in Nat
    <3>1. sample[p] \in Seq(Kinds) BY DEF StageInv, FieldsInv
    <3> QED BY <3>1
  <2>1. CASE Len(R) = 0 BY <2>0, <2>1 DEF EndOf
  <2>2. CASE Len(R) # 0
    <3>1. Len(R) \in 1..Len(R) BY <1>1, <2>2
    <3>2. R[Len(R)].from + R[Len(R)].scored <= Len(sample[p]) BY <1>1, <3>1 DEF BatchLog
    <3> QED BY <2>2, <3>2 DEF EndOf
  <2> QED BY <2>1, <2>2
<1> QED BY <1>1, <1>2, <1>4, <1>5, <1>6, <1>7, <1>8

(* Where a replay stands in the record: a phase that may still analyse has *)
(* a recorded batch before it, which starts where the phase stands.        *)
LEMMA FollowFacts ==
  ASSUME StageInv, RunInv, RecordInv, FollowInv, run = "replay", NEW p \in Phases,
         NEW R, R = recorded.log[p], NEW n, n = Batches(p)
  PROVE  /\ n \in Nat /\ n <= Len(R) /\ Len(R) \in Nat
         /\ Base(p) = EndOf(R, n) /\ Base(p) <= Recorded(p) /\ Recorded(p) \in Nat
         /\ analysed[p] <= stop[p]
         /\ n = Len(R) => analysed[p] = stop[p]
         /\ n < Len(R) => /\ n + 1 \in 1..Len(R) /\ R[n + 1].from = Base(p)
                          /\ R[n + 1].drawn > 0
         /\ log[p] # <<>> /\ Short(p) => analysed[p] = stop[p]
<1>1. /\ R \in Seq(Batch) /\ Len(R) \in Nat /\ BatchLog(sample[p], R)
      /\ \A i \in 0..Len(R) : EndOf(R, i) \in Nat
      /\ \A i, j \in 0..Len(R) : i <= j =>
           /\ EndOf(R, i) <= EndOf(R, j)
           /\ Analysed(p, EndOf(R, i)) <= Analysed(p, EndOf(R, j))
      /\ Recorded(p) = EndOf(R, Len(R))
      /\ stop[p] = Analysed(p, EndOf(R, Len(R)))
  BY RecordFacts
<1>2. /\ n \in Nat /\ Len(log[p]) = n /\ log[p] \in Seq(Batch) /\ Base(p) = EndOf(log[p], n)
      /\ analysed[p] = Analysed(p, Base(p))
  BY KernelCounts
<1>3. n <= Len(R) /\ \A i \in 1..n : log[p][i] = R[i] BY <1>2 DEF FollowInv
<1>4. EndOf(log[p], n) = EndOf(R, n)
  <2>1. CASE n = 0 BY <2>1 DEF EndOf
  <2>2. CASE n # 0
    <3>1. n \in 1..n BY <1>2, <2>2
    <3> QED BY <1>3, <3>1 DEF EndOf
  <2> QED BY <2>1, <2>2
<1>5. n \in 0..Len(R) /\ Len(R) \in 0..Len(R) BY <1>1, <1>2, <1>3
<1>6. EndOf(R, n) <= EndOf(R, Len(R)) /\ analysed[p] <= stop[p]
  BY <1>1, <1>2, <1>3, <1>4, <1>5
<1>7. n = Len(R) => analysed[p] = stop[p] BY <1>1, <1>2, <1>4
<1>8. ASSUME n < Len(R)
      PROVE  n + 1 \in 1..Len(R) /\ R[n + 1].from = Base(p) /\ R[n + 1].drawn > 0
  <2>1. n + 1 \in 1..Len(R) /\ (n + 1) - 1 = n BY <1>1, <1>2, <1>8
  <2>2. R[n + 1].from = EndOf(R, (n + 1) - 1) /\ R[n + 1].drawn > 0
    BY <1>1, <2>1 DEF BatchLog
  <2> QED BY <1>2, <1>4, <2>1, <2>2
<1>9. ASSUME log[p] # <<>>, Short(p) PROVE analysed[p] = stop[p]
  <2>1. n # 0 /\ n \in 1..n BY <1>2, <1>9
  <2>2. LastBatch(p) = R[n] BY <1>2, <1>3, <2>1 DEF LastBatch, Last
  <2>3. R[n].scored < R[n].drawn BY <1>9, <2>2 DEF Short
  <2>4. n \in 1..Len(R) BY <1>5, <2>1
  <2>5. R[n].scored \in Nat /\ R[n].drawn \in Nat
    <3>1. R[n] \in Batch BY <1>1, <2>4
    <3> QED BY <3>1 DEF Batch
  <2>6. ~(n < Len(R)) BY <1>1, <2>3, <2>4, <2>5 DEF BatchLog
  <2> QED BY <1>1, <1>2, <1>3, <1>7, <2>6
<1> QED BY <1>1, <1>2, <1>3, <1>4, <1>5, <1>6, <1>7, <1>8, <1>9

(* A batch of a replay is the recorded one: it starts at the same point,   *)
(* draws as many, and may analyse as many as the record has left, so that  *)
(* it is cut where the recorded batch was.                                 *)
LEMMA ReplayWave ==
  ASSUME StageInv, RunInv, RecordInv, FollowInv, run = "replay", Steady,
         run' = run, stop' = stop, limit' = limit, recorded' = recorded,
         NEW phase \in Phases, NEW count \in Nat, count > 0, NEW remaining \in Nat,
         analysed[phase] < stop[phase],
         remaining = stop[phase] - analysed[phase] \/ (count = 1 /\ remaining = 1),
         Wave(phase, count, remaining), Whole(phase, Len(log[phase])),
         phase = "kernel" => KernelMay(count),
         phase = "restoration" => RestorationMay(count)
  PROVE  /\ Grows
         /\ \A p \in Phases : /\ Len(log'[p]) <= Len(recorded'.log[p])
                              /\ \A i \in 1..Len(log'[p]) : log'[p][i] = recorded'.log[p][i]
         /\ phase # "kernel" => analysed'["kernel"] = analysed["kernel"]
<1>0. FieldsInv /\ BatchInv BY DEF StageInv
<1>1. PICK R : R = recorded.log[phase] OBVIOUS
<1>2. PICK n : n = Batches(phase) OBVIOUS
<1>3. PICK b : b = Base(phase) OBVIOUS
<1>4. PICK l : l = log[phase] OBVIOUS
<1>5. /\ n \in Nat /\ n <= Len(R) /\ Len(R) \in Nat /\ n < Len(R)
      /\ n + 1 \in 1..Len(R) /\ R[n + 1].from = b /\ R[n + 1].drawn > 0
  <2>1. /\ n \in Nat /\ n <= Len(R) /\ Len(R) \in Nat
        /\ n = Len(R) => analysed[phase] = stop[phase]
        /\ n < Len(R) => /\ n + 1 \in 1..Len(R) /\ R[n + 1].from = Base(phase)
                         /\ R[n + 1].drawn > 0
    BY <1>1, <1>2, FollowFacts
  <2>2. analysed[phase] \in Nat /\ stop[phase] \in Nat BY <1>0, Counters
  <2>3. n < Len(R) BY <2>1, <2>2
  <2> QED BY <1>3, <2>1, <2>3
<1>6. /\ b \in Nat /\ b <= Len(sample[phase]) /\ l \in Seq(Batch) /\ Len(l) = n
      /\ analysed[phase] = Analysed(phase, b) /\ analysed[phase] \in Nat
      /\ stop[phase] \in Nat
  BY <1>0, <1>2, <1>3, <1>4, KernelCounts, Counters
<1>7. R[n + 1].drawn = count
  <2>1. CASE phase = "kernel"
    <3>1. KernelLog(R) BY <1>1, <2>1 DEF RecordInv, Logs
    <3>2. R[n + 1].drawn = KernelDraws(n + 1, b) BY <1>5, <3>1 DEF KernelLog
    <3> QED BY <1>3, <1>4, <1>6, <2>1, <3>2 DEF KernelMay
  <2>2. CASE phase = "restoration"
    <3>1. R[n + 1].drawn = RestorationDraws(n + 1)
      BY <1>1, <1>5, <2>2 DEF RecordInv, Logs, RestorationLog
    <3> QED BY <1>4, <1>6, <2>2, <3>1 DEF RestorationMay
  <2> QED BY <2>1, <2>2 DEF Phases
<1>8. /\ Grows
      /\ \A p \in Phases : p # phase => /\ log'[p] = log[p]
                                        /\ analysed'[p] = analysed[p]
      /\ \E scored \in 0..count : \E passed \in 0..scored :
           /\ Left(phase, count, remaining, scored, passed)
           /\ log'[phase] = Append(l, [from |-> b, drawn |-> count, scored |-> scored,
                                       analysed |-> passed])
  BY <1>3, <1>4, WaveLogs
<1>9. PICK scored \in 0..count, passed \in 0..count :
        /\ passed \in 0..scored
        /\ Left(phase, count, remaining, scored, passed)
        /\ log'[phase] = Append(l, [from |-> b, drawn |-> count, scored |-> scored,
                                    analysed |-> passed])
  <2>1. \A sc \in 0..count : \A pa \in 0..sc : pa \in 0..count OBVIOUS
  <2> QED BY <1>8, <2>1
<1>10. PICK t : t = sample'[phase] OBVIOUS
<1>11. ~Timed BY DEF Timed
<1>12. /\ passed = Passed(t, b, scored) /\ passed <= remaining
       /\ scored < count => t[b + scored + 1] # "rejected" /\ passed = remaining
       /\ scored = count \/ remaining < count
  BY <1>3, <1>9, <1>10, <1>11 DEF Left
<1>13. PICK c \in Nat, a \in Nat : c = R[n + 1].scored /\ a = R[n + 1].analysed
  BY <1>1, <1>5, RecordFacts
<1>14. /\ c <= count /\ b + c <= Len(sample[phase]) /\ a = Passed(sample[phase], b, c)
       /\ n + 1 < Len(R) => c = count
       /\ c < count => /\ b + c < Len(sample[phase])
                       /\ sample[phase][b + c + 1] # "rejected"
  <2>1. BatchLog(sample[phase], R) BY <1>1 DEF RecordInv, Logs
  <2> QED BY <1>5, <1>7, <1>13, <2>1 DEF BatchLog
<1>15. /\ Len(sample[phase]) \in Nat
       /\ Passed(t, b, c) = Passed(sample[phase], b, c)
       /\ c < count => t[b + c + 1] # "rejected"
  <2>1. /\ Len(sample[phase]) \in Nat
        /\ \A x, y \in Nat : x + y <= Len(sample[phase]) =>
             Passed(sample'[phase], x, y) = Passed(sample[phase], x, y)
    BY <1>0, <1>8, PrefixStays
  <2>2. Passed(t, b, c) = Passed(sample[phase], b, c) BY <1>6, <1>10, <1>14, <2>1
  <2>3. ASSUME c < count PROVE t[b + c + 1] # "rejected"
    <3>1. b + c + 1 \in 1..Len(sample[phase]) BY <1>6, <1>14, <2>1, <2>3
    <3>2. t[b + c + 1] = sample[phase][b + c + 1] BY <1>8, <1>10, <3>1 DEF Grows
    <3> QED BY <1>14, <2>3, <3>2
  <2> QED BY <2>1, <2>2, <2>3
<1>16. /\ a <= stop[phase] - analysed[phase]
       /\ c < count => a = stop[phase] - analysed[phase]
  <2>1. /\ \A i \in 0..Len(R) : Analysed(phase, EndOf(R, i)) \in Nat
        /\ \A i \in 1..Len(R) : Analysed(phase, EndOf(R, i)) =
                                  Analysed(phase, EndOf(R, i - 1)) + R[i].analysed
        /\ \A i, j \in 0..Len(R) : i <= j =>
             Analysed(phase, EndOf(R, i)) <= Analysed(phase, EndOf(R, j))
        /\ stop[phase] = Analysed(phase, EndOf(R, Len(R)))
    BY <1>1, RecordFacts
  <2>2. n + 1 \in 0..Len(R) /\ Len(R) \in 0..Len(R) /\ (n + 1) - 1 = n BY <1>5
  <2>3. EndOf(R, n) = b BY <1>1, <1>2, <1>3, FollowFacts
  <2>4. Analysed(phase, EndOf(R, n + 1)) = analysed[phase] + a
    BY <1>5, <1>6, <1>13, <2>1, <2>2, <2>3
  <2>5. Analysed(phase, EndOf(R, n + 1)) <= stop[phase] BY <1>5, <2>1, <2>2
  <2>6. c < count => n + 1 = Len(R) BY <1>5, <1>14
  <2>7. c < count => stop[phase] = analysed[phase] + a BY <2>1, <2>4, <2>6
  <2> QED BY <1>6, <2>4, <2>5, <2>7
<1>17. scored = c
  <2>1. CASE remaining = stop[phase] - analysed[phase]
    <3>1. Passed(t, b, c) <= remaining /\ (c < count => Passed(t, b, c) = remaining)
      BY <1>14, <1>15, <1>16, <2>1
    <3>2. c \in 0..count BY <1>14
    <3>3. Passed(t, b, scored) <= remaining
          /\ (scored < count => t[b + scored + 1] # "rejected" /\ Passed(t, b, scored) = remaining)
      BY <1>12
    <3> QED BY <1>6, <1>15, <3>1, <3>2, <3>3, PrefixIsUnique
  <2>2. CASE count = 1 /\ remaining = 1
    <3>1. scored = 1 BY <1>12, <2>2
    <3>2. c = 1
      <4> SUFFICES ASSUME c # 1 PROVE FALSE OBVIOUS
      <4>1. c = 0 /\ c < count BY <1>14, <2>2
      <4>2. a \in 0..0
        <5>1. a = Passed(sample[phase], b, 0) /\ 0 \in Nat BY <1>14, <4>1
        <5> QED BY <1>6, <5>1, PassedPoints
      <4>3. a = stop[phase] - analysed[phase] BY <1>16, <4>1
      <4> QED BY <1>6, <4>2, <4>3
    <3> QED BY <3>1, <3>2
  <2> QED BY <2>1, <2>2
<1>18. passed = a BY <1>12, <1>14, <1>15, <1>17
<1>19. R[n + 1] = [from |-> b, drawn |-> count, scored |-> scored, analysed |-> passed]
  <2>1. R[n + 1] \in Batch BY <1>1, <1>5, RecordFacts
  <2> QED BY <1>5, <1>7, <1>13, <1>17, <1>18, <2>1 DEF Batch
<1>20. log'[phase] = Append(l, R[n + 1]) /\ R[n + 1] \in Batch
  BY <1>1, <1>5, <1>9, <1>19, RecordFacts
<1>21. Len(log'[phase]) = n + 1 /\ \A i \in 1..(n + 1) : log'[phase][i] = R[i]
  <2>1. /\ Len(log'[phase]) = n + 1 /\ log'[phase][n + 1] = R[n + 1]
        /\ \A i \in 1..n : log'[phase][i] = l[i]
        /\ \A i \in 1..(n + 1) : i = n + 1 \/ i \in 1..n
    BY <1>6, <1>20, OneMore
  <2>2. \A i \in 1..n : l[i] = R[i] BY <1>1, <1>4, <1>6 DEF FollowInv
  <2> QED BY <2>1, <2>2
<1>22. ASSUME NEW p \in Phases
       PROVE  /\ Len(log'[p]) <= Len(recorded.log[p])
              /\ \A i \in 1..Len(log'[p]) : log'[p][i] = recorded.log[p][i]
  <2>1. CASE p = phase BY <1>1, <1>5, <1>21, <2>1
  <2>2. CASE p # phase BY <1>8, <2>2 DEF FollowInv
  <2> QED BY <2>1, <2>2
<1>23. phase # "kernel" => analysed'["kernel"] = analysed["kernel"]
  <2>1. "kernel" \in Phases BY DEF Phases
  <2> QED BY <1>8, <2>1
<1> QED BY <1>8, <1>22, <1>23

LEMMA SampleStays ==
  ASSUME FieldsInv, sample' = sample
  PROVE  Grows
<1>1. \A p \in Phases : sample[p] \in Seq(Kinds) BY DEF FieldsInv
<1>2. \A p \in Phases : Len(sample[p]) \in Nat BY <1>1
<1> QED BY <1>2 DEF Grows, FieldsInv

(* The record of a run is what it was, however the samples of the replay   *)
(* grow.                                                                   *)
LEMMA RecordStays ==
  ASSUME StageInv, RecordInv, Grows,
         UNCHANGED <<setting, run, stop, requested, recorded>>
  PROVE  RecordInv'
<1> SUFFICES ASSUME run = "replay" PROVE RecordInv' BY DEF RecordInv
<1>0. FieldsInv BY DEF StageInv
<1>1. PICK l \in [Phases -> Seq(Batch)] : l = recorded.log BY DEF RecordInv
<1>2. Logs(l)' BY <1>0, <1>1, LogsStay DEF RecordInv
<1>3. ASSUME NEW p \in Phases
      PROVE  /\ Analysed(p, Recorded(p))' = Analysed(p, Recorded(p))
             /\ ValidUpTo(p, Recorded(p))' <=> ValidUpTo(p, Recorded(p))
  <2>1. PICK R : R = recorded.log[p] OBVIOUS
  <2>2. PICK b \in Nat : b = Recorded(p) /\ b <= Len(sample[p])
    <3>1. /\ Len(R) \in Nat /\ \A i \in 0..Len(R) : EndOf(R, i) \in Nat
          /\ Recorded(p) = EndOf(R, Len(R)) /\ Recorded(p) <= Len(sample[p])
      BY <2>1, RecordFacts
    <3>2. Len(R) \in 0..Len(R) BY <3>1
    <3> QED BY <3>1, <3>2
  <2>3. Recorded(p)' = b BY <2>2 DEF Recorded
  <2>4. /\ Analysed(p, b)' = Analysed(p, b) /\ (ValidUpTo(p, b)' <=> ValidUpTo(p, b))
    BY <1>0, <2>2, PrefixStays
  <2>5. /\ Analysed(p, Recorded(p))' = Analysed(p, b)'
        /\ ValidUpTo(p, Recorded(p))' <=> ValidUpTo(p, b)'
    BY <2>3 DEF Analysed, ValidUpTo
  <2> QED BY <2>2, <2>4, <2>5
<1>4. Logs(recorded.log)' BY <1>1, <1>2
<1> QED BY <1>3, <1>4 DEF RecordInv

(* A step of a replay that scores nothing follows the record where it      *)
(* leads.                                                                  *)
LEMMA FollowReturns ==
  ASSUME FollowInv, run = "replay",
         UNCHANGED <<run, stop, log, analysed, recorded>>,
         termination' # "cancelled", pc' # "unreplayable",
         pc' \in {"restore", "poll", "polled", "tried", "done"} =>
           analysed["kernel"] = stop["kernel"],
         pc' = "done" => analysed["restoration"] = stop["restoration"]
  PROVE  FollowInv'
BY DEF FollowInv

LEMMA FollowStays ==
  ASSUME FollowInv, UNCHANGED <<run, stop, log, analysed, recorded, termination, pc>>
  PROVE  FollowInv'
BY DEF FollowInv

(* The head of a generation lets through what the record asks for.         *)
LEMMA KernelGoesOn ==
  ASSUME StageInv, RunInv, RecordInv, FollowInv, run = "replay",
         analysed["kernel"] < stop["kernel"], Batches("kernel") >= 1,
         NEW n, n = Batches("kernel") + 1, NEW b, b = Base("kernel")
  PROVE  /\ SizeAt(n, b) >= OperatorMin /\ b - Analysed("kernel", b) < MaxRejects
         /\ Unsettled(n, b) /\ KernelDraws(n, b) > 0
<1>0. FieldsInv /\ "kernel" \in Phases BY DEF StageInv, Phases
<1>1. PICK R : R = recorded.log["kernel"] OBVIOUS
<1>2. /\ Batches("kernel") \in Nat /\ Batches("kernel") <= Len(R) /\ Len(R) \in Nat
      /\ Batches("kernel") = Len(R) => analysed["kernel"] = stop["kernel"]
      /\ Batches("kernel") < Len(R) => /\ n \in 1..Len(R) /\ R[n].from = b /\ R[n].drawn > 0
  BY <1>0, <1>1, FollowFacts
<1>3. n \in 1..Len(R) /\ R[n].from = b /\ R[n].drawn > 0 /\ n >= 2
  <2>1. analysed["kernel"] \in Nat /\ stop["kernel"] \in Nat BY <1>0, Counters
  <2> QED BY <1>2, <2>1
<1>4. KernelLog(R) BY <1>1 DEF RecordInv, Logs
<1> QED BY <1>3, <1>4 DEF KernelLog

LEMMA KernelFollows ==
  ASSUME StageInv, RunInv, RecordInv, FollowInv, run = "replay", Kernel
  PROVE  Grows /\ FollowInv'
<1>0. FieldsInv /\ BatchInv /\ CountInv /\ LogInv /\ PlaceInv /\ "kernel" \in Phases
  BY DEF StageInv, RunInv, Phases
<1>a. /\ ~requested /\ ~Timed /\ termination # "cancelled" BY DEF RecordInv, FollowInv, Timed
<1>b. /\ analysed["kernel"] \in Nat /\ stop["kernel"] \in Nat
      /\ analysed["kernel"] <= stop["kernel"] /\ Batches("kernel") \in Nat
      /\ Base("kernel") \in Nat /\ Initial \in Nat /\ Initial > 0
  BY <1>0, Counters, Limits, KernelCounts DEF CountInv, FieldsInv
<1>c. ASSUME NEW why, KernelEnds(why), why # "cancelled",
             ~(analysed["kernel"] < stop["kernel"])
      PROVE  Grows /\ FollowInv'
  <2>1. /\ pc' = "restore" /\ termination' = why
        /\ UNCHANGED <<run, stop, sample, log, analysed, recorded>>
    BY <1>c DEF KernelEnds, envVars, countVars
  <2>2. analysed["kernel"] = stop["kernel"] BY <1>b, <1>c
  <2> QED BY <1>0, <1>c, <2>1, <2>2, SampleStays, FollowReturns
<1>d. /\ PrefixTermination # "cancelled"
      /\ Short("kernel") /\ log["kernel"] # <<>> => ~(analysed["kernel"] < stop["kernel"])
  <2>1. PrefixTermination # "cancelled" BY DEF PrefixTermination
  <2>2. Short("kernel") /\ log["kernel"] # <<>> => analysed["kernel"] = stop["kernel"]
    BY <1>0, FollowFacts
  <2> QED BY <1>b, <2>1, <2>2
<1>e. ASSUME pc \in {"top", "generation"}, analysed["kernel"] < stop["kernel"]
      PROVE  /\ SizeAt(Batches("kernel") + 1, Base("kernel")) >= OperatorMin
             /\ Base("kernel") - Analysed("kernel", Base("kernel")) < MaxRejects
             /\ Unsettled(Batches("kernel") + 1, Base("kernel"))
             /\ KernelDraws(Batches("kernel") + 1, Base("kernel")) > 0
  <2>1. Batches("kernel") >= 1 BY <1>0, <1>b, <1>e DEF PlaceInv
  <2> QED BY <1>e, <2>1, KernelGoesOn
<1>f. ASSUME NEW count \in Nat, count > 0, NEW remaining \in Nat,
             Wave("kernel", count, remaining), KernelMay(count),
             Whole("kernel", Len(log["kernel"])),
             analysed["kernel"] < stop["kernel"],
             remaining = stop["kernel"] - analysed["kernel"],
             Steady, pc' \in {"initial", "generation"},
             UNCHANGED <<envVars, limit, recorded, termination>>
      PROVE  Grows /\ FollowInv'
  <2>1. run' = run /\ stop' = stop BY <1>f DEF envVars
  <2>2. /\ Grows
        /\ \A p \in Phases : /\ Len(log'[p]) <= Len(recorded'.log[p])
                             /\ \A i \in 1..Len(log'[p]) : log'[p][i] = recorded'.log[p][i]
    <3>1. "kernel" # "restoration" OBVIOUS
    <3> QED BY <1>0, <1>f, <2>1, <3>1, ReplayWave
  <2> QED BY <1>a, <1>f, <2>1, <2>2 DEF FollowInv
<1>g. pc = "top" /\ size >= OperatorMin /\ ~Capped /\ analysed["kernel"] < stop["kernel"] =>
        Count = KernelDraws(Batches("kernel") + 1, Base("kernel"))
  <2> SUFFICES ASSUME pc = "top" PROVE Count = KernelDraws(Batches("kernel") + 1, Base("kernel"))
    OBVIOUS
  <2>1. Before BY DEF Before
  <2>2. FoundValid <=> ValidUpTo("kernel", Base("kernel")) BY <2>1, FoundInKernel
  <2>3. EvaluationLimit = LimitAt(Base("kernel")) BY <2>2 DEF EvaluationLimit, LimitAt
  <2>4. /\ Batches("kernel") >= 1 /\ size = SizeAt(Batches("kernel") + 1, Base("kernel"))
    BY <1>0 DEF PlaceInv
  <2>5. Batches("kernel") + 1 # 1 BY <1>b, <2>4
  <2>6. analysed["kernel"] = Analysed("kernel", Base("kernel")) BY <1>0, KernelCounts
  <2> QED BY <2>3, <2>4, <2>5, <2>6 DEF Count, KernelDraws
<1>1. CASE InitialCancelled BY <1>1, <1>a DEF InitialCancelled
<1>2. CASE InitialPopulation
  <2>1. /\ pc = "enter" /\ Wave("kernel", Initial, stop["kernel"]) /\ pc' = "initial"
        /\ UNCHANGED <<envVars, requested, size, generations, polls, limit, termination,
                       recorded>>
    BY <1>2 DEF InitialPopulation
  <2>2. /\ log["kernel"] = <<>> /\ log["restoration"] = <<>> /\ analysed["kernel"] = 0
    BY <1>0, <2>1 DEF CountInv, Before
  <2>3. KernelMay(Initial) BY <2>2 DEF KernelMay, KernelDraws
  <2>4. Whole("kernel", Len(log["kernel"])) BY <2>2 DEF Whole
  <2>5. Steady BY <1>0, <2>1, StillSteady DEF Steady, Places, envVars
  <2>6. /\ analysed["kernel"] < stop["kernel"]
        /\ stop["kernel"] = stop["kernel"] - analysed["kernel"]
    <3>1. stop["kernel"] > 0 BY DEF RecordInv
    <3> QED BY <1>b, <2>2, <3>1
  <2> QED BY <1>b, <1>f, <2>1, <2>3, <2>4, <2>5, <2>6
<1>3. CASE InitialEnds
  <2>1. pc = "initial" /\ Short("kernel") /\ KernelEnds(PrefixTermination)
    BY <1>3, <1>a DEF InitialEnds
  <2>2. log["kernel"] # <<>> BY <1>0, <2>1 DEF LogInv
  <2> QED BY <1>c, <1>d, <2>1, <2>2
<1>4. CASE InitialDone
  <2>1. /\ pc' = "top"
        /\ UNCHANGED <<run, stop, sample, log, analysed, recorded, termination>>
    BY <1>4 DEF InitialDone, envVars, countVars
  <2> QED BY <1>0, <1>a, <2>1, SampleStays, FollowReturns
<1>5. CASE OperatorsStop
  <2>1. pc = "top" /\ size < OperatorMin /\ KernelEnds("evaluation_budget")
    BY <1>5 DEF OperatorsStop
  <2>2. size = SizeAt(Batches("kernel") + 1, Base("kernel")) BY <1>0, <2>1 DEF PlaceInv
  <2>3. size \in Nat /\ OperatorMin \in Nat
    <3>1. size \in Floor..Initial /\ Floor \in Nat BY <1>0, Limits DEF FieldsInv
    <3> QED BY <1>b, <3>1, RefinementAssumption
  <2>4. ~(analysed["kernel"] < stop["kernel"]) BY <1>e, <2>1, <2>2, <2>3
  <2> QED BY <1>c, <2>1, <2>4
<1>6. CASE CountReached
  <2>1. ~(analysed["kernel"] < stop["kernel"]) /\ KernelEnds("evaluation_budget")
    BY <1>6, <1>b DEF CountReached, Reached
  <2> QED BY <1>c, <2>1
<1>7. CASE CapReached
  <2>1. pc = "top" /\ rejects["kernel"] >= MaxRejects /\ KernelEnds("pregate_exhausted")
    BY <1>7 DEF CapReached, InLoop, Capped
  <2>2. rejects["kernel"] = Base("kernel") - Analysed("kernel", Base("kernel"))
    BY <1>0, KernelCounts
  <2>3. rejects["kernel"] \in Nat /\ MaxRejects \in Nat
    BY <1>0, Counters, RefinementAssumption
  <2>4. ~(analysed["kernel"] < stop["kernel"]) BY <1>e, <2>1, <2>2, <2>3
  <2> QED BY <1>c, <2>1, <2>4
<1>8. CASE LimitReached
  <2>1. /\ pc = "top" /\ size >= OperatorMin /\ ~Capped /\ Count = 0
        /\ KernelEnds("evaluation_budget")
    BY <1>8 DEF LimitReached, MayGenerate, InLoop
  <2>2. ~(analysed["kernel"] < stop["kernel"]) BY <1>e, <1>g, <2>1
  <2> QED BY <1>c, <2>1, <2>2
<1>9. CASE TimeReached BY <1>9, <1>a DEF TimeReached
<1>10. CASE GenerationCancelled BY <1>10, <1>a DEF GenerationCancelled
<1>11. CASE Generation
  <2>1. /\ pc = "top" /\ size >= OperatorMin /\ ~Reached /\ ~Capped /\ Count > 0
        /\ pc' = "generation"
        /\ Wave("kernel", Count, stop["kernel"] - analysed["kernel"])
        /\ UNCHANGED <<envVars, requested, size, generations, polls, limit, termination,
                       recorded>>
    BY <1>11 DEF Generation, MayGenerate, InLoop
  <2>2. KernelMay(Count) /\ Count \in Nat BY <2>1, GenerationMay
  <2>3. Whole("kernel", Len(log["kernel"])) BY <1>0, <2>1 DEF LogInv
  <2>4. Steady BY <1>0, <2>1, StillSteady DEF Steady, Places, envVars
  <2>5. /\ analysed["kernel"] < stop["kernel"]
        /\ stop["kernel"] - analysed["kernel"] \in Nat
    BY <1>b, <2>1 DEF Reached
  <2> QED BY <1>f, <2>1, <2>2, <2>3, <2>4, <2>5
<1>12. CASE BatchCancelled BY <1>12, <1>a DEF BatchCancelled
<1>13. CASE GenerationCut
  <2>1. /\ pc = "generation" /\ Short("kernel")
        /\ pc' = "restore" /\ termination' = PrefixTermination
        /\ UNCHANGED <<run, stop, sample, log, analysed, recorded>>
    BY <1>13 DEF GenerationCut, envVars, countVars
  <2>2. log["kernel"] # <<>> BY <1>0, <2>1 DEF LogInv
  <2>3. analysed["kernel"] = stop["kernel"] BY <1>b, <1>d, <2>1, <2>2
  <2> QED BY <1>0, <1>d, <2>1, <2>3, SampleStays, FollowReturns
<1>14. CASE GenerationDone
  <2>1. /\ pc = "generation"
        /\ UNCHANGED <<run, stop, sample, log, analysed, recorded>>
        /\ \/ Settled /\ pc' = "restore" /\ termination' = "stagnated"
           \/ pc' = "top" /\ termination' = termination
    BY <1>14 DEF GenerationDone, envVars, countVars
  <2>2. CASE Settled /\ pc' = "restore" /\ termination' = "stagnated"
    <3>1. /\ generations = Batches("kernel") - 2 /\ Batches("kernel") >= 2 /\ Before
      BY <1>0, <2>1 DEF PlaceInv, Before
    <3>2. FoundValid <=> ValidUpTo("kernel", Base("kernel")) BY <3>1, FoundInKernel
    <3>3. (Batches("kernel") + 1) - 2 = generations + 1 /\ Batches("kernel") + 1 >= 3
      BY <1>b, <3>1
    <3>4. ~Unsettled(Batches("kernel") + 1, Base("kernel"))
      BY <2>2, <3>2, <3>3 DEF Settled, Unsettled
    <3>5. analysed["kernel"] = stop["kernel"] BY <1>b, <1>e, <2>1, <3>4
    <3> QED BY <1>0, <2>1, <2>2, <3>5, SampleStays, FollowReturns
  <2>3. CASE pc' = "top" /\ termination' = termination
    BY <1>0, <1>a, <2>1, <2>3, SampleStays, FollowReturns
  <2> QED BY <2>1, <2>2, <2>3
<1> QED BY <1>1, <1>2, <1>3, <1>4, <1>5, <1>6, <1>7, <1>8, <1>9, <1>10, <1>11, <1>12,
           <1>13, <1>14 DEF Kernel

LEMMA PollsGrow ==
  ASSUME NEW i \in Nat, NEW j \in Nat, i <= j
  PROVE  PollsIn(i) <= PollsIn(j)
<1>1. (i + 1) \div 2 <= (j + 1) \div 2
  <2>1. i + 1 \in Int /\ j + 1 \in Int /\ i + 1 <= j + 1 /\ 2 \in Nat /\ 2 > 0 OBVIOUS
  <2> QED BY <2>1, QuotientGrows
<1> QED BY <1>1 DEF PollsIn

(* Batches at the end of the record that analysed nothing only cost the    *)
(* restoration some of its limit.                                          *)
LEMMA LimitFalls ==
  ASSUME StageInv, RunInv, RecordInv, FollowInv, run = "replay",
         analysed["kernel"] = stop["kernel"]
  PROVE  /\ LimitFrom(Recorded("kernel")) <= LimitFrom(Base("kernel"))
         /\ LimitFrom(Recorded("kernel")) \in Nat /\ LimitFrom(Base("kernel")) \in Nat
         /\ ValidUpTo("kernel", Base("kernel")) => ValidUpTo("kernel", Recorded("kernel"))
<1>0. FieldsInv /\ "kernel" \in Phases BY DEF StageInv, Phases
<1>1. PICK R : R = recorded.log["kernel"] OBVIOUS
<1>2. PICK b \in Nat, c \in Nat : b = Base("kernel") /\ c = Recorded("kernel") /\ b <= c
  <2>1. Base("kernel") <= Recorded("kernel") /\ Recorded("kernel") \in Nat
    BY <1>0, <1>1, FollowFacts
  <2>2. Base("kernel") \in Nat BY <1>0, Counters
  <2> QED BY <2>1, <2>2
<1>3. /\ Analysed("kernel", b) = stop["kernel"] /\ Analysed("kernel", c) = stop["kernel"]
      /\ stop["kernel"] \in Nat /\ stop["kernel"] <= Budget /\ Budget \in Nat
  <2>1. analysed["kernel"] = Analysed("kernel", b) BY <1>0, <1>2, KernelCounts
  <2>2. stop["kernel"] = Analysed("kernel", c) BY <1>0, <1>2 DEF RecordInv
  <2> QED BY <1>0, <2>1, <2>2, Counters, Limits DEF FieldsInv
<1>4. /\ MaxRejects \in Nat /\ MaxPolls \in Nat /\ Free \in Nat BY RefinementAssumption
<1>5. PICK most \in Nat : most = MaxPolls * (2 * Free + 1)
  <2>1. MaxPolls * (2 * Free + 1) \in Nat BY <1>4
  <2> QED BY <2>1
<1>6. /\ LimitFrom(b) =
           Least(most, Least(Budget - stop["kernel"],
                             Minus(MaxRejects, b - stop["kernel"])))
      /\ LimitFrom(c) =
           Least(most, Least(Budget - stop["kernel"],
                             Minus(MaxRejects, c - stop["kernel"])))
  BY <1>3, <1>5 DEF LimitFrom
<1>7. b - stop["kernel"] \in Nat /\ c - stop["kernel"] \in Nat
  <2>1. Analysed("kernel", b) \in 0..b
    <3>1. 0 \in Nat OBVIOUS
    <3> QED BY <1>2, <3>1, PassedPoints DEF Analysed
  <2> QED BY <1>2, <1>3, <2>1
<1>8. LimitFrom(c) <= LimitFrom(b) /\ LimitFrom(c) \in Nat /\ LimitFrom(b) \in Nat
  BY <1>2, <1>3, <1>4, <1>6, <1>7 DEF Least, Minus
<1>9. ValidUpTo("kernel", b) => ValidUpTo("kernel", c) BY <1>2 DEF ValidUpTo
<1> QED BY <1>2, <1>8, <1>9

(* What the record asks of the restoration is open to the replay.          *)
LEMMA RestorationGoesOn ==
  ASSUME StageInv, RunInv, RecordInv, FollowInv, run = "replay",
         analysed["kernel"] = stop["kernel"],
         analysed["restoration"] < stop["restoration"],
         NEW n, n = Batches("restoration") + 1, NEW b, b = Base("restoration")
  PROVE  /\ b + RestorationDraws(n) <= LimitFrom(Base("kernel"))
         /\ ~ValidUpTo("restoration", b) /\ ~ValidUpTo("kernel", Base("kernel"))
         /\ PollsIn(n) <= MaxPolls /\ RestorationDraws(n) > 0
<1>0. FieldsInv /\ "restoration" \in Phases BY DEF StageInv, Phases
<1>1. PICK R : R = recorded.log["restoration"] OBVIOUS
<1>2. /\ Batches("restoration") \in Nat /\ Batches("restoration") <= Len(R) /\ Len(R) \in Nat
      /\ Batches("restoration") = Len(R) => analysed["restoration"] = stop["restoration"]
      /\ Batches("restoration") < Len(R) =>
           /\ n \in 1..Len(R) /\ R[n].from = b /\ R[n].drawn > 0
  BY <1>0, <1>1, FollowFacts
<1>3. n \in 1..Len(R) /\ R[n].from = b /\ R[n].drawn > 0 /\ n \in Nat /\ n <= Len(R)
  <2>1. analysed["restoration"] \in Nat /\ stop["restoration"] \in Nat BY <1>0, Counters
  <2> QED BY <1>2, <2>1
<1>4. RestorationLog(R, Recorded("kernel")) BY <1>1 DEF RecordInv, Logs, Recorded
<1>5. /\ R[n].drawn = RestorationDraws(n)
      /\ R[n].from + R[n].drawn <= LimitFrom(Recorded("kernel"))
      /\ ~ValidUpTo("restoration", R[n].from)
      /\ PollsIn(Len(R)) <= MaxPolls
      /\ R # <<>> => ~ValidUpTo("kernel", Recorded("kernel"))
  BY <1>3, <1>4 DEF RestorationLog
<1>6. R # <<>> BY <1>3
<1>7. PollsIn(n) <= MaxPolls
  <2>1. PollsIn(n) <= PollsIn(Len(R)) BY <1>2, <1>3, PollsGrow
  <2>2. PollsIn(n) \in Nat /\ PollsIn(Len(R)) \in Nat /\ MaxPolls \in Nat
    <3>1. (n + 1) \div 2 \in Nat /\ (Len(R) + 1) \div 2 \in Nat BY <1>2, <1>3
    <3> QED BY <1>2, <1>3, <3>1, RefinementAssumption DEF PollsIn
  <2> QED BY <1>5, <2>1, <2>2
<1>8. b + RestorationDraws(n) <= LimitFrom(Base("kernel"))
  <2>1. /\ LimitFrom(Recorded("kernel")) <= LimitFrom(Base("kernel"))
        /\ LimitFrom(Recorded("kernel")) \in Nat /\ LimitFrom(Base("kernel")) \in Nat
    BY LimitFalls
  <2>2. b \in Nat /\ RestorationDraws(n) \in Nat
    <3>1. R[n].drawn \in Nat BY <1>0, <1>1, <1>3, RecordFacts
    <3>2. b \in Nat BY <1>0, Counters
    <3> QED BY <1>5, <3>1, <3>2
  <2> QED BY <1>3, <1>5, <2>1, <2>2
<1>9. ~ValidUpTo("kernel", Base("kernel")) BY <1>5, <1>6, LimitFalls
<1> QED BY <1>3, <1>5, <1>7, <1>8, <1>9

(* A replay needs the restoration the recorded run started.                *)
LEMMA NeededAgain ==
  ASSUME StageInv, RunInv, RecordInv, FollowInv, run = "replay", pc = "restore",
         ~NeedsRestoration
  PROVE  analysed["restoration"] = stop["restoration"]
<1>0. /\ FieldsInv /\ CountInv /\ "kernel" \in Phases /\ "restoration" \in Phases
  BY DEF StageInv, Phases
<1>1. /\ analysed["kernel"] = stop["kernel"] /\ termination # "cancelled"
      /\ analysed["restoration"] = 0 /\ Base("restoration") = 0 /\ stop["kernel"] > 0
  BY <1>0 DEF FollowInv, CountInv, Before, RecordInv, Base
<1>2. /\ stop["restoration"] \in Nat /\ stop["kernel"] \in Nat /\ stop["kernel"] <= Budget
      /\ rejects["kernel"] \in Nat /\ Budget \in Nat
  BY <1>0, Counters, Limits DEF FieldsInv
<1> SUFFICES ASSUME analysed["restoration"] # stop["restoration"] PROVE FALSE OBVIOUS
<1>3. analysed["restoration"] < stop["restoration"] BY <1>1, <1>2
<1>4. PICK n : n = Batches("restoration") + 1 OBVIOUS
<1>5. /\ Base("restoration") + RestorationDraws(n) <= LimitFrom(Base("kernel"))
      /\ ~ValidUpTo("kernel", Base("kernel")) /\ RestorationDraws(n) > 0
  BY <1>1, <1>3, <1>4, RestorationGoesOn
<1>6. ~FoundValid
  <2>1. Before BY DEF Before
  <2> QED BY <1>5, <2>1, FoundInKernel
<1>7. LimitFrom(Base("kernel")) > 0
  <2>1. LimitFrom(Base("kernel")) \in Nat BY <1>1, LimitFalls
  <2>2. RestorationDraws(n) \in Nat
    <3>1. Free \in Nat BY RefinementAssumption
    <3> QED BY <3>1 DEF RestorationDraws
  <2> QED BY <1>1, <1>5, <2>1, <2>2
<1>8. LimitFrom(Base("kernel")) = Least(MaxPolls * (2 * Free + 1), MaxScores)
  <2>1. /\ analysed["kernel"] = Analysed("kernel", Base("kernel"))
        /\ rejects["kernel"] = Base("kernel") - Analysed("kernel", Base("kernel"))
    BY <1>0, KernelCounts
  <2> QED BY <2>1 DEF LimitFrom, MaxScores
<1>9. MaxScores > 0
  <2>1. PICK most \in Nat : most = MaxPolls * (2 * Free + 1)
    <3>1. MaxPolls \in Nat /\ Free \in Nat BY RefinementAssumption
    <3>2. MaxPolls * (2 * Free + 1) \in Nat BY <3>1
    <3> QED BY <3>2
  <2>2. MaxScores \in Nat
    <3>1. MaxRejects \in Nat BY RefinementAssumption
    <3> QED BY <1>1, <1>2, <3>1 DEF MaxScores, Least, Minus
  <2>3. Least(most, MaxScores) > 0 BY <1>7, <1>8, <2>1
  <2> QED BY <2>2, <2>3 DEF Least
<1> QED BY <1>1, <1>2, <1>6, <1>9 DEF NeedsRestoration

LEMMA RestorationFollows ==
  ASSUME StageInv, RunInv, RecordInv, FollowInv, run = "replay", Restoration
  PROVE  Grows /\ FollowInv' /\ stop' = stop
<1>0. /\ FieldsInv /\ BatchInv /\ CountInv /\ LogInv /\ PlaceInv
      /\ "kernel" \in Phases /\ "restoration" \in Phases
  BY DEF StageInv, RunInv, Phases
<1>a. /\ ~requested /\ ~Timed /\ termination # "cancelled" BY DEF RecordInv, FollowInv, Timed
<1>b. /\ analysed["restoration"] \in Nat /\ stop["restoration"] \in Nat
      /\ analysed["restoration"] <= stop["restoration"] /\ Batches("restoration") \in Nat
      /\ Base("restoration") \in Nat /\ limit \in Nat
      /\ analysed["kernel"] = Analysed("kernel", Base("kernel"))
  <2>1. analysed["restoration"] <= stop["restoration"] BY <1>0, FollowFacts
  <2> QED BY <1>0, <2>1, Counters, KernelCounts DEF FieldsInv
<1>c. /\ Free \in Nat /\ Free > 0 /\ MaxPolls \in Nat /\ polls \in Nat
      /\ setting.gradient \in BOOLEAN
  <2>1. MaxPolls \in Nat /\ Free \in Nat /\ Free > 0 BY RefinementAssumption
  <2> QED BY <1>0, <2>1 DEF FieldsInv, Settings
<1>d. PICK n \in Nat : n = Batches("restoration") BY <1>b
<1>e. analysed["kernel"] = stop["kernel"]
  <2>1. pc \in {"restore", "poll", "polled", "tried"}
    BY DEF Restoration, NoRestoration, RestorationCancelled, StartRestoration, PollsEnd,
           PollCancelled, MayPoll, Poll, PollStops, Try, PollDone
  <2> QED BY <2>1 DEF FollowInv
<1>f. ASSUME analysed["restoration"] < stop["restoration"]
      PROVE  /\ Base("restoration") + RestorationDraws(n + 1) <= LimitFrom(Base("kernel"))
             /\ ~ValidUpTo("restoration", Base("restoration"))
             /\ ~ValidUpTo("kernel", Base("kernel"))
             /\ PollsIn(n + 1) <= MaxPolls
  BY <1>d, <1>e, <1>f, RestorationGoesOn
<1>g. ASSUME NEW count \in Nat, count > 0, NEW remaining \in Nat,
             Wave("restoration", count, remaining), count = RestorationDraws(n + 1),
             Whole("restoration", Len(log["restoration"])),
             analysed["restoration"] < stop["restoration"], Polling,
             remaining = stop["restoration"] - analysed["restoration"]
               \/ (count = 1 /\ remaining = 1),
             Steady, pc' \in {"polled", "tried"},
             UNCHANGED <<envVars, limit, recorded, termination>>
      PROVE  Grows /\ FollowInv' /\ stop' = stop
  <2>1. run' = run /\ stop' = stop BY <1>g DEF envVars
  <2>2. RestorationMay(count)
    <3>1. analysed["kernel"] > 0 BY <1>0, <1>g DEF PlaceInv
    <3>2. Len(log["restoration"]) + 1 = n + 1 BY <1>d DEF Batches
    <3>3. PICK m : m = n + 1 OBVIOUS
    <3> QED BY <1>b, <1>f, <1>g, <3>1, <3>2, <3>3 DEF RestorationMay
  <2>3. /\ Grows
        /\ \A p \in Phases : /\ Len(log'[p]) <= Len(recorded'.log[p])
                             /\ \A i \in 1..Len(log'[p]) : log'[p][i] = recorded'.log[p][i]
        /\ analysed'["kernel"] = analysed["kernel"]
    <3>1. "kernel" # "restoration" /\ "restoration" # "kernel" OBVIOUS
    <3> QED BY <1>0, <1>g, <2>1, <2>2, <3>1, ReplayWave
  <2> QED BY <1>a, <1>e, <1>g, <2>1, <2>3 DEF FollowInv
<1>h. ASSUME Ends(termination), analysed["restoration"] = stop["restoration"]
      PROVE  Grows /\ FollowInv' /\ stop' = stop
  <2>1. /\ pc' = "done" /\ termination' = termination
        /\ UNCHANGED <<run, stop, sample, log, analysed, recorded>>
    BY <1>h DEF Ends, envVars, countVars
  <2> QED BY <1>0, <1>a, <1>e, <1>h, <2>1, SampleStays, FollowReturns
<1>1. CASE NoRestoration BY <1>1, <1>h, NeededAgain DEF NoRestoration
<1>2. CASE RestorationCancelled BY <1>2, <1>a DEF RestorationCancelled
<1>3. CASE StartRestoration
  <2>1. run # "original" OBVIOUS
  <2>2. /\ pc' = "poll"
        /\ UNCHANGED <<run, stop, sample, log, analysed, recorded, termination>>
    BY <1>3, <2>1 DEF StartRestoration, countVars
  <2> QED BY <1>0, <1>a, <1>e, <2>2, SampleStays, FollowReturns
<1>4. CASE PollsEnd
  <2>1. pc = "poll" /\ ~MayPoll /\ Ends(termination) BY <1>4 DEF PollsEnd
  <2> SUFFICES ASSUME analysed["restoration"] # stop["restoration"] PROVE FALSE
    BY <1>h, <2>1
  <2>2. analysed["restoration"] < stop["restoration"] BY <1>b
  <2>3. polls = PollsIn(n) /\ limit = LimitFrom(Base("kernel"))
    BY <1>0, <1>d, <2>1 DEF PlaceInv, Polling
  <2>4. Base("restoration") + RestorationDraws(n + 1) <= limit /\ PollsIn(n + 1) <= MaxPolls
    BY <1>f, <2>2, <2>3
  <2>5. ~(setting.gradient /\ n % 2 = 1)
    <3> SUFFICES ASSUME setting.gradient, n % 2 = 1 PROVE FALSE OBVIOUS
    <3>1. (n + 1) % 2 = 0 OBVIOUS
    <3>2. RestorationDraws(n + 1) = 1 BY <3>1 DEF RestorationDraws
    <3>3. ~(Base("restoration") >= limit) BY <1>b, <2>4, <3>2
    <3>4. ~(analysed["restoration"] >= stop["restoration"]) BY <1>b, <2>2
    <3> QED BY <1>0, <1>a, <1>d, <2>1, <3>3, <3>4 DEF PlaceInv
  <2>6. 2 * Free = RestorationDraws(n + 1) /\ PollsIn(n + 1) = PollsIn(n) + 1
    <3>1. CASE setting.gradient
      <4>1. n % 2 # 1 BY <2>5, <3>1
      <4>2. (n + 1) % 2 = 1 /\ (n + 1 + 1) \div 2 = (n + 1) \div 2 + 1 BY <4>1
      <4> QED BY <3>1, <4>2 DEF RestorationDraws, PollsIn
    <3>2. CASE ~setting.gradient BY <3>2 DEF RestorationDraws, PollsIn
    <3> QED BY <3>1, <3>2
  <2>7. polls < MaxPolls BY <1>c, <2>3, <2>4, <2>6
  <2>8. Fits BY <2>4, <2>6 DEF Fits
  <2> QED BY <1>a, <2>1, <2>2, <2>7, <2>8 DEF MayPoll
<1>5. CASE PollCancelled BY <1>5, <1>a DEF PollCancelled
<1>6. CASE Poll
  <2>1. /\ pc = "poll" /\ polls < MaxPolls /\ Base("restoration") + 2 * Free <= limit
        /\ analysed["restoration"] < stop["restoration"]
        /\ Wave("restoration", 2 * Free, stop["restoration"] - analysed["restoration"])
        /\ pc' = "polled"
        /\ UNCHANGED <<envVars, requested, size, generations, polls, limit, termination,
                       recorded>>
    BY <1>6 DEF Poll, MayPoll, Fits
  <2>2. 2 * Free \in Nat /\ 2 * Free > 0 BY <1>c
  <2>3. stop["restoration"] - analysed["restoration"] \in Nat BY <1>b, <2>1
  <2>4. Whole("restoration", Len(log["restoration"])) BY <1>0, <1>a, <2>1 DEF LogInv
  <2>5. Polling BY <2>1 DEF Polling
  <2>6. ~(setting.gradient /\ n % 2 = 1)
    <3>1. ~(Base("restoration") >= limit) BY <1>b, <1>c, <2>1
    <3>2. ~(analysed["restoration"] >= stop["restoration"]) BY <1>b, <2>1
    <3> QED BY <1>0, <1>a, <1>d, <2>1, <3>1, <3>2 DEF PlaceInv
  <2>7. 2 * Free = RestorationDraws(n + 1)
    <3>1. setting.gradient => ~((n + 1) % 2 = 0) BY <2>6
    <3> QED BY <3>1 DEF RestorationDraws
  <2>8. Steady BY <1>0, <2>1, StillSteady DEF Steady, Places, envVars, FieldsInv
  <2> QED BY <1>g, <2>1, <2>2, <2>3, <2>4, <2>5, <2>7, <2>8
<1>7. CASE PollStops
  <2>1. /\ pc \in {"polled", "tried"} /\ pc' = "done" /\ termination' = termination
        /\ FoundValid \/ (pc = "polled" /\ Short("restoration"))
        /\ UNCHANGED <<run, stop, sample, log, analysed, recorded>>
    BY <1>7, <1>a DEF PollStops, envVars, countVars
  <2>2. analysed["restoration"] = stop["restoration"]
    <3>1. CASE FoundValid
      <4>1. ValidUpTo("kernel", Base("kernel")) \/ ValidUpTo("restoration", Base("restoration"))
        BY <3>1, FoundAnywhere
      <4> QED BY <1>b, <1>f, <4>1
    <3>2. CASE pc = "polled" /\ Short("restoration")
      <4>1. log["restoration"] # <<>> BY <1>0, <3>2 DEF LogInv
      <4> QED BY <1>0, <3>2, <4>1, FollowFacts
    <3> QED BY <2>1, <3>1, <3>2
  <2> QED BY <1>0, <1>a, <1>e, <2>1, <2>2, SampleStays, FollowReturns
<1>8. CASE Try
  <2>1. /\ pc = "polled" /\ ~Short("restoration") /\ MayTry
        /\ Wave("restoration", 1, 1)
        /\ polls' = polls + 1 /\ pc' = "tried"
        /\ UNCHANGED <<envVars, requested, size, generations, limit, termination, recorded>>
    BY <1>8 DEF Try
  <2>2. setting.gradient /\ analysed["restoration"] < stop["restoration"]
    BY <2>1 DEF MayTry
  <2>3. log["restoration"] # <<>> BY <1>0, <2>1 DEF LogInv
  <2>4. Whole("restoration", Len(log["restoration"])) BY <1>0, <2>1, <2>3, NotShort
  <2>5. Polling BY <2>1 DEF Polling
  <2>6. polls' \in 0..MaxPolls BY <1>0, <1>c, <2>1 DEF FieldsInv
  <2>7. 1 = RestorationDraws(n + 1)
    <3>1. n % 2 = 1 BY <1>0, <1>d, <2>1, <2>2 DEF PlaceInv
    <3>2. (n + 1) % 2 = 0 BY <3>1
    <3> QED BY <2>2, <3>2 DEF RestorationDraws
  <2>8. Steady BY <1>0, <2>1, <2>6, StillSteady DEF Steady, Places, envVars
  <2>9. 1 \in Nat /\ 1 > 0 OBVIOUS
  <2> QED BY <1>g, <2>1, <2>2, <2>4, <2>5, <2>7, <2>8, <2>9
<1>9. CASE PollDone
  <2>1. /\ pc' = "poll"
        /\ UNCHANGED <<run, stop, sample, log, analysed, recorded, termination>>
    BY <1>9 DEF PollDone, envVars, countVars
  <2> QED BY <1>0, <1>a, <1>e, <2>1, SampleStays, FollowReturns
<1> QED BY <1>1, <1>2, <1>3, <1>4, <1>5, <1>6, <1>7, <1>8, <1>9 DEF Restoration

(* What the original run reports is what its replay is asked to repeat.    *)
LEMMA ReplayRecords == StageInv /\ RunInv /\ Replay => Grows /\ RecordInv' /\ FollowInv'
<1> SUFFICES ASSUME StageInv, RunInv, Replay PROVE Grows /\ RecordInv' /\ FollowInv' OBVIOUS
<1>0. FieldsInv /\ CountInv /\ PlayedInv /\ PlaceInv /\ "kernel" \in Phases
      /\ "restoration" \in Phases
  BY DEF StageInv, RunInv, Phases
<1>1. /\ pc = "done" /\ Total > 0 /\ run' = "replay" /\ pc' = "enter" /\ requested' = FALSE
      /\ recorded' = [analysed |-> analysed, generations |-> generations, log |-> log,
                      valid |-> FoundValid, termination |-> termination]
      /\ stop' = ReplayStop(Total, analysed["restoration"])
      /\ log' = [p \in Phases |-> <<>>] /\ termination' = "evaluation_budget"
      /\ UNCHANGED <<setting, sample>>
  BY DEF Replay
<1>2. PICK old \in [Phases -> Seq(Batch)] : old = log BY <1>0 DEF FieldsInv
<1>3. PICK valid \in BOOLEAN : valid = FoundValid BY DEF FoundValid
<1>4. PICK counts \in [Phases -> Nat] : counts = analysed BY <1>0 DEF FieldsInv
<1>5. /\ recorded'.analysed = counts /\ recorded'.log = old /\ recorded'.valid = valid
      /\ recorded'.generations = generations /\ recorded'.termination = termination
  BY <1>1, <1>2, <1>3, <1>4
<1>6. Grows BY <1>0, <1>1, SampleStays
<1>7. Logs(recorded.log)'
  <2>1. Logs(old)' BY <1>0, <1>1, <1>2, <1>6, LogsStay DEF PlayedInv
  <2> QED BY <1>5, <2>1
<1>8. /\ counts["kernel"] \in Nat /\ counts["restoration"] \in Nat
      /\ Total = counts["kernel"] + counts["restoration"] /\ Total <= Budget
      /\ Budget \in Nat
  BY <1>0, <1>4, Limits DEF CountInv, Total, FieldsInv
<1>9. stop' = counts
  <2>1. Minus(Least(Most(Total, 1), Budget), counts["restoration"]) = counts["kernel"]
    BY <1>1, <1>8 DEF Minus, Least, Most
  <2>2. stop' = [kernel |-> counts["kernel"], restoration |-> counts["restoration"]]
    BY <1>1, <1>4, <2>1 DEF ReplayStop
  <2>3. DOMAIN stop' = Phases BY <2>2 DEF Phases
  <2>4. stop' = [p \in Phases |-> stop'[p]] BY <2>2, <2>3
  <2>5. \A p \in Phases : stop'[p] = counts[p] BY <2>2 DEF Phases
  <2>6. counts = [p \in Phases |-> counts[p]] OBVIOUS
  <2> QED BY <2>4, <2>5, <2>6
<1>10. stop'["kernel"] > 0
  <2>1. CASE log["restoration"] = <<>>
    <3>1. Len(log["restoration"]) = 0 BY <2>1
    <3>2. Base("restoration") = 0 BY <1>0, <3>1 DEF StageInv, BatchInv, End
    <3>3. analysed["restoration"] = 0
      <4>1. analysed["restoration"] \in Nat /\ rejects["restoration"] \in Nat
        BY <1>0, Counters
      <4> QED BY <3>2, <4>1 DEF Base
    <3> QED BY <1>1, <1>4, <1>8, <1>9, <3>3
  <2>2. CASE log["restoration"] # <<>>
    <3>1. RestorationLog(log["restoration"], Base("kernel"))
      <4>1. Base("kernel") = EndOf(log["kernel"], Len(log["kernel"]))
        BY <1>0 DEF StageInv, BatchInv, End, EndOf
      <4> QED BY <1>0, <4>1 DEF PlayedInv, Logs
    <3>2. Analysed("kernel", Base("kernel")) > 0 BY <2>2, <3>1 DEF RestorationLog
    <3> QED BY <1>0, <1>4, <1>9, <3>2 DEF PlayedInv
  <2> QED BY <2>1, <2>2
<1>11. ASSUME NEW p \in Phases
       PROVE  /\ stop'[p] = Analysed(p, Recorded(p))'
              /\ ValidUpTo(p, Recorded(p))' <=> ValidUpTo(p, Base(p))
  <2>1. PICK b : b = Base(p) OBVIOUS
  <2>2. Recorded(p)' = b
    <3>1. Base(p) = EndOf(old[p], Len(old[p])) BY <1>2 DEF StageInv, BatchInv, End, EndOf
    <3>2. Recorded(p)' = EndOf(old[p], Len(old[p])) BY <1>5 DEF Recorded, EndOf
    <3> QED BY <2>1, <3>1, <3>2
  <2>3. Analysed(p, Recorded(p))' = Analysed(p, b) BY <1>1, <2>2 DEF Analysed
  <2>4. ValidUpTo(p, Recorded(p))' <=> ValidUpTo(p, b) BY <1>1, <2>2 DEF ValidUpTo
  <2>5. stop'[p] = Analysed(p, b) BY <1>0, <1>4, <1>9, <2>1 DEF PlayedInv
  <2> QED BY <2>1, <2>3, <2>4, <2>5
<1>12. recorded'.valid <=> \E p \in Phases : ValidUpTo(p, Recorded(p))'
  <2>1. valid <=> \E p \in Phases : ValidUpTo(p, Base(p))
    BY <1>3, FoundAnywhere DEF Phases
  <2> QED BY <1>5, <1>11, <2>1
<1>13. recorded'.termination # "cancelled" =>
         recorded'.generations = Minus(Len(recorded'.log["kernel"]), 1)
  <2>1. Len(old["kernel"]) = Batches("kernel") BY <1>2 DEF Batches
  <2>2. termination # "cancelled" => generations = Minus(Batches("kernel"), 1)
    BY <1>0, <1>1 DEF PlaceInv
  <2> QED BY <1>5, <2>1, <2>2
<1>14. recorded'.log \in [Phases -> Seq(Batch)] /\ recorded'.valid \in BOOLEAN BY <1>2, <1>3, <1>5
<1>15. recorded'.analysed = stop' /\ ~requested' BY <1>1, <1>5, <1>9
<1>16. (\A p \in Phases : stop[p] = Analysed(p, Recorded(p)))' BY <1>11
<1>17. (recorded.valid <=> \E p \in Phases : ValidUpTo(p, Recorded(p)))' BY <1>12
<1>18. (recorded.termination # "cancelled" =>
          recorded.generations = Minus(Len(recorded.log["kernel"]), 1))'
  BY <1>13 DEF Minus
<1>19. RecordInv' BY <1>7, <1>10, <1>14, <1>15, <1>16, <1>17, <1>18 DEF RecordInv
<1>20. FollowInv'
  <2>1. \A p \in Phases : log'[p] = <<>> /\ Len(log'[p]) = 0 BY <1>1
  <2>2. \A p \in Phases : Len(recorded'.log[p]) \in Nat BY <1>14
  <2> QED BY <1>1, <2>1, <2>2 DEF FollowInv
<1> QED BY <1>6, <1>19, <1>20

LEMMA ReplayStep == ReplayInv /\ [Next]_vars => ReplayInv'
<1> SUFFICES ASSUME ReplayInv, [Next]_vars PROVE ReplayInv' OBVIOUS
<1>0. StageInv /\ RunInv /\ RecordInv /\ FollowInv /\ FieldsInv BY DEF ReplayInv, StageInv
<1>1. StageInv' /\ RunInv' BY <1>0, StageStep, RunStep
<1>2. CASE run # "replay"
  <2>1. CASE Replay BY <1>0, <1>1, <2>1, ReplayRecords DEF ReplayInv
  <2>2. CASE ~Replay
    <3>1. run' = run
      BY <2>2 DEF Next, Request, Kernel, InitialCancelled, InitialPopulation, InitialEnds,
             InitialDone, OperatorsStop, CountReached, CapReached, LimitReached, TimeReached,
             GenerationCancelled, Generation, BatchCancelled, GenerationCut, GenerationDone,
             KernelEnds, Restoration, NoRestoration, RestorationCancelled, StartRestoration,
             PollsEnd, PollCancelled, Poll, PollStops, Try, PollDone, Ends, Unreplayable,
             vars, envVars
    <3>2. RecordInv' /\ FollowInv' BY <1>2, <3>1 DEF RecordInv, FollowInv
    <3> QED BY <1>1, <3>2 DEF ReplayInv
  <2> QED BY <2>1, <2>2
<1>3. CASE run = "replay"
  <2>1. run # "original" BY <1>3
  <2>2. Kernel \/ Restoration \/ UNCHANGED vars
    BY <2>1 DEF Next, Request, Unreplayable, Replay
  <2>3. Grows /\ FollowInv' /\ stop' = stop
    <3>1. CASE Kernel
      <4>1. stop' = stop
        BY <3>1 DEF Kernel, InitialCancelled, InitialPopulation, InitialEnds, InitialDone,
               OperatorsStop, CountReached, CapReached, LimitReached, TimeReached,
               GenerationCancelled, Generation, BatchCancelled, GenerationCut,
               GenerationDone, KernelEnds, envVars
      <4> QED BY <1>0, <1>3, <3>1, <4>1, KernelFollows
    <3>2. CASE Restoration BY <1>0, <1>3, <3>2, RestorationFollows
    <3>3. CASE UNCHANGED vars
      <4>1. UNCHANGED <<run, stop, sample, log, analysed, recorded, termination, pc>>
        BY <3>3 DEF vars, envVars, countVars
      <4> QED BY <1>0, <4>1, SampleStays, FollowStays
    <3> QED BY <2>2, <3>1, <3>2, <3>3
  <2>4. UNCHANGED <<setting, run, requested, recorded>>
    BY <2>2 DEF Kernel, InitialCancelled, InitialPopulation, InitialEnds,
           InitialDone, OperatorsStop, CountReached, CapReached, LimitReached, TimeReached,
           GenerationCancelled, Generation, BatchCancelled, GenerationCut, GenerationDone,
           KernelEnds, Restoration, NoRestoration, RestorationCancelled, StartRestoration,
           PollsEnd, PollCancelled, Poll, PollStops, Try, PollDone, Ends, vars, envVars
  <2>5. RecordInv' BY <1>0, <2>3, <2>4, RecordStays
  <2> QED BY <1>1, <2>3, <2>5 DEF ReplayInv
<1> QED BY <1>2, <1>3

LEMMA ReplayInvariant == Spec => []ReplayInv
<1>1. Init => ReplayInv
  <2>1. Init => run # "replay" BY DEF Init
  <2>2. Init => RecordInv /\ FollowInv BY <2>1 DEF RecordInv, FollowInv
  <2> QED BY <2>2, InitStage, InitRuns DEF ReplayInv
<1>2. ReplayInv /\ [Next]_vars => ReplayInv' BY ReplayStep
<1> QED BY <1>1, <1>2, PTL DEF Spec

LEMMA ReplayRepeats == ReplayInv => ReplayIsTheRun
<1> SUFFICES ASSUME ReplayInv, run = "replay", pc = "done", termination # "cancelled",
                    recorded.termination # "cancelled"
             PROVE  /\ analysed = recorded.analysed
                    /\ FoundValid = recorded.valid
                    /\ generations <= recorded.generations
                    /\ \A p \in Phases :
                         /\ IsPrefix(log[p], recorded.log[p])
                         /\ \A i \in (Len(log[p]) + 1)..Len(recorded.log[p]) :
                              recorded.log[p][i].analysed = 0
  BY DEF ReplayIsTheRun
<1>0. /\ StageInv /\ RunInv /\ RecordInv /\ FollowInv /\ FieldsInv /\ PlaceInv
      /\ "kernel" \in Phases /\ "restoration" \in Phases
  BY DEF ReplayInv, StageInv, RunInv, Phases
<1>1. \A p \in Phases : analysed[p] = stop[p] BY <1>0 DEF FollowInv, Phases
<1>2. analysed = recorded.analysed
  <2>1. analysed \in [Phases -> Nat] /\ stop \in [Phases -> 0..Budget] BY <1>0 DEF FieldsInv
  <2>2. analysed = stop BY <1>1, <2>1
  <2> QED BY <1>0, <2>2 DEF RecordInv
<1>3. ASSUME NEW p \in Phases, NEW R, R = recorded.log[p], NEW n, n = Batches(p)
      PROVE  /\ n \in Nat /\ Len(R) \in Nat /\ n <= Len(R)
             /\ \A i \in (n + 1)..Len(R) : R[i].analysed = 0
             /\ ValidUpTo(p, Recorded(p)) <=> ValidUpTo(p, Base(p))
             /\ IsPrefix(log[p], R)
  <2>1. /\ R \in Seq(Batch) /\ Len(R) \in Nat
        /\ \A i \in 1..Len(R) : R[i].analysed \in Nat
        /\ \A i \in 0..Len(R) : /\ EndOf(R, i) \in Nat
                                /\ Analysed(p, EndOf(R, i)) \in Nat
        /\ \A i \in 1..Len(R) : Analysed(p, EndOf(R, i)) =
                                  Analysed(p, EndOf(R, i - 1)) + R[i].analysed
        /\ \A i, j \in 0..Len(R) : i <= j =>
             Analysed(p, EndOf(R, i)) <= Analysed(p, EndOf(R, j))
        /\ Recorded(p) = EndOf(R, Len(R))
        /\ stop[p] = Analysed(p, EndOf(R, Len(R)))
    BY <1>0, <1>3, RecordFacts
  <2>2. /\ n \in Nat /\ n <= Len(R) /\ Base(p) = EndOf(R, n)
        /\ Base(p) <= Recorded(p) /\ Recorded(p) \in Nat
    BY <1>0, <1>3, FollowFacts
  <2>3. /\ analysed[p] = Analysed(p, Base(p)) /\ Base(p) \in Nat
        /\ Len(log[p]) = n /\ log[p] \in Seq(Batch)
    BY <1>0, <1>3, KernelCounts
  <2>4. Analysed(p, EndOf(R, n)) = Analysed(p, EndOf(R, Len(R)))
    BY <1>1, <2>1, <2>2, <2>3
  <2>5. ASSUME NEW i \in (n + 1)..Len(R) PROVE R[i].analysed = 0
    <3>1. /\ i \in 1..Len(R) /\ i - 1 \in 0..Len(R) /\ i \in 0..Len(R) /\ n \in 0..Len(R)
          /\ Len(R) \in 0..Len(R) /\ n <= i - 1 /\ i <= Len(R)
      BY <2>1, <2>2
    <3>2. PICK x \in Nat, y \in Nat, z \in Nat, w \in Nat :
            /\ x = Analysed(p, EndOf(R, n)) /\ y = Analysed(p, EndOf(R, i - 1))
            /\ z = Analysed(p, EndOf(R, i)) /\ w = Analysed(p, EndOf(R, Len(R)))
      BY <2>1, <3>1
    <3>3. x <= y /\ z <= w /\ x = w BY <2>1, <2>4, <3>1, <3>2
    <3>4. z = y + R[i].analysed /\ R[i].analysed \in Nat BY <2>1, <3>1, <3>2
    <3> QED BY <3>2, <3>3, <3>4
  <2>6. ValidUpTo(p, Recorded(p)) <=> ValidUpTo(p, Base(p))
    <3>1. PICK b \in Nat, c \in Nat : b = Base(p) /\ c = Recorded(p) /\ b <= c BY <2>2, <2>3
    <3>2. Passed(sample[p], 0, b) = Passed(sample[p], 0, c)
      BY <2>1, <2>2, <2>4, <3>1 DEF Analysed
    <3>3. \A i \in (0 + b + 1)..(0 + c) : sample[p][i] = "rejected"
      <4>1. 0 \in Nat OBVIOUS
      <4> QED BY <3>1, <3>2, <4>1, PassedGrows
    <3>4. \A i \in 1..c : i \in 1..b \/ i \in (0 + b + 1)..(0 + c) BY <3>1
    <3>5. "rejected" # "valid" OBVIOUS
    <3>6. 1..b \subseteq 1..c BY <3>1
    <3> QED BY <3>1, <3>3, <3>4, <3>5, <3>6 DEF ValidUpTo
  <2>7. IsPrefix(log[p], R)
    <3>1. \A i \in 1..n : log[p][i] = R[i] BY <1>0, <1>3, <2>3 DEF FollowInv
    <3>2. SubSeq(log[p], 1, n) = SubSeq(R, 1, n)
      <4>1. /\ SubSeq(log[p], 1, n) = [i \in 1..n |-> log[p][i]]
            /\ SubSeq(R, 1, n) = [i \in 1..n |-> R[i]]
        BY <2>1, <2>2, <2>3
      <4> QED BY <3>1, <4>1
    <3> QED BY <2>2, <2>3, <3>2 DEF IsPrefix
  <2> QED BY <2>1, <2>2, <2>5, <2>6, <2>7
<1>4. FoundValid = recorded.valid
  <2>1. recorded.valid <=> \E p \in Phases : ValidUpTo(p, Recorded(p)) BY <1>0 DEF RecordInv
  <2>2. FoundValid <=> \E p \in Phases : ValidUpTo(p, Base(p)) BY FoundAnywhere DEF Phases
  <2>3. \A p \in Phases : ValidUpTo(p, Recorded(p)) <=> ValidUpTo(p, Base(p)) BY <1>3
  <2>4. recorded.valid \in BOOLEAN /\ FoundValid \in BOOLEAN
    <3>1. FoundValid \in BOOLEAN BY DEF FoundValid
    <3> QED BY <1>0, <3>1 DEF RecordInv
  <2>5. recorded.valid <=> FoundValid BY <2>1, <2>2, <2>3
  <2> QED BY <2>4, <2>5
<1>5. generations <= recorded.generations
  <2>1. generations = Minus(Batches("kernel"), 1) BY <1>0 DEF PlaceInv
  <2>2. recorded.generations = Minus(Len(recorded.log["kernel"]), 1) BY <1>0 DEF RecordInv
  <2>3. /\ Batches("kernel") \in Nat /\ Len(recorded.log["kernel"]) \in Nat
        /\ Batches("kernel") <= Len(recorded.log["kernel"])
    BY <1>0, <1>3
  <2> QED BY <2>1, <2>2, <2>3 DEF Minus
<1>6. ASSUME NEW p \in Phases
      PROVE  /\ IsPrefix(log[p], recorded.log[p])
             /\ \A i \in (Len(log[p]) + 1)..Len(recorded.log[p]) :
                  recorded.log[p][i].analysed = 0
  <2>1. PICK R : R = recorded.log[p] OBVIOUS
  <2>2. PICK n : n = Batches(p) OBVIOUS
  <2>3. /\ \A i \in (n + 1)..Len(R) : R[i].analysed = 0
        /\ IsPrefix(log[p], R)
    BY <1>3, <2>1, <2>2
  <2>4. Len(log[p]) = n BY <2>2 DEF Batches
  <2> QED BY <2>1, <2>3, <2>4
<1> QED BY <1>2, <1>4, <1>5, <1>6

-----------------------------------------------------------------------------
(* The theorems. *)

(* The state is one of the stage's, the schedule keeps the population      *)
(* between its floor and where it started, and the batches of a phase      *)
(* follow one another up to its counters, for every value of the limits.   *)
THEOREM TypeTheorem == Spec => []TypeOK
<1>1. StageInv => TypeOK
  <2> SUFFICES ASSUME FieldsInv, BatchInv PROVE TypeOK BY DEF StageInv
  <2> QED BY DEF FieldsInv, BatchInv, TypeOK
<1> QED BY <1>1, StageInvariant, PTL

(* The two phases share one budget and one rejection cap, the kernel keeps *)
(* the reserve for the restoration until something feasible is found, and  *)
(* no phase goes on behind a batch that was cut or empty: for every value  *)
(* of the limits and whatever the clock, a request or the pre-gate cuts.   *)
THEOREM LimitsTheorem == Spec => []LimitsHold
<1>1. StageInv => LimitsHold
  <2> SUFFICES ASSUME FieldsInv, BatchInv, CountInv, LogInv PROVE LimitsHold BY DEF StageInv
  <2>1. rejects["restoration"] <= Minus(MaxRejects, rejects["kernel"])
    <3>1. /\ analysed["restoration"] \in Nat /\ rejects["restoration"] \in Nat /\ limit \in Nat
          /\ rejects["kernel"] \in Nat
      BY Counters DEF FieldsInv
    <3>2. Minus(MaxRejects, rejects["kernel"]) \in Nat
      BY <3>1, RefinementAssumption DEF Minus
    <3>3. /\ analysed["restoration"] + rejects["restoration"] <= limit
          /\ limit <= Minus(MaxRejects, rejects["kernel"])
      BY DEF CountInv, Base
    <3> QED BY <3>1, <3>2, <3>3
  <2>2. ASSUME NEW p \in Phases, NEW i \in 1..(Len(log[p]) - 1)
        PROVE  log[p][i].scored = log[p][i].drawn /\ log[p][i].drawn > 0
    <3>1. i \in 1..Len(log[p]) BY Counters
    <3> QED BY <3>1 DEF BatchInv, LogInv, Whole
  <2> QED BY <2>1, <2>2 DEF CountInv, LimitsHold
<1> QED BY <1>1, StageInvariant, PTL

(* A replay with the counts a run recorded analyses what the run analysed, *)
(* batch by batch, and finds the same winner, for every value of the       *)
(* limits and wherever the clock cut the run: the replay has no clock, and *)
(* the counts alone stop it where the run stopped.                         *)
THEOREM ReplayTheorem == Spec => []ReplayIsTheRun
<1>1. Spec => []ReplayInv BY ReplayInvariant
<1>2. ReplayInv => ReplayIsTheRun BY ReplayRepeats
<1> QED BY <1>1, <1>2, PTL

-----------------------------------------------------------------------------
(* The stage and its replay come to an end.  A generation that scored all  *)
(* of its trials scored one at least, and what the kernel may score is     *)
(* bounded; a generation cut short ends it; and every wave of the          *)
(* restoration counts as a poll unless it ends the stage.                  *)

(* What the kernel scores at most, and may still score.                    *)
KernelBound == Budget + MaxRejects + Initial
KernelLeft  == KernelBound - Base("kernel")

Over == pc \in {"done", "unreplayable"}

StepsAt ==
  CASE pc \in {"enter", "top"}          -> 6
    [] pc \in {"initial", "generation"} -> IF Short("kernel") THEN 5 ELSE 7
    [] pc \in {"restore", "tried"}      -> 4
    [] pc = "poll"                      -> 3
    [] pc = "polled"                    -> 2
    [] OTHER                            -> 0

StepsInRun == IF Over THEN 0 ELSE 3 * KernelLeft + 4 * (MaxPolls - polls) + StepsAt

(* A run from its start; the original has one step more, to its replay.    *)
StepsInAll == 3 * KernelBound + 4 * MaxPolls + 6

StepsLeft ==
  IF run = "original" /\ pc # "unreplayable" THEN StepsInRun + StepsInAll + 1 ELSE StepsInRun

EveryStepCounts ==
  [][IF Request THEN StepsLeft' = StepsLeft ELSE StepsLeft' < StepsLeft]_vars

LEMMA KernelLeftIs ==
  ASSUME StageInv
  PROVE  /\ KernelBound \in Nat /\ KernelLeft \in Nat /\ MaxPolls - polls \in Nat
         /\ polls \in Nat /\ MaxPolls \in Nat /\ Base("kernel") \in Nat
         /\ StepsAt \in 0..7
<1>0. FieldsInv /\ CountInv BY DEF StageInv
<1>1. /\ Budget \in Nat /\ Initial \in Nat /\ MaxRejects \in Nat /\ MaxPolls \in Nat
  BY <1>0, Limits, RefinementAssumption DEF FieldsInv
<1>2. /\ analysed["kernel"] \in Nat /\ rejects["kernel"] \in Nat
      /\ analysed["kernel"] <= Budget /\ Base("kernel") \in Nat
  <2>1. stop["kernel"] \in Nat /\ stop["kernel"] <= Budget BY <1>0, Counters
  <2> QED BY <1>0, <1>1, <2>1, Counters DEF CountInv
<1>3. PICK all \in Nat : all = KernelBound
  <2>1. Budget + MaxRejects + Initial \in Nat BY <1>1
  <2> QED BY <2>1 DEF KernelBound
<1>4. PICK base \in Nat : base = Base("kernel") BY <1>2
<1>5. base <= all
  <2>1. base = analysed["kernel"] + rejects["kernel"] BY <1>4 DEF Base
  <2>2. all = Budget + MaxRejects + Initial BY <1>3 DEF KernelBound
  <2>3. rejects["kernel"] < MaxRejects + Initial BY <1>0 DEF CountInv
  <2> QED BY <1>1, <1>2, <2>1, <2>2, <2>3
<1>6. KernelLeft \in Nat
  <2>1. KernelLeft = all - base BY <1>3, <1>4 DEF KernelLeft
  <2> QED BY <1>3, <1>4, <1>5, <2>1
<1>7. polls \in Nat /\ MaxPolls - polls \in Nat
  <2>1. polls \in 0..MaxPolls BY <1>0 DEF FieldsInv
  <2> QED BY <1>1, <2>1
<1>8. StepsAt \in 0..7 BY DEF StepsAt
<1> QED BY <1>1, <1>2, <1>3, <1>6, <1>7, <1>8

LEMMA StepsInRunIs ==
  ASSUME StageInv
  PROVE  /\ StepsInRun \in Nat /\ StepsInAll \in Nat /\ StepsLeft \in Nat
         /\ ~Over => StepsInRun > 0
<1>1. PICK left \in Nat, p \in Nat, at \in Nat :
        left = KernelLeft /\ p = MaxPolls - polls /\ at = StepsAt
  <2>1. StepsAt \in Nat BY KernelLeftIs
  <2> QED BY <2>1, KernelLeftIs
<1>2. StepsInRun = IF Over THEN 0 ELSE 3 * left + 4 * p + at BY <1>1 DEF StepsInRun
<1>3. StepsInRun \in Nat BY <1>1, <1>2
<1>4. PICK all \in Nat, most \in Nat : all = KernelBound /\ most = MaxPolls BY KernelLeftIs
<1>5. StepsInAll = 3 * all + 4 * most + 6 BY <1>4 DEF StepsInAll
<1>6. StepsInAll \in Nat BY <1>4, <1>5
<1>7. StepsLeft \in Nat BY <1>3, <1>6 DEF StepsLeft
<1>8. ASSUME ~Over PROVE StepsInRun > 0
  <2>1. pc \in Places BY DEF StageInv, FieldsInv, Places
  <2>2. StepsAt \in {2, 3, 4, 5, 6, 7} BY <1>8, <2>1 DEF StepsAt, Over, Places
  <2>3. at > 0 BY <1>1, <2>2
  <2> QED BY <1>1, <1>2, <1>8, <2>3
<1> QED BY <1>3, <1>6, <1>7, <1>8

(* In a run that goes on, what is scored by the kernel counts three steps  *)
(* and a poll four.                                                        *)
LEMMA GoesDown ==
  ASSUME StageInv, StageInv', UNCHANGED <<setting, run>>, ~Over, ~Over',
         NEW scored \in Nat, Base("kernel")' = Base("kernel") + scored,
         NEW more \in Nat, polls' = polls + more,
         StepsAt' < StepsAt + 3 * scored + 4 * more
  PROVE  StepsLeft' < StepsLeft
<1>1. PICK all \in Nat, base \in Nat, p \in Nat, most \in Nat, at \in Nat, then \in Nat :
        /\ all = KernelBound /\ base = Base("kernel") /\ p = polls /\ most = MaxPolls
        /\ at = StepsAt /\ then = StepsAt'
  <2>1. StepsAt \in Nat /\ StepsAt' \in Nat BY KernelLeftIs DEF StepsAt
  <2> QED BY <2>1, KernelLeftIs
<1>2. KernelBound' = all
  <2>1. Budget' = Budget /\ Initial' = Initial BY Limits DEF StageInv, FieldsInv
  <2> QED BY <1>1, <2>1 DEF KernelBound
<1>3. KernelLeft = all - base /\ KernelLeft' = all - (base + scored)
  BY <1>1, <1>2 DEF KernelLeft
<1>4. MaxPolls - polls = most - p /\ MaxPolls - polls' = most - (p + more) BY <1>1
<1>5. /\ StepsInRun = 3 * (all - base) + 4 * (most - p) + at
      /\ StepsInRun' = 3 * (all - (base + scored)) + 4 * (most - (p + more)) + then
  BY <1>1, <1>3, <1>4 DEF StepsInRun
<1>6. then < at + 3 * scored + 4 * more BY <1>1
<1>7. /\ 3 * (all - (base + scored)) = 3 * (all - base) - 3 * scored
      /\ 4 * (most - (p + more)) = 4 * (most - p) - 4 * more
  BY <1>1
<1>8. PICK x \in Int, y \in Int : x = 3 * (all - base) /\ y = 4 * (most - p) BY <1>1
<1>9. StepsInRun = x + y + at /\ StepsInRun' = (x - 3 * scored) + (y - 4 * more) + then
  BY <1>5, <1>7, <1>8
<1>10. /\ StepsInRun' < StepsInRun /\ StepsInRun \in Int /\ StepsInRun' \in Int
  BY <1>1, <1>6, <1>8, <1>9
<1>11. StepsInAll' = StepsInAll BY <1>1, <1>2 DEF StepsInAll
<1>12. PICK z \in Nat : z = StepsInAll BY StepsInRunIs
<1>13. PICK u \in Int, v \in Int : u = StepsInRun /\ v = StepsInRun' /\ v < u BY <1>10
<1>14. CASE run = "original"
  <2>1. StepsLeft = u + z + 1 /\ StepsLeft' = v + z + 1
    BY <1>11, <1>12, <1>13, <1>14 DEF StepsLeft, Over
  <2>2. v < u /\ z \in Int BY <1>13
  <2>3. v + z + 1 < u + z + 1 BY <2>2
  <2> QED BY <2>1, <2>3
<1>15. CASE run # "original" BY <1>10, <1>15 DEF StepsLeft
<1> QED BY <1>14, <1>15

LEMMA GoesOut ==
  ASSUME StageInv, StageInv', UNCHANGED <<setting, run>>, ~Over, pc' = "done"
  PROVE  StepsLeft' < StepsLeft
<1>1. StepsInRun' = 0 /\ StepsInRun \in Nat /\ StepsInRun > 0 /\ StepsInAll \in Nat
  BY StepsInRunIs DEF StepsInRun, Over
<1>2. StepsInAll' = StepsInAll
  <2>1. Budget' = Budget /\ Initial' = Initial BY Limits DEF StageInv, FieldsInv
  <2> QED BY <2>1 DEF StepsInAll, KernelBound
<1> QED BY <1>1, <1>2 DEF StepsLeft, Over

(* A batch of the kernel scores something, or is short.                    *)
LEMMA KernelScores ==
  ASSUME StageInv, NEW count \in Nat, count > 0, NEW remaining \in Nat,
         Wave("kernel", count, remaining)
  PROVE  \E scored \in Nat : /\ Base("kernel")' = Base("kernel") + scored
                             /\ scored = 0 => Short("kernel")'
<1>0. FieldsInv /\ BatchInv BY DEF StageInv
<1>1. "kernel" \in Phases /\ log["kernel"] \in Seq(Batch) /\ Base("kernel") \in Nat
      /\ analysed["kernel"] \in Nat /\ rejects["kernel"] \in Nat
  BY <1>0, Counters
<1>2. PICK scored \in 0..count : \E passed \in 0..scored :
        Left("kernel", count, remaining, scored, passed)
  BY <1>0, <1>1, WaveLeaves
<1>3. PICK passed \in 0..scored : Left("kernel", count, remaining, scored, passed) BY <1>2
<1>4. scored \in Nat /\ passed \in Nat /\ passed <= scored BY <1>2, <1>3
<1> DEFINE e == [from |-> Base("kernel"), drawn |-> count, scored |-> scored,
                 analysed |-> passed]
<1>5. /\ analysed'["kernel"] = analysed["kernel"] + passed
      /\ rejects'["kernel"] = rejects["kernel"] + (scored - passed)
      /\ log'["kernel"] = Append(log["kernel"], e)
  <2>1. /\ analysed \in [Phases -> Nat] /\ rejects \in [Phases -> Nat]
        /\ log \in [Phases -> Seq(Batch)]
    BY <1>0 DEF FieldsInv
  <2>2. /\ analysed' = [analysed EXCEPT !["kernel"] = @ + passed]
        /\ rejects' = [rejects EXCEPT !["kernel"] = @ + (scored - passed)]
        /\ log' = [log EXCEPT !["kernel"] = Append(@, e)]
    BY <1>3 DEF Left
  <2> HIDE DEF e
  <2> QED BY <1>1, <2>1, <2>2
<1>6. Base("kernel")' = Base("kernel") + scored BY <1>1, <1>4, <1>5 DEF Base
<1>7. Last(log'["kernel"]) = e
  <2>1. PICK n \in Nat : n = Len(log["kernel"]) BY <1>1
  <2> HIDE DEF e
  <2>2. Len(log'["kernel"]) = n + 1 /\ log'["kernel"][n + 1] = e BY <1>1, <1>5, <2>1
  <2> QED BY <2>2 DEF Last
<1>8. scored = 0 => Short("kernel")'
  <2>1. Short("kernel")' <=> e.scored < e.drawn BY <1>7 DEF Short, LastBatch
  <2> QED BY <2>1
<1> QED BY <1>4, <1>6, <1>8

(* A batch of the restoration leaves the kernel's counters alone.          *)
LEMMA KernelStays ==
  ASSUME StageInv, NEW count \in Nat, NEW remaining \in Nat,
         Wave("restoration", count, remaining)
  PROVE  Base("kernel")' = Base("kernel")
<1>0. FieldsInv /\ BatchInv BY DEF StageInv
<1>1. "restoration" \in Phases /\ "kernel" \in Phases BY DEF Phases
<1>2. PICK scored \in 0..count : \E passed \in 0..scored :
        Left("restoration", count, remaining, scored, passed)
  BY <1>0, <1>1, WaveLeaves
<1>3. PICK passed \in 0..scored : Left("restoration", count, remaining, scored, passed)
  BY <1>2
<1>4. analysed'["kernel"] = analysed["kernel"] /\ rejects'["kernel"] = rejects["kernel"]
  <2>1. analysed \in [Phases -> Nat] /\ rejects \in [Phases -> Nat]
    BY <1>0 DEF FieldsInv
  <2>2. /\ analysed' = [analysed EXCEPT !["restoration"] = @ + passed]
        /\ rejects' = [rejects EXCEPT !["restoration"] = @ + (scored - passed)]
    BY <1>3 DEF Left
  <2> QED BY <1>1, <2>1, <2>2
<1> QED BY <1>4 DEF Base

(* A step that scores nothing and polls nothing, to a place further on.    *)
LEMMA MovesOn ==
  ASSUME StageInv, StageInv', UNCHANGED <<envVars, polls, countVars>>, ~Over, ~Over',
         StepsAt' < StepsAt
  PROVE  StepsLeft' < StepsLeft
<1>1. Base("kernel")' = Base("kernel") BY DEF Base, countVars
<1>2. StepsAt \in Int /\ StepsAt' \in Int BY DEF StepsAt
<1>3. Base("kernel") \in Nat /\ polls \in Nat BY KernelLeftIs
<1>4. Base("kernel")' = Base("kernel") + 0 /\ polls' = polls + 0 BY <1>1, <1>3
<1>5. StepsAt' < StepsAt + 3 * 0 + 4 * 0 BY <1>2
<1>6. setting' = setting /\ run' = run BY DEF envVars
<1>7. 0 \in Nat OBVIOUS
<1> QED BY <1>4, <1>5, <1>6, <1>7, GoesDown

LEMMA KernelCountsDown == StageInv /\ StageInv' /\ Kernel => StepsLeft' < StepsLeft
<1> SUFFICES ASSUME StageInv, StageInv', Kernel PROVE StepsLeft' < StepsLeft OBVIOUS
<1>1. ASSUME pc \in {"enter", "initial", "top", "generation"}, pc' \in {"restore", "top"},
             UNCHANGED <<envVars, polls, countVars>>,
             pc' = "top" => pc \in {"initial", "generation"} /\ ~Short("kernel")
      PROVE  StepsLeft' < StepsLeft
  <2>1. StepsAt' < StepsAt
    <3>1. StepsAt \in {5, 6, 7} BY <1>1 DEF StepsAt
    <3>2. CASE pc' = "restore"
      <4>1. StepsAt' = 4 BY <3>2 DEF StepsAt
      <4> QED BY <3>1, <4>1
    <3>3. CASE pc' = "top"
      <4>1. StepsAt' = 6 /\ StepsAt = 7 BY <1>1, <3>3 DEF StepsAt
      <4> QED BY <4>1
    <3> QED BY <1>1, <3>2, <3>3
  <2>2. ~Over /\ ~Over' BY <1>1 DEF Over
  <2> QED BY <1>1, <2>1, <2>2, MovesOn
<1>2. ASSUME NEW why, KernelEnds(why), pc \in {"enter", "initial", "top", "generation"}
      PROVE  StepsLeft' < StepsLeft
  BY <1>1, <1>2 DEF KernelEnds
<1>3. ASSUME pc \in {"enter", "top"}, pc' \in {"initial", "generation"},
             NEW count \in Nat, count > 0, NEW remaining \in Nat,
             Wave("kernel", count, remaining), UNCHANGED <<envVars, polls>>
      PROVE  StepsLeft' < StepsLeft
  <2>1. PICK scored \in Nat : /\ Base("kernel")' = Base("kernel") + scored
                              /\ scored = 0 => Short("kernel")'
    BY <1>3, KernelScores
  <2>2. StepsAt = 6 /\ StepsAt' = IF Short("kernel")' THEN 5 ELSE 7 BY <1>3 DEF StepsAt
  <2>3. StepsAt' < StepsAt + 3 * scored + 4 * 0
    <3>1. CASE scored = 0
      <4>1. StepsAt' = 5 BY <2>1, <2>2, <3>1
      <4> QED BY <2>2, <3>1, <4>1
    <3>2. CASE scored # 0
      <4>1. StepsAt' \in {5, 7} BY <2>2
      <4>2. scored >= 1 BY <3>2
      <4> QED BY <2>1, <2>2, <4>1, <4>2
    <3> QED BY <3>1, <3>2
  <2>4. ~Over /\ ~Over' BY <1>3 DEF Over
  <2>5. polls' = polls + 0
    <3>1. polls \in Nat BY KernelLeftIs
    <3> QED BY <1>3, <3>1
  <2>6. setting' = setting /\ run' = run /\ 0 \in Nat BY <1>3 DEF envVars
  <2> QED BY <2>1, <2>3, <2>4, <2>5, <2>6, GoesDown
<1>4. CASE InitialCancelled BY <1>2, <1>4 DEF InitialCancelled
<1>5. CASE InitialPopulation
  <2>1. Initial \in Nat /\ Initial > 0 /\ stop["kernel"] \in Nat
    BY Limits, Counters DEF StageInv, FieldsInv
  <2> QED BY <1>3, <1>5, <2>1 DEF InitialPopulation
<1>6. CASE InitialEnds BY <1>2, <1>6 DEF InitialEnds
<1>7. CASE InitialDone BY <1>1, <1>7 DEF InitialDone
<1>8. CASE \/ OperatorsStop \/ CountReached \/ CapReached \/ LimitReached \/ TimeReached
           \/ GenerationCancelled
  BY <1>2, <1>8 DEF OperatorsStop, CountReached, CapReached, LimitReached, TimeReached,
                    GenerationCancelled, MayGenerate, InLoop
<1>9. CASE Generation
  <2>1. /\ pc = "top" /\ ~Reached /\ Count > 0 /\ pc' = "generation"
        /\ Wave("kernel", Count, stop["kernel"] - analysed["kernel"])
        /\ UNCHANGED <<envVars, polls>>
    BY <1>9 DEF Generation, MayGenerate, InLoop
  <2>2. stop["kernel"] - analysed["kernel"] \in Nat
    <3>1. stop["kernel"] \in Nat /\ analysed["kernel"] \in Nat BY Counters DEF StageInv
    <3> QED BY <2>1, <3>1 DEF Reached
  <2>3. Count \in Nat
    <3>1. /\ Budget \in Nat /\ Schedule \in Nat /\ Floor \in Nat /\ Initial \in Nat
          /\ analysed["kernel"] \in Nat
      BY Limits, Counters DEF StageInv, FieldsInv
    <3>2. EvaluationLimit \in Nat
      BY <3>1, RefinementAssumption DEF EvaluationLimit, Minus
    <3>3. size \in Nat BY <3>1 DEF StageInv, FieldsInv
    <3> QED BY <3>1, <3>2, <3>3 DEF Count, Least, Minus
  <2> QED BY <1>3, <2>1, <2>2, <2>3
<1>10. CASE BatchCancelled BY <1>2, <1>10 DEF BatchCancelled
<1>11. CASE GenerationCut BY <1>1, <1>11 DEF GenerationCut
<1>12. CASE GenerationDone
  <2>1. pc = "generation" /\ pc' \in {"restore", "top"} /\ ~Short("kernel")
        /\ UNCHANGED <<envVars, polls, countVars>>
    BY <1>12 DEF GenerationDone
  <2> QED BY <1>1, <2>1
<1> QED BY <1>4, <1>5, <1>6, <1>7, <1>8, <1>9, <1>10, <1>11, <1>12 DEF Kernel

LEMMA RestorationCountsDown ==
  StageInv /\ StageInv' /\ Restoration => StepsLeft' < StepsLeft
<1> SUFFICES ASSUME StageInv, StageInv', Restoration PROVE StepsLeft' < StepsLeft OBVIOUS
<1>a. polls \in Nat /\ Base("kernel") \in Nat BY KernelLeftIs
<1>1. ASSUME pc \in {"restore", "poll", "polled", "tried"}, pc' = "done", UNCHANGED envVars
      PROVE  StepsLeft' < StepsLeft
  <2>1. ~Over /\ setting' = setting /\ run' = run BY <1>1 DEF Over, envVars
  <2> QED BY <1>1, <2>1, GoesOut
<1>2. CASE NoRestoration \/ RestorationCancelled \/ PollsEnd \/ PollCancelled \/ PollStops
  <2>1. pc \in {"restore", "poll", "polled", "tried"} /\ pc' = "done" /\ UNCHANGED envVars
    BY <1>2 DEF NoRestoration, RestorationCancelled, PollsEnd, PollCancelled, PollStops,
                MayPoll, Ends
  <2> QED BY <1>1, <2>1
<1>3. CASE StartRestoration
  <2>1. /\ pc = "restore" /\ pc' = "poll" /\ UNCHANGED <<setting, run, polls, countVars>>
    BY <1>3 DEF StartRestoration
  <2>2. StepsAt = 4 /\ StepsAt' = 3 /\ ~Over /\ ~Over' BY <2>1 DEF StepsAt, Over
  <2>3. Base("kernel")' = Base("kernel") + 0 /\ polls' = polls + 0
    <3>1. Base("kernel")' = Base("kernel") BY <2>1 DEF Base, countVars
    <3> QED BY <1>a, <2>1, <3>1
  <2>4. StepsAt' < StepsAt + 3 * 0 + 4 * 0 /\ 0 \in Nat BY <2>2
  <2> QED BY <2>1, <2>2, <2>3, <2>4, GoesDown
<1>4. ASSUME Base("kernel")' = Base("kernel"), polls' = polls \/ polls' = polls + 1,
             ~Over, ~Over', UNCHANGED envVars,
             polls' = polls => StepsAt' < StepsAt,
             polls' # polls => StepsAt' < StepsAt + 4
      PROVE  StepsLeft' < StepsLeft
  <2>1. Base("kernel")' = Base("kernel") + 0 /\ 0 \in Nat /\ 1 \in Nat
    BY <1>a, <1>4
  <2>2. setting' = setting /\ run' = run BY <1>4 DEF envVars
  <2>3. StepsAt \in Int /\ StepsAt' \in Int BY DEF StepsAt
  <2>4. CASE polls' = polls
    <3>1. polls' = polls + 0 /\ StepsAt' < StepsAt + 3 * 0 + 4 * 0 BY <1>a, <1>4, <2>3, <2>4
    <3> QED BY <1>4, <2>1, <2>2, <3>1, GoesDown
  <2>5. CASE polls' # polls
    <3>1. polls' = polls + 1 /\ StepsAt' < StepsAt + 3 * 0 + 4 * 1 BY <1>4, <2>3, <2>5
    <3> QED BY <1>4, <2>1, <2>2, <3>1, GoesDown
  <2> QED BY <2>4, <2>5
<1>5. CASE Poll
  <2>1. /\ pc = "poll" /\ pc' = "polled" /\ UNCHANGED <<envVars, polls>>
        /\ analysed["restoration"] < stop["restoration"]
        /\ Wave("restoration", 2 * Free, stop["restoration"] - analysed["restoration"])
    BY <1>5 DEF Poll, MayPoll
  <2>2. /\ 2 * Free \in Nat /\ stop["restoration"] - analysed["restoration"] \in Nat
    <3>1. stop["restoration"] \in Nat /\ analysed["restoration"] \in Nat
      BY Counters DEF StageInv
    <3>2. Free \in Nat BY RefinementAssumption
    <3> QED BY <2>1, <3>1, <3>2
  <2>3. Base("kernel")' = Base("kernel") BY <2>1, <2>2, KernelStays
  <2>4. StepsAt = 3 /\ StepsAt' = 2 /\ ~Over /\ ~Over' BY <2>1 DEF StepsAt, Over
  <2> QED BY <1>4, <2>1, <2>3, <2>4
<1>6. CASE Try
  <2>1. /\ pc = "polled" /\ pc' = "tried" /\ polls' = polls + 1 /\ UNCHANGED envVars
        /\ Wave("restoration", 1, 1)
    BY <1>6 DEF Try
  <2>2. Base("kernel")' = Base("kernel") BY <2>1, KernelStays
  <2>3. StepsAt = 2 /\ StepsAt' = 4 /\ ~Over /\ ~Over' BY <2>1 DEF StepsAt, Over
  <2>4. polls' # polls BY <1>a, <2>1
  <2> QED BY <1>4, <2>1, <2>2, <2>3, <2>4
<1>7. CASE PollDone
  <2>1. /\ pc \in {"polled", "tried"} /\ pc' = "poll"
        /\ polls' = IF pc = "polled" THEN polls + 1 ELSE polls
        /\ UNCHANGED <<envVars, countVars>>
    BY <1>7 DEF PollDone
  <2>2. Base("kernel")' = Base("kernel") BY <2>1 DEF Base, countVars
  <2>3. /\ StepsAt = IF pc = "polled" THEN 2 ELSE 4
        /\ StepsAt' = 3 /\ ~Over /\ ~Over'
    BY <2>1 DEF StepsAt, Over
  <2>4. CASE pc = "polled"
    <3>1. polls' # polls BY <1>a, <2>1, <2>4
    <3> QED BY <1>4, <2>1, <2>2, <2>3, <2>4, <3>1
  <2>5. CASE pc # "polled" BY <1>4, <2>1, <2>2, <2>3, <2>5
  <2> QED BY <2>4, <2>5
<1> QED BY <1>2, <1>3, <1>5, <1>6, <1>7 DEF Restoration

LEMMA StepCounts ==
  ASSUME StageInv, StageInv', [Next]_vars
  PROVE  [IF Request THEN StepsLeft' = StepsLeft ELSE StepsLeft' < StepsLeft]_vars
<1>1. CASE Request
  <2>1. UNCHANGED <<setting, run, pc, polls, countVars>> BY <1>1 DEF Request, envVars
  <2>2. Budget' = Budget /\ Initial' = Initial BY <2>1, Limits DEF StageInv, FieldsInv
  <2>3. KernelBound' = KernelBound /\ KernelLeft' = KernelLeft
    BY <2>1, <2>2 DEF KernelBound, KernelLeft, Base, countVars
  <2>4. StepsAt' = StepsAt /\ Over' = Over
    BY <2>1 DEF StepsAt, Over, Short, LastBatch, countVars
  <2>5. StepsLeft' = StepsLeft
    BY <2>1, <2>3, <2>4 DEF StepsLeft, StepsInRun, StepsInAll
  <2> QED BY <1>1, <2>5
<1>2. ASSUME StepsLeft' < StepsLeft PROVE ~Request
  <2>1. SUFFICES ASSUME Request PROVE FALSE OBVIOUS
  <2>2. UNCHANGED <<setting, run, pc, polls, countVars>> BY <2>1 DEF Request, envVars
  <2>3. Budget' = Budget /\ Initial' = Initial BY <2>2, Limits DEF StageInv, FieldsInv
  <2>4. KernelBound' = KernelBound /\ KernelLeft' = KernelLeft
    BY <2>2, <2>3 DEF KernelBound, KernelLeft, Base, countVars
  <2>5. StepsAt' = StepsAt /\ Over' = Over
    BY <2>2 DEF StepsAt, Over, Short, LastBatch, countVars
  <2>6. StepsLeft' = StepsLeft
    BY <2>2, <2>4, <2>5 DEF StepsLeft, StepsInRun, StepsInAll
  <2> QED BY <1>2, <2>6, StepsInRunIs
<1>3. CASE Kernel BY <1>2, <1>3, KernelCountsDown
<1>4. CASE Restoration BY <1>2, <1>4, RestorationCountsDown
<1>5. CASE Unreplayable
  <2>1. run = "original" /\ run' = run /\ pc = "done" /\ pc' = "unreplayable"
    BY <1>5 DEF Unreplayable, envVars
  <2>2. StepsLeft' = 0 /\ StepsLeft = StepsInRun + StepsInAll + 1
    BY <2>1 DEF StepsLeft, StepsInRun, Over
  <2>3. StepsLeft' < StepsLeft BY <2>2, StepsInRunIs
  <2> QED BY <1>2, <2>3
<1>6. CASE Replay
  <2>1. /\ run = "original" /\ run' = "replay" /\ pc = "done" /\ pc' = "enter"
        /\ setting' = setting /\ polls' = 0 /\ analysed' = Zero /\ rejects' = Zero
    BY <1>6 DEF Replay
  <2>2. PICK all \in Nat, most \in Nat : all = KernelBound /\ most = MaxPolls
    BY KernelLeftIs
  <2>3. KernelBound' = all
    <3>1. Budget' = Budget /\ Initial' = Initial BY <2>1, Limits DEF StageInv, FieldsInv
    <3> QED BY <2>2, <3>1 DEF KernelBound
  <2>4. Base("kernel")' = 0 BY <2>1 DEF Base, Zero, Phases
  <2>5. KernelLeft' = all BY <2>2, <2>3, <2>4 DEF KernelLeft
  <2>6. StepsAt' = 6 /\ MaxPolls - polls' = most /\ ~Over' BY <2>1, <2>2 DEF StepsAt, Over
  <2>7. StepsLeft' = 3 * all + 4 * most + 6
    BY <2>1, <2>2, <2>5, <2>6 DEF StepsLeft, StepsInRun
  <2>8. StepsInAll = 3 * all + 4 * most + 6 BY <2>2 DEF StepsInAll
  <2>9. StepsLeft = StepsInAll + 1
    <3>1. StepsInRun = 0 /\ StepsInAll \in Nat BY <2>1, StepsInRunIs DEF StepsInRun, Over
    <3> QED BY <2>1, <3>1 DEF StepsLeft
  <2>10. StepsLeft' < StepsLeft BY <2>7, <2>8, <2>9, StepsInRunIs
  <2> QED BY <1>2, <2>10
<1> QED BY <1>1, <1>3, <1>4, <1>5, <1>6 DEF Next

(* EveryStepCounts: no more than twice 3 * (Budget + MaxRejects + Initial) *)
(* + 4 * MaxPolls + 6 steps, and the one between, are possible, whatever   *)
(* the clock cuts and however few points pass the pre-gate: no generation  *)
(* and no poll goes on for nothing (lshade_de.rs, run_with_admission;      *)
(* restoration.rs).                                                        *)
THEOREM EndTheorem == Spec => [](StepsLeft \in Nat) /\ EveryStepCounts
<1>1. StageInv => StepsLeft \in Nat BY StepsInRunIs
<1> QED BY <1>1, InitStage, StageStep, StepCounts, PTL DEF Spec, EveryStepCounts
=============================================================================
