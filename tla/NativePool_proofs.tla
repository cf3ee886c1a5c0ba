-------------------------- MODULE NativePool_proofs --------------------------
(***************************************************************************)
(* Proofs about NativePool, for every number of lanes and every bound on   *)
(* designs and batches.                                                    *)
(*                                                                         *)
(* IInv is the inductive invariant.  TypeOK and EachStartedOnce are        *)
(* inductive together; the other conjuncts say why a lane that has left    *)
(* its loop, or a coordinator that has left its own, owes nothing more.    *)
(***************************************************************************)
EXTENDS NativePool, FiniteSetTheorems, TLAPS

(* A lane that has ended a candidate after the token was set is about to   *)
(* leave its loop or has left it, and the token never goes back.           *)
LateInv ==
  \A l \in Lanes :
    \/ late[l] = 0
    \/ late[l] = 1 /\ token /\ lane[l] \in {"poll", "gone"}

(* While the results are collected, either every lane has left or the queue *)
(* is exhausted, so that no lane can take a candidate any more.             *)
DrainInv ==
  coord = "collect" =>
    /\ channel = {}
    /\ \A l \in Lanes : lane[l] # "evaluate"
    /\ (\A l \in Lanes : lane[l] = "gone") \/ next >= batch.size

(* An open batch is not empty; one opened on a set token starts nothing;    *)
(* and a spawned lane leaves only for one of the three reasons it polls.    *)
OpenInv ==
  coord # "idle" =>
    /\ batch.size \in 1..MaxDesigns
    /\ batch.barred => token /\ next = 0 /\ \A l \in Lanes : lane[l] \in {"poll", "gone"}
    /\ \A l \in Lanes : l <= batch.size /\ lane[l] = "gone" =>
         token \/ batch.timed \/ next >= batch.size

IInv == TypeOK /\ EachStartedOnce /\ LateInv /\ DrainInv /\ OpenInv

-----------------------------------------------------------------------------
(* The state at start, and every action, keep the variables in their types. *)
LEMMA InitIInv == Init => IInv
<1> SUFFICES ASSUME Init PROVE IInv OBVIOUS
<1>9. LateInv
  <2> SUFFICES ASSUME NEW l \in Lanes PROVE late[l] = 0 BY DEF LateInv
  <2> QED BY DEF Init
<1> USE PoolAssumption DEF Init, NoBatch, NoIndex, Indices, Lanes
<1>1. /\ parent \in BOOLEAN /\ token \in BOOLEAN /\ expired \in BOOLEAN
      /\ coord \in {"idle", "forward", "wait", "collect"}
  OBVIOUS
<1>2. /\ batch \in [size : 0..MaxDesigns, timed : BOOLEAN, barred : BOOLEAN]
      /\ batches \in 0..MaxBatches /\ next \in Nat
  OBVIOUS
<1>3. lane \in [Lanes -> {"poll", "take", "evaluate", "gone"}] OBVIOUS
<1>4. claimed \in [Lanes -> Indices \cup {NoIndex}] OBVIOUS
<1>5. \A l \in Lanes : lane[l] = "evaluate" <=> claimed[l] # NoIndex OBVIOUS
<1>6. /\ channel \subseteq [index : Indices, after : BOOLEAN]
      /\ answered \subseteq Indices /\ received \in Nat
      /\ late \in [Lanes -> Nat] /\ overrun \in [Lanes -> Nat]
  OBVIOUS
<1>7. TypeOK BY <1>1, <1>2, <1>3, <1>4, <1>5, <1>6 DEF TypeOK
<1>8. EachStartedOnce /\ DrainInv /\ OpenInv BY DEF EachStartedOnce, DrainInv, OpenInv
<1> QED BY <1>7, <1>8, <1>9 DEF IInv

(* Every step of the pool keeps the types. *)
LEMMA TypeStep == TypeOK /\ [Next]_vars => TypeOK'
<1> SUFFICES ASSUME TypeOK, [Next]_vars PROVE TypeOK' OBVIOUS
<1> USE PoolAssumption DEF TypeOK, envVars, batchVars, laneVars, slotVars, Lanes, Indices, NoIndex
<1>1. CASE CallerRequests BY <1>1 DEF CallerRequests
<1>2. CASE DeadlinePasses BY <1>2 DEF DeadlinePasses
<1>3. CASE OpenBatch
  <2> PICK n \in 1..MaxDesigns, timed \in BOOLEAN, past \in BOOLEAN :
        /\ batch' = [size |-> n, timed |-> timed, barred |-> Forwarded]
        /\ expired' = (timed /\ past)
        /\ lane' = [l \in Lanes |-> IF l <= n THEN "poll" ELSE "gone"]
    BY <1>3 DEF OpenBatch
  <2>1. Forwarded \in BOOLEAN BY DEF Forwarded
  <2>2. batch' \in [size : 0..MaxDesigns, timed : BOOLEAN, barred : BOOLEAN] BY <2>1
  <2>3. expired' \in BOOLEAN OBVIOUS
  <2> QED BY <1>3, <2>1, <2>2, <2>3 DEF OpenBatch
<1>4. CASE Forward BY <1>4 DEF Forward, Forwarded
<1>5. CASE ReceiveNothing BY <1>5 DEF ReceiveNothing
<1>6. CASE ReceiveReport
  <2> PICK r \in channel : answered' = answered \cup {r.index} /\ channel' = channel \ {r}
    BY <1>6 DEF ReceiveReport
  <2>0. r \in [index : Indices, after : BOOLEAN] OBVIOUS
  <2>1. /\ answered' \subseteq Indices
        /\ channel' \subseteq [index : Indices, after : BOOLEAN]
    BY <2>0
  <2>2. coord' \in {"forward", "collect"} /\ received' \in Nat BY <1>6 DEF ReceiveReport
  <2>3. UNCHANGED <<envVars, token, batchVars, laneVars, history>> BY <1>6 DEF ReceiveReport
  <2> QED BY <2>1, <2>2, <2>3
<1>7. CASE Collect BY <1>7 DEF Collect
<1>8. CASE \E l \in Lanes : Poll(l) BY <1>8, SMTT(30) DEF Poll
<1>9. CASE \E l \in Lanes : Take(l) BY <1>9, SMTT(30) DEF Take, InRange, Advanced
<1>10. CASE \E l \in Lanes : Report(l)
  <2> PICK l \in Lanes : Report(l) BY <1>10
  <2>1. claimed[l] \in Indices BY DEF Report
  <2>2. channel' \subseteq [index : Indices, after : BOOLEAN] BY <2>1, SMTT(30) DEF Report
  <2>3. claimed' \in [Lanes -> Indices \cup {NoIndex}] BY DEF Report
  <2>4. \A m \in Lanes : lane'[m] = "evaluate" <=> claimed'[m] # NoIndex BY DEF Report
  <2>5. /\ lane' \in [Lanes -> {"poll", "take", "evaluate", "gone"}]
        /\ late' \in [Lanes -> Nat] /\ overrun' \in [Lanes -> Nat]
    <3>1. lane' \in [Lanes -> {"poll", "take", "evaluate", "gone"}] BY DEF Report
    <3>2. late' = late \/ late' = [late EXCEPT ![l] = late[l] + 1] BY DEF Report
    <3>3. overrun' = overrun \/ overrun' = [overrun EXCEPT ![l] = overrun[l] + 1] BY DEF Report
    <3>4. late' \in [Lanes -> Nat] BY <3>2, SMTT(30)
    <3>5. overrun' \in [Lanes -> Nat] BY <3>3, SMTT(30)
    <3> QED BY <3>1, <3>4, <3>5
  <2>6. /\ UNCHANGED <<envVars, token, coord, batchVars, next, slotVars, history>>
        /\ batch' \in [size : 0..MaxDesigns, timed : BOOLEAN, barred : BOOLEAN]
    BY DEF Report
  <2> HIDE DEF Indices, NoIndex, Lanes
  <2> QED BY <2>2, <2>3, <2>4, <2>5, <2>6
<1>11. CASE UNCHANGED vars BY <1>11 DEF vars
<1> QED BY <1>1, <1>2, <1>3, <1>4, <1>5, <1>6, <1>7, <1>8, <1>9, <1>10, <1>11 DEF Next

-----------------------------------------------------------------------------
(* A lane is late once at most: a late end leaves it past its last poll,   *)
(* and a set token keeps it from another candidate.                        *)
LEMMA LateStep == TypeOK /\ LateInv /\ [Next]_vars => LateInv'
<1> SUFFICES ASSUME TypeOK, LateInv, [Next]_vars, NEW l \in Lanes
             PROVE  (late[l] = 0 \/ (late[l] = 1 /\ token /\ lane[l] \in {"poll", "gone"}))'
  BY DEF LateInv, Lanes
<1>0. late[l] = 0 \/ (late[l] = 1 /\ token /\ lane[l] \in {"poll", "gone"}) BY DEF LateInv
<1> USE <1>0 DEF TypeOK, laneVars
<1>1. CASE CallerRequests \/ DeadlinePasses \/ ReceiveNothing \/ ReceiveReport \/ Collect
  BY <1>1 DEF CallerRequests, DeadlinePasses, ReceiveNothing, ReceiveReport, Collect
<1>2. CASE OpenBatch BY <1>2 DEF OpenBatch, Forwarded
<1>3. CASE Forward BY <1>3 DEF Forward, Forwarded
<1>4. CASE \E m \in Lanes : Poll(m) BY <1>4 DEF Poll, MayTake
<1>5. CASE \E m \in Lanes : Take(m) BY <1>5 DEF Take
<1>6. CASE \E m \in Lanes : Report(m) BY <1>6 DEF Report
<1>7. CASE UNCHANGED vars BY <1>7 DEF vars
<1> QED BY <1>1, <1>2, <1>3, <1>4, <1>5, <1>6, <1>7 DEF Next

-----------------------------------------------------------------------------
(* Where an index is: with a lane, in a report, or in its slot. *)
LEMMA Members ==
  /\ \A i : i \in InFlight <=> \E l \in Lanes : lane[l] = "evaluate" /\ claimed[l] = i
  /\ \A i : i \in InChannel <=> \E r \in channel : r.index = i
BY DEF InFlight, InChannel

(* Steps that leave the queue, the lanes' indices and the slots alone. *)
LEMMA PartitionFrame ==
  ASSUME EachStartedOnce, coord # "idle", InFlight' = InFlight,
         UNCHANGED <<batch, next, claimed, channel, answered, received>>,
         \A l \in Lanes : lane'[l] = "evaluate" <=> lane[l] = "evaluate"
  PROVE  EachStartedOnce'
BY DEF EachStartedOnce, InChannel, Started, Lanes

(* The fetch_add moves the next index from the queue to one lane. *)
LEMMA PartitionTake ==
  ASSUME TypeOK, EachStartedOnce, coord # "idle", NEW l \in Lanes, Take(l)
  PROVE  EachStartedOnce'
<1> USE PoolAssumption DEF TypeOK, Take, InRange, Advanced, NoIndex, Indices, batchVars, slotVars
<1>1. CASE ~(next < batch.size)
  <2>1. \A m \in Lanes : lane'[m] = "evaluate" <=> lane[m] = "evaluate" BY <1>1
  <2>2. \A m \in Lanes : lane[m] = "evaluate" => claimed'[m] = claimed[m] BY <1>1
  <2>3. InFlight' = InFlight BY <2>1, <2>2 DEF InFlight
  <2>4. Started' = Started BY <1>1 DEF Started
  <2>5. InChannel' = InChannel BY DEF InChannel
  <2> QED BY <2>1, <2>2, <2>3, <2>4, <2>5 DEF EachStartedOnce
<1>2. CASE next < batch.size
  <2>1. lane' = [lane EXCEPT ![l] = "evaluate"] /\ claimed' = [claimed EXCEPT ![l] = next]
    BY <1>2
  <2>2. InFlight' = InFlight \cup {next}
    <3>1. \A i : i \in InFlight' <=> \E m \in Lanes : lane'[m] = "evaluate" /\ claimed'[m] = i
      BY DEF InFlight
    <3>2. lane'[l] = "evaluate" /\ claimed'[l] = next /\ lane[l] # "evaluate" BY <2>1
    <3>3. \A m \in Lanes : m # l => lane'[m] = lane[m] /\ claimed'[m] = claimed[m] BY <2>1
    <3> QED BY <3>1, <3>2, <3>3, Members
  <2>3. Started = next /\ Started' = next + 1 BY <1>2 DEF Started
  <2>4. InChannel' = InChannel BY DEF InChannel
  <2>5. InFlight \cup InChannel \cup answered = 0..(next - 1) BY <2>3 DEF EachStartedOnce
  <2>6. next \notin InFlight /\ next \notin InChannel /\ next \notin answered BY <2>5
  <2>7. InFlight' \cup InChannel' \cup answered' = 0..(Started' - 1)
    BY <2>2, <2>3, <2>4, <2>5
  <2>8. \A k, m \in Lanes : k # m /\ lane'[k] = "evaluate" /\ lane'[m] = "evaluate"
                              => claimed'[k] # claimed'[m]
    BY <2>1, <2>6, Members DEF EachStartedOnce
  <2> QED BY <2>2, <2>4, <2>6, <2>7, <2>8 DEF EachStartedOnce
<1> QED BY <1>1, <1>2

(* The index moves from the lane to the report. *)
LEMMA PartitionReport ==
  ASSUME TypeOK, EachStartedOnce, coord # "idle", NEW l \in Lanes, Report(l)
  PROVE  EachStartedOnce'
<1> DEFINE i == claimed[l]
<1> USE DEF TypeOK, Report, batchVars, slotVars
<1>1. lane'[l] = "poll" /\ lane[l] = "evaluate" OBVIOUS
<1>2. \A m \in Lanes : m # l => lane'[m] = lane[m] /\ claimed'[m] = claimed[m] OBVIOUS
<1>3. i \in InFlight BY <1>1, Members
<1>4. InFlight' = InFlight \ {i}
  <2>1. \A j : j \in InFlight' <=> \E m \in Lanes : lane'[m] = "evaluate" /\ claimed'[m] = j
    BY DEF InFlight
  <2> QED BY <2>1, <1>1, <1>2, Members DEF EachStartedOnce
<1>5. InChannel' = InChannel \cup {i}
  <2> DEFINE report == [index |-> i, after |-> token]
  <2>1. channel' = channel \cup {report} /\ report.index = i OBVIOUS
  <2> HIDE DEF report
  <2> QED BY <2>1 DEF InChannel
<1>6. Started' = Started BY DEF Started
<1>7. \A r, s \in channel' : r.index = s.index => r = s
  BY <1>3, Members DEF EachStartedOnce
<1>8. \A k, m \in Lanes : k # m /\ lane'[k] = "evaluate" /\ lane'[m] = "evaluate"
                            => claimed'[k] # claimed'[m]
  BY <1>1, <1>2 DEF EachStartedOnce
<1> QED BY <1>3, <1>4, <1>5, <1>6, <1>7, <1>8 DEF EachStartedOnce

(* The index moves from the report to its slot, and is counted. *)
LEMMA PartitionReceive ==
  ASSUME TypeOK, EachStartedOnce, coord # "idle", ReceiveReport
  PROVE  EachStartedOnce'
<1> USE PoolAssumption
<1>1. PICK r \in channel : answered' = answered \cup {r.index} /\ channel' = channel \ {r}
  BY DEF ReceiveReport
<1>2. r.index \in InChannel /\ r.index \notin answered /\ r.index \notin InFlight
  BY Members DEF EachStartedOnce
<1>3. InChannel' = InChannel \ {r.index} BY <1>1 DEF EachStartedOnce, InChannel
<1>4. UNCHANGED <<InFlight, Started, lane, claimed>>
  BY DEF ReceiveReport, InFlight, Started, laneVars, batchVars
<1>5. received' = Cardinality(answered')
  <2>1. IsFiniteSet(0..(MaxDesigns - 1)) BY FS_Interval
  <2>2. IsFiniteSet(answered) BY <2>1, FS_Subset DEF TypeOK, Indices
  <2>3. Cardinality(answered') = Cardinality(answered) + 1 BY <1>1, <1>2, <2>2, FS_AddElement
  <2> QED BY <2>3 DEF ReceiveReport, EachStartedOnce
<1> QED BY <1>1, <1>2, <1>3, <1>4, <1>5 DEF EachStartedOnce

(* Every step keeps the queue, the lanes, the channel and the slots apart. *)
LEMMA PartitionStep == TypeOK /\ EachStartedOnce /\ [Next]_vars => EachStartedOnce'
<1> SUFFICES ASSUME TypeOK, EachStartedOnce, [Next]_vars PROVE EachStartedOnce' OBVIOUS
<1> USE DEF envVars, batchVars, laneVars, slotVars
<1>1. CASE coord = "idle"
  <2>1. CASE OpenBatch
    <3>1. \A l \in Lanes : lane'[l] # "evaluate" BY <2>1 DEF OpenBatch
    <3>2. InFlight' = {} /\ InChannel' = {} BY <2>1, <3>1 DEF OpenBatch, InFlight, InChannel
    <3>3. Started' = 0 BY <2>1, PoolAssumption DEF OpenBatch, Started
    <3>4. answered' = {} /\ channel' = {} /\ received' = 0 BY <2>1 DEF OpenBatch
    <3> QED BY <3>1, <3>2, <3>3, <3>4, FS_EmptySet DEF EachStartedOnce
  <2>2. CASE ~OpenBatch
    <3>1. coord' = "idle"
      BY <1>1, <2>2 DEF Next, vars, CallerRequests, DeadlinePasses, Forward, ReceiveNothing,
                        ReceiveReport, Collect, Poll, Take, Report
    <3> QED BY <3>1 DEF EachStartedOnce
  <2> QED BY <2>1, <2>2
<1>2. CASE coord # "idle"
  <2>1. CASE CallerRequests \/ DeadlinePasses \/ Forward \/ ReceiveNothing \/ Collect \/ UNCHANGED vars
    <3>1. UNCHANGED <<batch, next, claimed, channel, answered, received, lane>>
      BY <2>1 DEF CallerRequests, DeadlinePasses, Forward, ReceiveNothing, Collect, vars
    <3>2. InFlight' = InFlight BY <3>1 DEF InFlight
    <3> QED BY <1>2, <3>1, <3>2, PartitionFrame
  <2>2. CASE OpenBatch BY <1>2, <2>2 DEF OpenBatch
  <2>3. CASE ReceiveReport BY <1>2, <2>3, PartitionReceive
  <2>4. ASSUME NEW l \in Lanes, Poll(l) PROVE EachStartedOnce'
    <3>1. \A m \in Lanes : lane'[m] = "evaluate" <=> lane[m] = "evaluate"
      BY <2>4 DEF Poll, TypeOK
    <3>2. UNCHANGED <<batch, next, claimed, channel, answered, received>> BY <2>4 DEF Poll
    <3>3. InFlight' = InFlight BY <3>1, <3>2 DEF InFlight
    <3> QED BY <1>2, <3>1, <3>2, <3>3, PartitionFrame
  <2>5. ASSUME NEW l \in Lanes, Take(l) PROVE EachStartedOnce' BY <1>2, <2>5, PartitionTake
  <2>6. ASSUME NEW l \in Lanes, Report(l) PROVE EachStartedOnce' BY <1>2, <2>6, PartitionReport
  <2> QED BY <2>1, <2>2, <2>3, <2>4, <2>5, <2>6 DEF Next
<1> QED BY <1>1, <1>2

-----------------------------------------------------------------------------
(* Between batches no lane is at work and no report is on its way. *)
LEMMA OpenStep == TypeOK /\ OpenInv /\ [Next]_vars => OpenInv'
<1> SUFFICES ASSUME TypeOK, OpenInv, [Next]_vars PROVE OpenInv' OBVIOUS
<1> USE DEF TypeOK, envVars, batchVars, laneVars, slotVars
<1>1. CASE CallerRequests \/ DeadlinePasses \/ ReceiveNothing \/ ReceiveReport \/ Collect
           \/ UNCHANGED vars
  BY <1>1 DEF CallerRequests, DeadlinePasses, ReceiveNothing, ReceiveReport, Collect, vars,
              OpenInv, Lanes
<1>2. CASE OpenBatch
  <2> PICK n \in 1..MaxDesigns, timed \in BOOLEAN, past \in BOOLEAN :
        /\ batch' = [size |-> n, timed |-> timed, barred |-> Forwarded]
        /\ lane' = [l \in Lanes |-> IF l <= n THEN "poll" ELSE "gone"]
    BY <1>2 DEF OpenBatch
  <2>1. batch'.size = n /\ batch'.barred = Forwarded OBVIOUS
  <2>2. token' = Forwarded /\ next' = 0 BY <1>2 DEF OpenBatch
  <2>3. \A l \in Lanes : lane'[l] \in {"poll", "gone"} /\ (l <= n => lane'[l] = "poll") OBVIOUS
  <2> QED BY <2>1, <2>2, <2>3 DEF OpenInv, Lanes
<1>3. CASE Forward BY <1>3 DEF Forward, Forwarded, OpenInv, Lanes
<1>4. CASE \E m \in Lanes : Poll(m) BY <1>4 DEF Poll, MayTake, OpenInv, Lanes
<1>5. CASE \E m \in Lanes : Take(m) BY <1>5 DEF Take, InRange, Advanced, OpenInv, Lanes
<1>6. CASE \E m \in Lanes : Report(m) BY <1>6 DEF Report, OpenInv, Lanes
<1> QED BY <1>1, <1>2, <1>3, <1>4, <1>5, <1>6 DEF Next

(* The receive loop counted designs.len() reports: every slot is filled.  *)
LEMMA AllAnswered ==
  ASSUME TypeOK, OpenInv, EachStartedOnce, coord # "idle", received = batch.size
  PROVE  /\ channel = {} /\ next >= batch.size /\ \A l \in Lanes : lane[l] # "evaluate"
<1>1. batch.size \in Nat \ {0} /\ next \in Nat
  BY PoolAssumption DEF OpenInv, TypeOK
<1>2. Started \in Nat /\ Started <= batch.size BY <1>1 DEF Started
<1>3. answered \subseteq 0..(batch.size - 1) BY <1>1, <1>2 DEF EachStartedOnce
<1>4. IsFiniteSet(0..(batch.size - 1)) /\ Cardinality(0..(batch.size - 1)) = batch.size
  <2>1. 0 \in Int /\ batch.size - 1 \in Int /\ ~(0 > batch.size - 1) BY <1>1
  <2>2. /\ IsFiniteSet(0..(batch.size - 1))
        /\ Cardinality(0..(batch.size - 1)) =
             IF 0 > batch.size - 1 THEN 0 ELSE batch.size - 1 - 0 + 1
    BY <2>1, FS_Interval, Zenon
  <2> QED BY <1>1, <2>1, <2>2
<1>5. answered = 0..(batch.size - 1) BY <1>3, <1>4, FS_Subset DEF EachStartedOnce
<1>6. batch.size - 1 <= Started - 1 BY <1>1, <1>2, <1>5 DEF EachStartedOnce
<1>7. next >= batch.size BY <1>1, <1>6 DEF Started
<1>8. InFlight = {} /\ InChannel = {} BY <1>1, <1>2, <1>5 DEF EachStartedOnce
<1> QED BY <1>7, <1>8, Members

(* A lane that still owes an answer holds its sender: the receive loop can *)
(* end neither way before it reports.                                      *)
LEMMA DrainStep ==
  TypeOK /\ TypeOK' /\ EachStartedOnce' /\ OpenInv' /\ DrainInv /\ [Next]_vars => DrainInv'
<1> SUFFICES ASSUME TypeOK, TypeOK', EachStartedOnce', OpenInv', DrainInv, [Next]_vars,
                    coord' = "collect"
             PROVE  DrainInv'
  BY DEF DrainInv
<1> USE DEF envVars, batchVars, laneVars, slotVars
<1>1. CASE CallerRequests \/ DeadlinePasses \/ UNCHANGED vars
  BY <1>1 DEF CallerRequests, DeadlinePasses, vars, DrainInv, Lanes
<1>2. CASE OpenBatch \/ Forward \/ Collect BY <1>2 DEF OpenBatch, Forward, Collect
<1>3. CASE ReceiveNothing BY <1>3 DEF ReceiveNothing, Senders, DrainInv, Lanes
<1>4. CASE ReceiveReport
  <2>1. received' = batch'.size BY <1>4 DEF ReceiveReport
  <2>2. (TypeOK /\ OpenInv /\ EachStartedOnce /\ coord # "idle" /\ received = batch.size
         => channel = {} /\ next >= batch.size /\ \A l \in Lanes : lane[l] # "evaluate")'
    BY AllAnswered, PTL
  <2> QED BY <2>1, <2>2 DEF DrainInv, Lanes
<1>5. CASE \E m \in Lanes : Poll(m) BY <1>5 DEF Poll, DrainInv, TypeOK, Lanes
<1>6. CASE \E m \in Lanes : Take(m)
  BY <1>6 DEF Take, InRange, Advanced, DrainInv, TypeOK, Lanes
<1>7. CASE \E m \in Lanes : Report(m) BY <1>7 DEF Report, DrainInv
<1> QED BY <1>1, <1>2, <1>3, <1>4, <1>5, <1>6, <1>7 DEF Next

-----------------------------------------------------------------------------
(* The inductive invariant holds of every reachable state. *)
THEOREM Invariance == Spec => []IInv
<1>1. IInv /\ [Next]_vars => IInv'
  BY TypeStep, PartitionStep, LateStep, OpenStep, DrainStep DEF IInv
<1> QED BY InitIInv, <1>1, PTL DEF Spec

(* Type correctness: in particular every index a lane evaluates, and every *)
(* index answered, is one of the batch's designs.                          *)
THEOREM TypeCorrect == Spec => []TypeOK
<1>1. IInv => TypeOK BY DEF IInv
<1> QED BY Invariance, <1>1, PTL

(* Whatever the lanes do to each other, an index of the queue is handed    *)
(* out once, reported once and received once.                              *)
THEOREM NothingLostOrDoubled == Spec => []EachStartedOnce
<1>1. IInv => EachStartedOnce BY DEF IInv
<1> QED BY Invariance, <1>1, PTL

(* A cancellation request costs each lane at most one more candidate, for  *)
(* the whole life of the pool and any number of batches.                   *)
THEOREM RequestCostsOnePerLane == Spec => []OneLateCandidatePerLane
<1>1. IInv => OneLateCandidatePerLane BY DEF IInv, LateInv, OneLateCandidatePerLane
<1> QED BY Invariance, <1>1, PTL

(* Results are collected only once no lane can still send one. *)
THEOREM CollectIsLast == Spec => []NothingOwedAtCollect
<1>1. IInv => NothingOwedAtCollect BY Members DEF IInv, DrainInv, NothingOwedAtCollect
<1> QED BY Invariance, <1>1, PTL

-----------------------------------------------------------------------------
(* Refinement: Collect is the contract's Deliver of the started prefix, a  *)
(* Forward that sets the token its Request, OpenBatch its Open.            *)

(* Opening a batch is the contract's Open. *)
LEMMA RefineOpen == TypeOK /\ OpenBatch => Contract!Open
<1> SUFFICES ASSUME TypeOK, OpenBatch PROVE Contract!Open OBVIOUS
<1> PICK n \in 1..MaxDesigns, timed \in BOOLEAN :
      batch' = [size |-> n, timed |-> timed, barred |-> Forwarded]
  BY DEF OpenBatch
<1>1. token' = Forwarded /\ coord = "idle" /\ coord' = "forward" /\ batches < MaxBatches
  BY DEF OpenBatch
<1>2. token' = (token \/ parent) /\ parent \in BOOLEAN BY <1>1 DEF Forwarded, TypeOK
<1>3. batch' = [size |-> n, timed |-> timed, barred |-> token'] BY <1>1
<1>4. batches' = batches + 1 /\ history' = history BY DEF OpenBatch
<1> QED BY <1>1, <1>2, <1>3, <1>4 DEF Contract!Open, Contract!NoBatch, NoBatch

(* Forwarding is the contract's Request when it sets the token, and stutters *)
(* otherwise.                                                              *)
LEMMA RefineForward ==
  ASSUME TypeOK, OpenInv, Forward
  PROVE  Contract!Request \/ UNCHANGED Contract!vars
<1>1. coord = "forward" /\ coord' = "wait" /\ batch' = batch /\ batches' = batches
      /\ history' = history /\ token' = Forwarded
  BY DEF Forward, batchVars
<1>2. batch # NoBatch /\ batch # Contract!NoBatch
  BY <1>1 DEF OpenInv, NoBatch, Contract!NoBatch
<1>3. CASE token BY <1>1, <1>3, Zenon DEF Forwarded, Contract!vars, TypeOK
<1>4. CASE ~token /\ ~parent BY <1>1, <1>4, Zenon DEF Forwarded, Contract!vars, TypeOK
<1>5. CASE ~token /\ parent
  BY <1>1, <1>2, <1>5 DEF Forwarded, Contract!Request
<1> QED BY <1>3, <1>4, <1>5 DEF TypeOK

(* At Collect the answered indices are the started prefix, and a batch nobody *)
(* stopped has started every design.                                          *)
LEMMA CollectsPrefix ==
  ASSUME IInv, coord = "collect"
  PROVE  /\ Started \in 0..batch.size
         /\ answered = 0..(Started - 1)
         /\ batch.barred => Started = 0
         /\ ~batch.timed /\ ~token => Started = batch.size
<1> USE PoolAssumption DEF IInv, Started
<1>1. batch.size \in 1..MaxDesigns /\ next \in Nat BY DEF OpenInv, TypeOK
<1>2. InFlight = {} /\ InChannel = {} BY Members DEF DrainInv
<1>3. answered = 0..(Started - 1) BY <1>2 DEF EachStartedOnce
<1>4. batch.barred => next = 0 BY DEF OpenInv
<1>5. ASSUME ~batch.timed, ~token PROVE next >= batch.size
  <2>1. 1 \in Lanes /\ 1 <= batch.size BY <1>1 DEF Lanes
  <2> QED BY <1>5, <2>1 DEF DrainInv, OpenInv
<1> QED BY <1>1, <1>3, <1>4, <1>5

(* Collecting is the contract's Deliver. *)
LEMMA RefineCollect ==
  ASSUME IInv, Collect
  PROVE  Contract!Deliver
<1> DEFINE count == IF batch.timed /\ ~token THEN Started ELSE batch.size
<1>1. coord = "collect" /\ coord' = "idle" /\ token' = token /\ batches' = batches
  BY DEF Collect, batchVars
<1>2. batch.size \in 1..MaxDesigns BY <1>1, PoolAssumption DEF IInv, OpenInv
<1>3. batch # Contract!NoBatch BY <1>2 DEF Contract!NoBatch
<1>4. Started \in 0..batch.size /\ answered = 0..(Started - 1) BY <1>1, CollectsPrefix
<1>5. RowCount = count BY DEF RowCount
<1>6. \A i \in 1..count : (i - 1 \in answered) <=> (i <= Started)
  BY <1>2, <1>4 DEF Started
<1>7. [i \in 1..RowCount |-> Contract!Row(batches, i - 1, (i - 1) \in answered)]
        = Contract!Rows(batches, count, Started)
  BY <1>5, <1>6 DEF Contract!Rows, Contract!Row
<1>8. history' = history \o Contract!Rows(batches, count, Started) BY <1>7 DEF Collect
<1>9. /\ batch.barred => Started = 0
      /\ ~batch.timed /\ ~token => Started = batch.size
  BY <1>1, CollectsPrefix
<1> QED BY <1>1, <1>3, <1>4, <1>8, <1>9 DEF Contract!Deliver, Contract!NoBatch, NoBatch

(* The lanes implement the contract: rows in index order, an analysed      *)
(* prefix, whatever lane ran what.                                         *)
THEOREM Refinement == Spec => ImplementsContract
<1>1. Init => Contract!Init BY DEF Init, Contract!Init, Contract!NoBatch, NoBatch
<1>2. IInv /\ [Next]_vars => [Contract!Next]_(Contract!vars)
  <2> SUFFICES ASSUME IInv, [Next]_vars PROVE Contract!Next \/ UNCHANGED Contract!vars
    OBVIOUS
  <2> USE DEF batchVars
  <2>1. CASE CallerRequests \/ DeadlinePasses \/ ReceiveNothing \/ ReceiveReport
             \/ UNCHANGED vars
    <3>1. UNCHANGED <<batch, token, batches, history>> /\ (coord = "idle" <=> coord' = "idle")
      BY <2>1 DEF CallerRequests, DeadlinePasses, ReceiveNothing, ReceiveReport, vars
    <3> QED BY <3>1, Zenon DEF Contract!vars
  <2>2. CASE OpenBatch BY <2>2, RefineOpen DEF IInv, Contract!Next
  <2>3. CASE Forward BY <2>3, RefineForward DEF IInv, Contract!Next
  <2>4. CASE Collect BY <2>4, RefineCollect DEF Contract!Next
  <2>5. CASE \E l \in Lanes : Poll(l) \/ Take(l) \/ Report(l)
    <3>1. UNCHANGED <<batch, token, batches, history, coord>>
      BY <2>5 DEF Poll, Take, Report
    <3> QED BY <3>1, Zenon DEF Contract!vars
  <2> QED BY <2>1, <2>2, <2>3, <2>4, <2>5 DEF Next
<1> QED BY <1>1, <1>2, Invariance, PTL DEF Spec, Contract!Spec, ImplementsContract
==============================================================================
