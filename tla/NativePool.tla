----------------------------- MODULE NativePool -----------------------------
(***************************************************************************)
(* Concurrent candidate evaluation: one coordinator and a fixed set of     *)
(* single-threaded lanes on a shared work queue                            *)
(* (crates/alas-opt/src/differential_evolution/optimizer/native_pool.rs).  *)
(*                                                                         *)
(* The coordinator spawns a job on the first min(lanes, designs) lanes,    *)
(* then only receives reports and forwards the caller's borrowed flag into *)
(* the owned token the lanes poll.  A lane polls the token and the         *)
(* deadline, takes the next index with fetch_add, evaluates and reports;   *)
(* flag, token and deadline may change between any two of these steps.     *)
(*                                                                         *)
(* An answer is identified with its index: what a candidate scores is out  *)
(* of scope.  A report lands in the slot of its own index whenever it is   *)
(* received, so the mpsc channel is a set.                                 *)
(***************************************************************************)
EXTENDS Naturals, Sequences, FiniteSets

CONSTANTS NumLanes,    (* lanes of the pool: workers.max(1)                *)
          MaxDesigns,  (* designs of one batch, at most (bounds the model) *)
          MaxBatches   (* batches of one search, at most (bounds the model)*)

ASSUME PoolAssumption ==
  NumLanes \in Nat \ {0} /\ MaxDesigns \in Nat \ {0} /\ MaxBatches \in Nat

VARIABLES
  parent,    (* the caller's borrowed cancellation flag                    *)
  token,     (* EvaluationCancellation; nothing ever clears it             *)
  expired,   (* Instant::now() >= deadline                                 *)
  coord,     (* where evaluate_batch is                                    *)
  batch,     (* designs.len(), whether the objective has a deadline, and   *)
             (* (history) whether the token was set when the batch opened  *)
  batches,   (* batches opened so far                                      *)
  next,      (* the queue's shared AtomicUsize                             *)
  lane,      (* where each lane's run_lane is                              *)
  claimed,   (* the index a lane holds                                     *)
  channel,   (* reports sent and not yet received                          *)
  answered,  (* indices whose slot of `answers` is filled                  *)
  received,  (* reports received: turns of the receive loop                *)
  history,   (* the objective's history rows                               *)
  late,      (* history: candidates a lane reported as after the request   *)
  overrun    (* history: ... that ended after the caller's store           *)

envVars   == <<parent, expired>>
batchVars == <<batch, batches>>
slotVars  == <<answered, received>>
laneVars  == <<lane, claimed, next, late, overrun>>
vars == <<envVars, token, coord, batchVars, laneVars, channel, slotVars, history>>

Lanes   == 1..NumLanes
Indices == 0..(MaxDesigns - 1)
NoIndex == MaxDesigns
NoBatch == [size |-> 0, timed |-> FALSE, barred |-> FALSE]

Contract == INSTANCE BatchContract
              WITH open <- IF coord = "idle" THEN NoBatch ELSE batch

-----------------------------------------------------------------------------
(* Wrong variants of the definitions below, for mutation: the flag is not  *)
(* forwarded; the deadline alone stops a lane; the bound is off by one; an *)
(* index is handed out twice; a lane drops its Sender before it evaluates; *)
(* a timed batch forgets that a request makes it whole.                    *)
Forwarded_Never   == token
MayTake_NoToken   == ~(batch.timed /\ expired)
InRange_OffByOne  == next <= batch.size
Advanced_Lost     == next
Senders_TooFew    == {l \in Lanes : lane[l] \in {"poll", "take"}}
RowCount_Prefix   == IF batch.timed /\ next < batch.size THEN next ELSE batch.size

-----------------------------------------------------------------------------
Init ==
  /\ parent = FALSE /\ token = FALSE /\ expired = FALSE
  /\ coord = "idle" /\ batch = NoBatch /\ batches = 0
  /\ next = 0
  /\ lane = [l \in Lanes |-> "gone"]
  /\ claimed = [l \in Lanes |-> NoIndex]
  /\ channel = {} /\ answered = {} /\ received = 0
  /\ history = <<>>
  /\ late = [l \in Lanes |-> 0] /\ overrun = [l \in Lanes |-> 0]

(* Another thread stores TRUE in the flag the search borrowed. *)
CallerRequests ==
  /\ ~parent
  /\ parent' = TRUE
  /\ UNCHANGED <<expired, token, coord, batchVars, laneVars, channel, slotVars, history>>

DeadlinePasses ==
  /\ coord # "idle" /\ batch.timed /\ ~expired
  /\ expired' = TRUE
  /\ UNCHANGED <<parent, token, coord, batchVars, laneVars, channel, slotVars, history>>

-----------------------------------------------------------------------------
(* The coordinator: evaluate_batch and the receive it loops on. *)

Forwarded == token \/ parent

(***************************************************************************)
(* evaluate_batch forwards the flag, then spawns.  A lane of the previous  *)
(* batch may still be leaving its loop: that batch's queue is a separate   *)
(* Arc and exhausted, so those steps reach nothing this batch reads, and   *)
(* the lane's one-thread pool runs the new job after them.  An empty batch *)
(* returns at once and is not modelled.                                    *)
(***************************************************************************)
OpenBatch ==
  /\ coord = "idle" /\ batches < MaxBatches
  /\ \E n \in 1..MaxDesigns, timed, past \in BOOLEAN :
       /\ batch' = [size |-> n, timed |-> timed, barred |-> Forwarded]
       /\ expired' = (timed /\ past)
       /\ lane' = [l \in Lanes |-> IF l <= n THEN "poll" ELSE "gone"]
  /\ token' = Forwarded
  /\ coord' = "forward"
  /\ batches' = batches + 1
  /\ next' = 0
  /\ claimed' = [l \in Lanes |-> NoIndex]
  /\ channel' = {} /\ answered' = {} /\ received' = 0
  /\ UNCHANGED <<parent, history, late, overrun>>

(* forward_cancellation, before every wait of at most 25 ms *)
Forward ==
  /\ coord = "forward"
  /\ token' = Forwarded
  /\ coord' = "wait"
  /\ UNCHANGED <<envVars, batchVars, laneVars, channel, slotVars, history>>

(* the lanes that still hold a Sender *)
Senders == {l \in Lanes : lane[l] # "gone"}

(* No report waits: recv_timeout runs out and receive turns, or, when the  *)
(* last Sender is dropped, the channel is disconnected and the loop ends.  *)
ReceiveNothing ==
  /\ coord = "wait" /\ channel = {}
  /\ coord' = IF Senders = {} THEN "collect" ELSE "forward"
  /\ UNCHANGED <<envVars, token, batchVars, laneVars, channel, slotVars, history>>

(* One report fills the slot of its index; designs.len() of them end the loop. *)
ReceiveReport ==
  /\ coord = "wait"
  /\ \E r \in channel : answered' = answered \cup {r.index} /\ channel' = channel \ {r}
  /\ received' = received + 1
  /\ coord' = IF received' = batch.size THEN "collect" ELSE "forward"
  /\ UNCHANGED <<envVars, token, batchVars, laneVars, history>>

Started == IF next < batch.size THEN next ELSE batch.size

(* a timed stop returns only its started prefix *)
RowCount == IF batch.timed /\ ~token THEN Started ELSE batch.size

(* The answers in index order; an unfilled slot is cancelled_unstarted. *)
Collect ==
  /\ coord = "collect"
  /\ history' = history \o
       [i \in 1..RowCount |-> Contract!Row(batches, i - 1, (i - 1) \in answered)]
  /\ coord' = "idle"
  /\ UNCHANGED <<envVars, token, batchVars, laneVars, channel, slotVars>>

-----------------------------------------------------------------------------
(* A lane: run_lane. *)

MayTake == ~token /\ ~(batch.timed /\ expired)

(* The loop condition; a lane that leaves the loop drops its Sender. *)
Poll(l) ==
  /\ lane[l] = "poll"
  /\ lane' = [lane EXCEPT ![l] = IF MayTake THEN "take" ELSE "gone"]
  /\ UNCHANGED <<envVars, token, coord, batchVars, claimed, next, late, overrun,
                 channel, slotVars, history>>

InRange  == next < batch.size
Advanced == next + 1

(* next.fetch_add(1); an index past the end ends the lane. *)
Take(l) ==
  /\ lane[l] = "take"
  /\ next' = Advanced
  /\ lane' = [lane EXCEPT ![l] = IF InRange THEN "evaluate" ELSE "gone"]
  /\ claimed' = [claimed EXCEPT ![l] = IF InRange THEN next ELSE NoIndex]
  /\ UNCHANGED <<envVars, token, coord, batchVars, late, overrun, channel, slotVars, history>>

(* The evaluation ends and is reported with the token as it is then. *)
Report(l) ==
  /\ lane[l] = "evaluate"
  /\ channel' = channel \cup {[index |-> claimed[l], after |-> token]}
  /\ lane' = [lane EXCEPT ![l] = "poll"]
  /\ claimed' = [claimed EXCEPT ![l] = NoIndex]
  /\ late' = IF token THEN [late EXCEPT ![l] = @ + 1] ELSE late
  /\ overrun' = IF parent THEN [overrun EXCEPT ![l] = @ + 1] ELSE overrun
  /\ UNCHANGED <<envVars, token, coord, batchVars, next, slotVars, history>>

Next ==
  \/ CallerRequests \/ DeadlinePasses
  \/ OpenBatch \/ Forward \/ ReceiveNothing \/ ReceiveReport \/ Collect
  \/ \E l \in Lanes : Poll(l) \/ Take(l) \/ Report(l)

Spec == Init /\ [][Next]_vars

(***************************************************************************)
(* Coordinator and lanes are operating-system threads.  A coupled          *)
(* evaluation nobody asked to stop may run for as long as it likes, so a   *)
(* lane is only promised to report once the token it polls is set.         *)
(***************************************************************************)
FairSpec ==
  /\ Spec
  /\ WF_vars(Forward \/ ReceiveNothing \/ ReceiveReport \/ Collect)
  /\ \A l \in Lanes : WF_vars(Poll(l) \/ Take(l)) /\ WF_vars(token /\ Report(l))

-----------------------------------------------------------------------------
(* Every variable stays in its domain; a lane of the spawned prefix holds  *)
(* an index exactly while it evaluates one, and every index is a design's. *)
TypeOK ==
  /\ parent \in BOOLEAN /\ token \in BOOLEAN /\ expired \in BOOLEAN
  /\ coord \in {"idle", "forward", "wait", "collect"}
  /\ batch \in [size : 0..MaxDesigns, timed : BOOLEAN, barred : BOOLEAN]
  /\ batches \in 0..MaxBatches
  /\ next \in Nat
  /\ lane \in [Lanes -> {"poll", "take", "evaluate", "gone"}]
  /\ claimed \in [Lanes -> Indices \cup {NoIndex}]
  /\ \A l \in Lanes : lane[l] = "evaluate" <=> claimed[l] # NoIndex
  /\ channel \subseteq [index : Indices, after : BOOLEAN]
  /\ answered \subseteq Indices
  /\ received \in Nat
  /\ late \in [Lanes -> Nat] /\ overrun \in [Lanes -> Nat]

InFlight  == {claimed[l] : l \in {m \in Lanes : lane[m] = "evaluate"}}
InChannel == {r.index : r \in channel}

(***************************************************************************)
(* Work stealing loses and duplicates nothing: while a batch is open, each *)
(* index the queue has handed out is with exactly one lane, or in exactly  *)
(* one report, or answered; and the receive loop, which counts reports     *)
(* rather than slots, has counted exactly the slots that are filled.       *)
(***************************************************************************)
EachStartedOnce ==
  coord # "idle" =>
    /\ InFlight \cup InChannel \cup answered = 0..(Started - 1)
    /\ InFlight \cap InChannel = {}
    /\ InFlight \cap answered = {}
    /\ InChannel \cap answered = {}
    /\ \A l, m \in Lanes :
         l # m /\ lane[l] = "evaluate" /\ lane[m] = "evaluate" => claimed[l] # claimed[m]
    /\ \A r, s \in channel : r.index = s.index => r = s
    /\ received = Cardinality(answered)

(* Collecting never overtakes a lane that still owes an answer, whichever  *)
(* way the receive loop ended: all reports counted, or channel closed.     *)
NothingOwedAtCollect == coord = "collect" => InFlight = {} /\ channel = {}

(* Over the whole life of the pool a lane ends at most one candidate after *)
(* the token is set: the one in flight, or the one it takes between its    *)
(* poll and its fetch_add.                                                 *)
OneLateCandidatePerLane == \A l \in Lanes : late[l] <= 1

(***************************************************************************)
(* What LaneReport's documentation says of its last field, "whether it     *)
(* finished after the request", and what evaluations_after_request is then *)
(* read as.  The field samples the token, which lags the caller's store    *)
(* until the coordinator's next forward_cancellation: a candidate that     *)
(* ends in between is reported as finished before the request.             *)
(***************************************************************************)
AfterRequestIsReported == late = overrun

(* The lanes together implement the one-step batch of BatchContract: rows  *)
(* in index order, the analysed ones a prefix, whatever lane ran what.     *)
ImplementsContract == Contract!Spec

(* A request ends the batch in progress even while its candidates would    *)
(* run for ever: the waiting coordinator forwards the flag, the candidates *)
(* in flight stop on the token, the lanes leave, the rows are collected.   *)
RequestEndsBatch == (parent /\ coord # "idle") ~> (coord = "idle")

=============================================================================
