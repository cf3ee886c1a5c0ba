---------------------------- MODULE Downstream ----------------------------
(***************************************************************************)
(* Stage 5 of the pipeline: the analyses of the delivered aircraft, each   *)
(* on a scoped thread or one after the other, and the publisher that       *)
(* merges what each returns into a cumulative snapshot and sends it        *)
(* (alas-pipeline, pipeline.rs, stage 5; pipeline/snapshots.rs).           *)
(*                                                                         *)
(* An analysis is the fact that it returned a result.  One that is not     *)
(* requested returns without an update.  A panic of an analysis aborts the *)
(* shipped program (Cargo.toml, profile.release) and is left out.          *)
(***************************************************************************)
EXTENDS PolarPool, Sequences, FiniteSets

CONSTANTS Order,      (* the analyses, in their sequential order           *)
          Mission,    (* the one whose error fails the run                 *)
          Mses        (* the one that runs the pool of polars              *)

Branches == {Order[k] : k \in DOMAIN Order}

ASSUME BranchAssumption ==
  /\ Mission \in Branches /\ Mses \in Branches \ {Mission} /\ "free" \notin Branches
  /\ \A j, k \in DOMAIN Order : Order[j] = Order[k] => j = k

VARIABLES
  parallel,    (* options.parallel                                         *)
  available,   (* MSES is enabled and installed, and has a root section    *)
  branch,      (* where an analysis is                                     *)
  failed,      (* the mission stage returned an error                      *)
  lock,        (* the analysis that holds the publisher, or "free"         *)
  merged,      (* the snapshot: the analyses whose result is in it         *)
  copy,        (* the clone an analysis is about to publish                *)
  sections,    (* the polars the MSES stage returned                       *)
  queue        (* the messages to the window                               *)

options == <<parallel, available>>
publisherVars == <<lock, merged, copy>>
stageVars == <<parallel, available, branch, failed, publisherVars, sections>>

Places == {"waiting", "running", "ready", "merged", "done"}
AllDone == \A b \in Branches : branch[b] = "done"

Snapshot(of) == [kind |-> "snapshot", of |-> of]
Send(m) == queue' = Append(queue, m)

Waiting == [b \in Branches |-> "waiting"]
NoCopy == [b \in Branches |-> {}]

NoStage ==
  /\ parallel = FALSE /\ available = FALSE /\ branch = Waiting /\ failed = FALSE
  /\ lock = "free" /\ merged = {} /\ copy = NoCopy /\ sections = {}

NewStage ==
  /\ parallel' = FALSE /\ available' \in BOOLEAN /\ branch' = Waiting /\ failed' = FALSE
  /\ lock' = "free" /\ merged' = {} /\ copy' = NoCopy /\ sections' = {}

(* SnapshotPublisher::new publishes the report before any analysis. *)
BeginStage ==
  /\ parallel' \in BOOLEAN
  /\ Send(Snapshot({}))
  /\ UNCHANGED <<available, branch, failed, publisherVars, sections>>

-----------------------------------------------------------------------------

At(b, place) == branch' = [branch EXCEPT ![b] = place]

(* A scoped thread starts when it is scheduled; the sequential branch runs *)
(* one analysis to its end before the next.                                *)
Begin(b) ==
  /\ branch[b] = "waiting"
  /\ parallel \/ \A j, k \in DOMAIN Order :
                   Order[k] = b /\ j < k => branch[Order[j]] = "done"
  /\ At(b, "running")
  /\ IF b = Mses /\ available THEN StartPool ELSE UNCHANGED poolVars
  /\ UNCHANGED <<options, failed, publisherVars, sections, queue>>

(* An analysis returns: with a result, or, when it was not requested,      *)
(* without one.  The mission stage is run in any case and may fail.        *)
Return(b) ==
  /\ branch[b] = "running" /\ b # Mses
  /\ \/ At(b, "ready") /\ UNCHANGED failed
     \/ At(b, "done") /\ failed' = (failed \/ b = Mission)
  /\ UNCHANGED <<options, publisherVars, sections, poolVars, queue>>

(* Without the solver there is no pool and no polar: an empty update.      *)
ReturnPolars ==
  /\ branch[Mses] = "running" /\ PoolDone
  /\ At(Mses, "ready") /\ sections' = Kept /\ NewPool
  /\ UNCHANGED <<options, failed, publisherVars, queue>>

(* Wrong variant, for mutation: merge and publication are not serialised. *)
Merge_Unlocked(b) ==
  /\ branch[b] = "ready"
  /\ merged' = merged \cup {b} /\ copy' = [copy EXCEPT ![b] = merged \cup {b}]
  /\ At(b, "merged")
  /\ UNCHANGED <<options, failed, lock, sections, poolVars, queue>>

(* update: merge and clone under the lock, *)
Merge(b) ==
  /\ branch[b] = "ready" /\ lock = "free"
  /\ lock' = b
  /\ merged' = merged \cup {b} /\ copy' = [copy EXCEPT ![b] = merged \cup {b}]
  /\ At(b, "merged")
  /\ UNCHANGED <<options, failed, sections, poolVars, queue>>

(* Wrong variant, for mutation: the publisher stays locked. *)
Publish_Locked(b) ==
  /\ branch[b] = "merged"
  /\ Send(Snapshot(copy[b])) /\ copy' = [copy EXCEPT ![b] = {}]
  /\ At(b, "done")
  /\ UNCHANGED <<options, failed, lock, merged, sections, poolVars>>

(* and publish before it is released. *)
Publish(b) ==
  /\ branch[b] = "merged"
  /\ Send(Snapshot(copy[b])) /\ copy' = [copy EXCEPT ![b] = {}]
  /\ lock' = "free"
  /\ At(b, "done")
  /\ UNCHANGED <<options, failed, merged, sections, poolVars>>

StageStep ==
  \/ /\ \/ ReturnPolars
        \/ \E b \in Branches : Begin(b) \/ Return(b) \/ Merge(b) \/ Publish(b)
     /\ UNCHANGED cancel
  \/ PoolStep /\ UNCHANGED <<stageVars, queue>>

(* Wrong variant, for mutation: a mission error is returned at once. *)
Joined_Early == AllDone \/ failed

(* Whatever failed, the scope joins every thread, and the sequential       *)
(* branch runs every analysis before it returns the mission's error.       *)
Joined == AllDone
=============================================================================
