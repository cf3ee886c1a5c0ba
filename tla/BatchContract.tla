--------------------------- MODULE BatchContract ---------------------------
(***************************************************************************)
(* What NativeObjective promises the search stages: a batch of designs is  *)
(* answered as if it had been evaluated by one sequential loop.  Nothing   *)
(* here knows of lanes, queues or reports.  A batch is opened, and later   *)
(* delivered in one step: some prefix of it was analysed, and              *)
(*                                                                         *)
(*   - no deadline, no request: every design is analysed;                  *)
(*   - a request: every design gets a row, those never started get a       *)
(*     "cancelled_unstarted" one, and a batch opened after the request     *)
(*     analyses nothing;                                                   *)
(*   - only a deadline: the rows are the analysed prefix and nothing else. *)
(*                                                                         *)
(* The promise is stated in the module documentation of                    *)
(* crates/alas-opt/src/differential_evolution/optimizer/native_pool.rs.    *)
(***************************************************************************)
EXTENDS Naturals, Sequences

CONSTANTS MaxDesigns,  (* designs of one batch, at most                    *)
          MaxBatches   (* batches of one search, at most (bounds the model)*)

VARIABLES
  open,     (* the batch being evaluated, or NoBatch                       *)
  token,    (* the owned cancellation token                                *)
  batches,  (* batches opened so far                                       *)
  history   (* the objective's rows, one per requested design              *)

vars == <<open, token, batches, history>>

NoBatch == [size |-> 0, timed |-> FALSE, barred |-> FALSE]

Row(batch, index, started) ==
  [batch |-> batch, index |-> index,
   reason |-> IF started THEN "analysed" ELSE "cancelled_unstarted"]

(* The rows of the first `count` designs, of which `started` were analysed. *)
Rows(batch, count, started) ==
  [i \in 1..count |-> Row(batch, i - 1, i <= started)]

Init ==
  /\ open = NoBatch
  /\ token = FALSE
  /\ batches = 0
  /\ history = <<>>

(* A batch opened on a set token is barred: nothing of it may be analysed. *)
Open ==
  /\ open = NoBatch
  /\ batches < MaxBatches
  /\ \E n \in 1..MaxDesigns, timed, requested \in BOOLEAN :
       /\ token' = (token \/ requested)
       /\ open' = [size |-> n, timed |-> timed, barred |-> token']
  /\ batches' = batches + 1
  /\ UNCHANGED history

Request ==
  /\ open # NoBatch
  /\ ~token
  /\ token' = TRUE
  /\ UNCHANGED <<open, batches, history>>

Deliver ==
  /\ open # NoBatch
  /\ \E started \in 0..open.size :
       /\ open.barred => started = 0
       /\ ~open.timed /\ ~token => started = open.size
       /\ history' = history \o
            Rows(batches, IF open.timed /\ ~token THEN started ELSE open.size, started)
  /\ open' = NoBatch
  /\ UNCHANGED <<token, batches>>

Next == Open \/ Request \/ Deliver

Spec == Init /\ [][Next]_vars
=============================================================================
