----------------------------- MODULE PolarPool -----------------------------
(***************************************************************************)
(* The section polars of the MSES stage: workers that claim the sections   *)
(* off a counter, look at the cancel flag before each but the root, and    *)
(* leave their results in request order, cut after the first skipped one   *)
(* (alas-pipeline, pipeline/mses_polars.rs, run_polars).                   *)
(*                                                                         *)
(* A polar is solved or not; what cancel does inside a solve is its own.   *)
(***************************************************************************)
EXTENDS Naturals

CONSTANTS Sections,   (* tasks: section 0 is the root                      *)
          PoolSize    (* most workers the machine allows                   *)

ASSUME PoolAssumption == Sections \in Nat \ {0} /\ PoolSize \in Nat \ {0}

VARIABLES
  cancel,    (* the cancel flag of the run                                 *)
  next,      (* the counter the workers claim from                         *)
  solver,    (* what a worker is at: "out", "claimed" or "solving", a task *)
  polars     (* the sections solved                                        *)

poolVars == <<next, solver, polars>>

Tasks == 0..(Sections - 1)
Solvers == 1..PoolSize
Out == [step |-> "out", task |-> 0]
Idle == [step |-> "idle", task |-> 0]

NoSolver == [w \in Solvers |-> Out]
NoPool == next = 0 /\ solver = NoSolver /\ polars = {}
NewPool == next' = 0 /\ solver' = NoSolver /\ polars' = {}

-----------------------------------------------------------------------------

(* parallelism.clamp(1, tasks): as many workers as there are cores left.   *)
StartPool ==
  /\ next' = 0 /\ polars' = {}
  /\ \E size \in Solvers :
       /\ size <= Sections
       /\ solver' = [w \in Solvers |-> IF w <= size THEN Idle ELSE Out]

Claim(w) ==
  /\ solver[w].step = "idle"
  /\ next' = next + 1
  /\ solver' = [solver EXCEPT ![w] =
                  IF next < Sections THEN [step |-> "claimed", task |-> next] ELSE Out]
  /\ UNCHANGED <<cancel, polars>>

(* The root is solved whatever the flag says. *)
LookAtCancel(w) ==
  /\ solver[w].step = "claimed"
  /\ solver' = [solver EXCEPT ![w] =
                  IF solver[w].task > 0 /\ cancel THEN Idle ELSE [@ EXCEPT !.step = "solving"]]
  /\ UNCHANGED <<cancel, next, polars>>

Solve(w) ==
  /\ solver[w].step = "solving"
  /\ polars' = polars \cup {solver[w].task}
  /\ solver' = [solver EXCEPT ![w] = Idle]
  /\ UNCHANGED <<cancel, next>>

PoolStep == \E w \in Solvers : Claim(w) \/ LookAtCancel(w) \/ Solve(w)
PoolDone == \A w \in Solvers : solver[w].step = "out"

(* Serial semantics: nothing after the first skipped section is kept. *)
Kept == {i \in polars : \A j \in Tasks : j \in 1..i => j \in polars}
=============================================================================
