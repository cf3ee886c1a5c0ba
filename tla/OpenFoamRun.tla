---------------------------- MODULE OpenFoamRun ----------------------------
(***************************************************************************)
(* One OpenFOAM or Gmsh tool under the CFD worker: the launch, the loop    *)
(* that looks at the cancel flag, the timeout and the process in turn, the *)
(* kill, and the bounded drain of the output once the process has ended    *)
(* (alas-exec, openfoam/process_runner.rs, run_command_with_callback).     *)
(*                                                                         *)
(* The two pipes with their readers are one stream of chunks, in order and *)
(* closed once.  A kill of the tree ends the process.  The modules that    *)
(* extend this one share pc, the place of the worker thread: it is in the  *)
(* tool from "spawn" until "returned".                                     *)
(***************************************************************************)
EXTENDS Naturals

CONSTANT MaxOutput   (* chunks a tool writes (bound: no endless output)    *)

ASSUME OutputAssumption == MaxOutput \in Nat

VARIABLES
  pc,        (* where the worker thread is                                 *)
  flag,      (* cancel: the flag shared with the interface                 *)
  asked,     (* history: the active worker has been asked to stop          *)
  late,      (* history: tools launched since it was asked                 *)
  child,     (* the process: "none", "running", its exit, or "killed"      *)
  held,      (* a descendant keeps the pipe open after the process ended   *)
  expired,   (* started.elapsed() >= timeout                               *)
  written,   (* chunks the readers have put in the channel                 *)
  taken,     (* chunks consumed, and so captured                           *)
  status     (* OpenFoamProcessStatus of the last tool                     *)

outputVars == <<written, taken>>
childVars  == <<child, held, expired, outputVars>>
flagVars   == <<flag, asked>>
toolVars   == <<childVars, late, status>>

Exits == {"zero", "nonzero"}
Statuses == {"none", "Completed", "Failed", "Cancelled", "TimedOut", "LaunchFailed"}
InTool == {"drain", "cancel", "look", "post"}

NoTool ==
  /\ child = "none" /\ held = FALSE /\ expired = FALSE
  /\ written = 0 /\ taken = 0 /\ late = 0 /\ status = "none"

NoOutput == written' = 0 /\ taken' = 0
Dropped == child' = "none" /\ held' = FALSE /\ expired' = FALSE

-----------------------------------------------------------------------------
(* The tool and the clock. *)

Write ==
  /\ child = "running" /\ written < MaxOutput
  /\ written' = written + 1
  /\ UNCHANGED <<pc, flagVars, late, child, held, expired, taken, status>>

Exit ==
  /\ child = "running"
  /\ child' \in Exits
  /\ held' \in BOOLEAN
  /\ UNCHANGED <<pc, flagVars, late, expired, outputVars, status>>

Expire ==
  /\ child = "running" /\ ~expired
  /\ expired' = TRUE
  /\ UNCHANGED <<pc, flagVars, late, child, held, outputVars, status>>

-----------------------------------------------------------------------------
(* The worker in run_command_with_callback. *)

Spawn ==
  /\ pc = "spawn"
  /\ held' = FALSE /\ expired' = FALSE /\ NoOutput
  /\ \/ /\ pc' = "drain" /\ child' = "running" /\ status' = "none"
        /\ late' = IF asked THEN late + 1 ELSE late
     \/ /\ pc' = "returned" /\ child' = "none" /\ status' = "LaunchFailed"
        /\ UNCHANGED late
  /\ UNCHANGED flagVars

(* try_recv until the channel is empty: output goes before the flag. *)
Drain ==
  /\ pc = "drain"
  /\ IF taken < written
       THEN taken' = taken + 1 /\ UNCHANGED pc
       ELSE pc' = "cancel" /\ UNCHANGED taken
  /\ UNCHANGED <<flagVars, late, child, held, expired, written, status>>

(* Wrong variant, for mutation: the kill is sent and not waited for. *)
Terminate_Unreaped == UNCHANGED <<child, held>>

(* kill_process_tree, kill if it is still there, wait: a process that has  *)
(* exited in the meantime is only reaped.                                  *)
Terminate ==
  IF child = "running" THEN child' = "killed" /\ held' \in BOOLEAN
                       ELSE UNCHANGED <<child, held>>

Ended(result) == pc' = "post" /\ status' = result

LookAtFlag ==
  /\ pc = "cancel"
  /\ IF flag THEN Terminate /\ Ended("Cancelled")
             ELSE pc' = "look" /\ UNCHANGED <<child, held, status>>
  /\ UNCHANGED <<flagVars, late, expired, outputVars>>

(* The timeout, and then try_wait, which may itself fail. *)
LookAtChild ==
  /\ pc = "look"
  /\ \/ expired /\ Terminate /\ Ended("TimedOut")
     \/ /\ ~expired /\ child \in Exits
        /\ Ended(IF child = "zero" THEN "Completed" ELSE "Failed")
        /\ UNCHANGED <<child, held>>
     \/ /\ ~expired /\ child = "running"
        /\ pc' = "drain" /\ UNCHANGED <<child, held, status>>
     \/ ~expired /\ Terminate /\ Ended("Failed")
  /\ UNCHANGED <<flagVars, late, expired, outputVars>>

(* Wrong variant, for mutation: the output is awaited without a bound. *)
PostDrain_Unbounded ==
  /\ pc = "post"
  /\ \/ taken < written /\ taken' = taken + 1 /\ UNCHANGED pc
     \/ taken = written /\ ~held /\ pc' = "returned" /\ UNCHANGED taken
  /\ UNCHANGED <<flagVars, late, child, held, expired, written, status>>

(* After the process: until the pipe is closed, or for 750 ms.  A drain    *)
(* cut short returns a prefix and leaves the status as it is.              *)
PostDrain ==
  /\ pc = "post"
  /\ \/ taken < written /\ taken' = taken + 1 /\ UNCHANGED pc
     \/ taken = written /\ ~held /\ pc' = "returned" /\ UNCHANGED taken
     \/ pc' = "returned" /\ UNCHANGED taken
  /\ UNCHANGED <<flagVars, late, child, held, expired, written, status>>

ToolStep == Spawn \/ Drain \/ LookAtFlag \/ LookAtChild \/ PostDrain
Outside == Write \/ Exit \/ Expire
=============================================================================
