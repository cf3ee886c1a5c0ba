----------------------------- MODULE SolverRun -----------------------------
(***************************************************************************)
(* One supervised solver: the launched process and a descendant it leaves  *)
(* behind, the two pipes, the reader thread of each, and the supervisor    *)
(* that waits under a deadline and collects the text (alas-exec,           *)
(* process.rs: drain, wait_with_timeout, stop_process_tree, drained_text;  *)
(* called in this order by alas-struct, nastran/run.rs, supervise, and     *)
(* nastran95/run/process.rs).                                              *)
(*                                                                         *)
(* Output is counted in chunks, the unit of a pipe and of a read.  A kill  *)
(* of the tree reaches the whole process group, and a read of an open pipe *)
(* does not fail.                                                          *)
(***************************************************************************)
EXTENDS Naturals

CONSTANTS Streams,   (* {"stdout", "stderr"}                               *)
          First,     (* the stream whose text is collected first           *)
          Capacity,  (* chunks a pipe holds                                *)
          Output     (* chunks a process writes to a stream (bound)        *)

ASSUME SolverAssumption ==
  /\ \E Second \in Streams : Streams = {First, Second}
  /\ Capacity \in Nat \ {0} /\ Output \in Nat

VARIABLES
  setting,   (* family: the processes; stuck: those that never exit;       *)
             (* limited: the deadline can arrive                           *)
  alive,     (* processes that run, and so hold the pipes open             *)
  left,      (* chunks a process has still to write to a stream            *)
  pipe,      (* chunks in the pipe of a stream                             *)
  reader,    (* where the reader of a stream is                            *)
  hold,      (* the chunk the reader has read and not appended             *)
  shared,    (* the buffer the reader and the live map share               *)
  returned,  (* what the reader thread returned                            *)
  late,      (* the deadline has passed                                    *)
  sup,       (* where the supervisor is                                    *)
  current,   (* the stream whose text is being collected                   *)
  graceOver, (* DRAIN_GRACE has passed for it                              *)
  captured,  (* history: the buffer of a stream when its grace was over    *)
  outcome,   (* DeadlineWait                                               *)
  text       (* the text of a stream: its length and whether it is noted   *)

toolVars   == <<alive, left>>
readerVars == <<reader, hold, shared, returned>>
graceVars  == <<current, graceOver, captured>>
supVars    == <<sup, graceVars, outcome, text>>
vars == <<setting, toolVars, pipe, readerVars, late, supVars>>

Processes == {"child", "descendant"}

Written(s) ==
  IF "descendant" \in setting.family
    THEN (Output - left["child"][s]) + (Output - left["descendant"][s])
    ELSE Output - left["child"][s]

(* The tool is a process alone or a launcher with a descendant; either may *)
(* never exit.  The pipes are open when the supervisor starts to drain.    *)
Init ==
  /\ setting \in [limited : BOOLEAN, family : {{"child"}, Processes},
                  stuck : SUBSET Processes]
  /\ setting.stuck \subseteq setting.family
  /\ alive = setting.family
  /\ left = [p \in Processes |-> [s \in Streams |-> Output]]
  /\ pipe = [s \in Streams |-> 0]
  /\ reader = [s \in Streams |-> "unstarted"]
  /\ hold = [s \in Streams |-> 0]
  /\ shared = [s \in Streams |-> 0]
  /\ returned = [s \in Streams |-> 0]
  /\ late = FALSE
  /\ sup = "drain" /\ current = First /\ graceOver = FALSE
  /\ captured = [s \in Streams |-> 0]
  /\ outcome = "none"
  /\ text = [s \in Streams |-> [length |-> 0, noted |-> FALSE]]

-----------------------------------------------------------------------------
(* The tool. *)

(* A write blocks while the pipe is full. *)
Write(p, s) ==
  /\ p \in alive /\ left[p][s] > 0 /\ pipe[s] < Capacity
  /\ left' = [left EXCEPT ![p][s] = @ - 1]
  /\ pipe' = [pipe EXCEPT ![s] = @ + 1]
  /\ UNCHANGED <<setting, alive, readerVars, late, supVars>>

(* A process that has written everything exits, unless it hangs. *)
Exit(p) ==
  /\ p \in alive \ setting.stuck
  /\ \A s \in Streams : left[p][s] = 0
  /\ alive' = alive \ {p}
  /\ UNCHANGED <<setting, left, pipe, readerVars, late, supVars>>

Tool(p) == Exit(p) \/ \E s \in Streams : Write(p, s)

-----------------------------------------------------------------------------
(* The reader thread of a stream. *)

(* One `read`: a chunk, or end-of-stream once no process holds the pipe. *)
Read(s) ==
  /\ reader[s] = "read"
  /\ \/ /\ pipe[s] > 0
        /\ pipe' = [pipe EXCEPT ![s] = @ - 1]
        /\ hold' = [hold EXCEPT ![s] = 1]
        /\ reader' = [reader EXCEPT ![s] = "append"]
     \/ /\ pipe[s] = 0 /\ alive = {}
        /\ reader' = [reader EXCEPT ![s] = "take"]
        /\ UNCHANGED <<pipe, hold>>
  /\ UNCHANGED <<setting, toolVars, shared, returned, late, supVars>>

(* Wrong variant, for mutation: one read is thought to be the whole text. *)
AfterAppend_OneRead == "take"
AfterAppend         == "read"

(* Wrong variant, for mutation: a chunk replaces the buffer. *)
Appended_Replaced(s) == hold[s]
Appended(s)          == shared[s] + hold[s]

Append(s) ==
  /\ reader[s] = "append"
  /\ shared' = [shared EXCEPT ![s] = Appended(s)]
  /\ hold' = [hold EXCEPT ![s] = 0]
  /\ reader' = [reader EXCEPT ![s] = AfterAppend]
  /\ UNCHANGED <<setting, toolVars, pipe, returned, late, supVars>>

(* `mem::take`: the buffer moves into the thread's result. *)
Take(s) ==
  /\ reader[s] = "take"
  /\ returned' = [returned EXCEPT ![s] = shared[s]]
  /\ shared' = [shared EXCEPT ![s] = 0]
  /\ reader' = [reader EXCEPT ![s] = "returning"]
  /\ UNCHANGED <<setting, toolVars, pipe, hold, late, supVars>>

(* From here on `is_finished` is true. *)
Finish(s) ==
  /\ reader[s] = "returning"
  /\ reader' = [reader EXCEPT ![s] = "finished"]
  /\ UNCHANGED <<setting, toolVars, pipe, hold, shared, returned, late,
                 supVars>>

Reader(s) == Read(s) \/ Append(s) \/ Take(s) \/ Finish(s)

-----------------------------------------------------------------------------
(* The clocks. *)

DeadlinePasses ==
  /\ setting.limited /\ ~late
  /\ late' = TRUE
  /\ UNCHANGED <<setting, toolVars, pipe, readerVars, supVars>>

GracePasses ==
  /\ sup = "grace" /\ ~graceOver
  /\ graceOver' = TRUE
  /\ UNCHANGED <<setting, toolVars, pipe, readerVars, late, sup, current,
                 captured, outcome, text>>

-----------------------------------------------------------------------------
(* The supervisor. *)

supFrame == <<setting, left, pipe, hold, shared, returned, late>>

(* A reader is started on each pipe before the wait begins. *)
Drain ==
  /\ sup = "drain"
  /\ reader' = [s \in Streams |-> "read"]
  /\ sup' = "poll"
  /\ UNCHANGED <<supFrame, alive, graceVars, outcome, text>>

(* `try_wait`: an exit is believed even past the deadline. *)
Poll ==
  /\ sup = "poll"
  /\ IF "child" \in alive
       THEN sup' \in {"check", "pollFailed"} /\ UNCHANGED outcome
       ELSE sup' = "open" /\ outcome' = "exited"
  /\ UNCHANGED <<supFrame, reader, alive, graceVars, text>>

Check ==
  /\ sup = "check"
  /\ sup' = IF late THEN "timedOut" ELSE "poll"
  /\ UNCHANGED <<supFrame, reader, alive, graceVars, outcome, text>>

(* Wrong variant, for mutation: the kill reaches the immediate child only. *)
Survivors_Descendant == alive \ {"child"}
Survivors            == {}

(* `stop_process_tree`; the caller reports the failure and reads nothing. *)
StopTree ==
  /\ sup \in {"timedOut", "pollFailed"}
  /\ alive' = Survivors
  /\ outcome' = sup
  /\ sup' = "done"
  /\ UNCHANGED <<supFrame, reader, graceVars, text>>

(* `drained_text` takes the stream's buffer out of the live map and starts *)
(* its grace.                                                              *)
OpenText ==
  /\ sup = "open"
  /\ graceOver' = FALSE
  /\ sup' = "grace"
  /\ UNCHANGED <<supFrame, reader, alive, current, captured, outcome, text>>

(* Wrong variant, for mutation: the wait for the reader has no bound. *)
GraceDone_Unbounded == reader[current] = "finished"
GraceDone           == reader[current] = "finished" \/ graceOver

GraceEnds ==
  /\ sup = "grace" /\ GraceDone
  /\ captured' = [captured EXCEPT ![current] = shared[current]]
  /\ sup' = "second"
  /\ UNCHANGED <<supFrame, reader, alive, current, graceOver, outcome, text>>

(* Every stream has its text, or the second one is next. *)
NextStream ==
  IF current = First /\ Streams # {First}
    THEN sup' = "open" /\ current' \in Streams \ {First}
    ELSE sup' = "done" /\ UNCHANGED current

(* Wrong variant, for mutation: the buffer is read instead of the result. *)
Joined_Shared == shared[current]
Joined        == returned[current]

(* The second look at `is_finished`. *)
JoinReader ==
  /\ sup = "second" /\ reader[current] = "finished"
  /\ text' = [text EXCEPT ![current] = [length |-> Joined, noted |-> FALSE]]
  /\ NextStream
  /\ UNCHANGED <<supFrame, reader, alive, graceOver, captured, outcome>>

StillOpen ==
  /\ sup = "second" /\ reader[current] # "finished"
  /\ sup' = "clone"
  /\ UNCHANGED <<supFrame, reader, alive, graceVars, outcome, text>>

(* What the buffer holds now, with the note; the reader is left detached. *)
CloneBuffer ==
  /\ sup = "clone"
  /\ text' = [text EXCEPT ![current] = [length |-> shared[current],
                                        noted |-> TRUE]]
  /\ NextStream
  /\ UNCHANGED <<supFrame, reader, alive, graceOver, captured, outcome>>

Supervisor == \/ Drain \/ Poll \/ Check \/ StopTree
              \/ OpenText \/ GraceEnds \/ JoinReader \/ StillOpen
              \/ CloneBuffer

Next == \/ \E p \in Processes : Tool(p)
        \/ \E s \in Streams : Reader(s)
        \/ DeadlinePasses \/ GracePasses
        \/ Supervisor

Spec == Init /\ [][Next]_vars

(* Every thread runs on, a process that can write or exit does, and time   *)
(* passes.                                                                 *)
FairSpec ==
  /\ Spec
  /\ WF_vars(Supervisor) /\ WF_vars(DeadlinePasses) /\ WF_vars(GracePasses)
  /\ \A s \in Streams : WF_vars(Reader(s))
  /\ \A p \in Processes : WF_vars(Tool(p))

-----------------------------------------------------------------------------
(* Properties. *)

(* The state is one of the program's; a pipe never overfills, and every    *)
(* chunk written is in the pipe, with the reader or in one buffer, or has  *)
(* been returned.                                                          *)
TypeOK ==
  /\ alive \subseteq Processes /\ late \in BOOLEAN /\ graceOver \in BOOLEAN
  /\ left \in [Processes -> [Streams -> 0..Output]]
  /\ pipe \in [Streams -> 0..Capacity]
  /\ reader \in [Streams -> {"unstarted", "read", "append", "take",
                             "returning", "finished"}]
  /\ hold \in [Streams -> {0, 1}]
  /\ shared \in [Streams -> Nat] /\ returned \in [Streams -> Nat]
  /\ captured \in [Streams -> Nat]
  /\ sup \in {"drain", "poll", "check", "timedOut", "pollFailed", "open",
              "grace", "second", "clone", "done"}
  /\ current \in Streams
  /\ outcome \in {"none", "exited", "timedOut", "pollFailed"}
  /\ text \in [Streams -> [length : Nat, noted : BOOLEAN]]
  /\ \A s \in Streams :
       Written(s) = pipe[s] + hold[s] + shared[s] + returned[s]

(* Text that carries no note is the tool's whole output: the process and   *)
(* everything it left behind had written it all and closed the pipe.       *)
TextWithoutNoteIsWhole ==
  sup = "done" /\ outcome = "exited" =>
    \A s \in Streams : ~text[s].noted =>
      text[s].length = Written(s) /\ alive = {}

(* A run reported as timed out or unpollable has been stopped: neither the *)
(* launcher nor the solver it forked runs on.                              *)
StoppedRunIsDead ==
  sup = "done" /\ outcome \in {"timedOut", "pollFailed"} => alive = {}

(* The supervisor returns whenever the tool ends or has a deadline, though *)
(* a descendant may keep the pipes open for ever.                          *)
EveryRunReturns ==
  (setting.limited \/ "child" \notin setting.stuck) => <>(sup = "done")

(* A tool that would exit does, however much it prints and with no         *)
(* deadline to end it: no pipe fills for good, also not the one nobody     *)
(* looks at first.                                                         *)
ToolIsNeverStalled ==
  "child" \notin setting.stuck => <>("child" \notin alive)

(***************************************************************************)
(* What the documentation of drained_text says: a reader that is not done  *)
(* when its grace is over still yields the bytes captured so far.  It may  *)
(* reach end-of-stream and take the buffer between the second look at it   *)
(* and the copy of the buffer.                                             *)
(***************************************************************************)
CapturedBytesAreReturned ==
  sup = "done" =>
    \A s \in Streams : text[s].noted => text[s].length >= captured[s]
=============================================================================
