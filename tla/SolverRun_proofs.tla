------------------------- MODULE SolverRun_proofs -------------------------
(***************************************************************************)
(* Proofs about SolverRun, for every amount of output and every capacity   *)
(* of the pipes.                                                           *)
(*                                                                         *)
(* TypeOK alone is not inductive: that no chunk is lost or counted twice   *)
(* takes where a chunk can be at each place of the reader (ReaderInv), and *)
(* that the text is whole takes which streams have been collected when     *)
(* (TextInv), and that a reader at end-of-stream leaves no writer.         *)
(***************************************************************************)
EXTENDS SolverRun, TLAPS

Waiting    == {"drain", "poll", "check", "timedOut", "pollFailed"}
Collecting == {"open", "grace", "second", "clone"}

(* Only processes of the family run, and the launched one is of it. *)
FamilyInv ==
  /\ "child" \in setting.family /\ alive \subseteq setting.family

ReaderInv ==
  \A s \in Streams :
    /\ sup = "drain" => reader[s] = "unstarted"
    /\ reader[s] # "append" => hold[s] = 0
    /\ reader[s] \in {"unstarted", "read", "append", "take"} => returned[s] = 0
    /\ reader[s] \in {"returning", "finished"} => shared[s] = 0
    /\ reader[s] \in {"take", "returning", "finished"} => pipe[s] = 0 /\ alive = {}

(* The streams whose text has been decided on. *)
Collected(s) ==
  \/ sup = "done" /\ outcome = "exited"
  \/ sup \in Collecting /\ current # First /\ s = First

TextInv ==
  /\ sup \in Waiting => outcome = "none" /\ current = First
  /\ sup \in Collecting => outcome = "exited"
  /\ outcome \in {"timedOut", "pollFailed"} => alive = {}
  /\ \A s \in Streams : Collected(s) =>
       text[s].noted \/ (text[s].length = Written(s) /\ alive = {})

RunInv == TypeOK /\ FamilyInv /\ ReaderInv /\ TextInv

LEMMA TwoStreams == First \in Streams /\ \E t \in Streams : Streams = {First, t}
BY SolverAssumption

-----------------------------------------------------------------------------

LEMMA InitRun == Init => RunInv
<1> SUFFICES ASSUME Init PROVE RunInv OBVIOUS
<1>1. TypeOK
  <2>1. \A s \in Streams : Written(s) = 0
    <3> TAKE s \in Streams
    <3>1. left["child"][s] = Output /\ left["descendant"][s] = Output BY DEF Init, Processes
    <3>2. Output \in Nat BY SolverAssumption
    <3> QED BY <3>1, <3>2 DEF Written
  <2>2. \A s \in Streams : Written(s) = pipe[s] + hold[s] + shared[s] + returned[s]
    <3> TAKE s \in Streams
    <3>1. pipe[s] = 0 /\ hold[s] = 0 /\ shared[s] = 0 /\ returned[s] = 0 BY DEF Init
    <3> QED BY <2>1, <3>1
  <2>3. alive \subseteq Processes /\ left \in [Processes -> [Streams -> 0..Output]]
        /\ pipe \in [Streams -> 0..Capacity]
    BY SolverAssumption DEF Init, Processes
  <2> QED BY <2>2, <2>3, TwoStreams DEF Init, TypeOK
<1>2. FamilyInv BY DEF Init, FamilyInv, Processes
<1>3. ReaderInv BY DEF Init, ReaderInv
<1>4. TextInv BY DEF Init, TextInv, Collected, Waiting, Collecting
<1> QED BY <1>1, <1>2, <1>3, <1>4 DEF RunInv

(* A chunk written goes from what is left into the pipe; the text of a     *)
(* stream that is decided on has no writer any more.                       *)
LEMMA WriteKeeps ==
  ASSUME RunInv, NEW p \in Processes, NEW s \in Streams, Write(p, s)
  PROVE  RunInv'
<1> USE DEF RunInv
<1>1. left' = [left EXCEPT ![p] = [left[p] EXCEPT ![s] = left[p][s] - 1]]
      /\ pipe' = [pipe EXCEPT ![s] = pipe[s] + 1]
      /\ p \in alive /\ left[p][s] > 0 /\ pipe[s] < Capacity
  BY DEF Write
<1>2. UNCHANGED <<setting, alive, readerVars, late, supVars>> BY DEF Write
<1>3. TypeOK'
  <2>1. left' \in [Processes -> [Streams -> 0..Output]]
    BY <1>1, SolverAssumption DEF TypeOK
  <2>2. pipe' \in [Streams -> 0..Capacity] BY <1>1, SolverAssumption DEF TypeOK
  <2>3. ASSUME NEW t \in Streams
        PROVE  Written(t)' = pipe'[t] + hold'[t] + shared'[t] + returned'[t]
    <3>1. Written(t) = pipe[t] + hold[t] + shared[t] + returned[t] BY DEF TypeOK
    <3>2. UNCHANGED <<setting, hold, shared, returned>> BY <1>2 DEF readerVars
    <3>3. left \in [Processes -> [Streams -> 0..Output]] /\ pipe \in [Streams -> 0..Capacity]
          /\ hold[t] \in Nat /\ shared[t] \in Nat /\ returned[t] \in Nat
      BY DEF TypeOK
    <3>4. CASE t # s
      <4>1. pipe'[t] = pipe[t] /\ left'["child"][t] = left["child"][t]
            /\ left'["descendant"][t] = left["descendant"][t]
        BY <1>1, <3>3, <3>4 DEF Processes
      <4> QED BY <3>1, <3>2, <4>1 DEF Written
    <3>5. CASE t = s
      <4>1. p \in setting.family BY <1>1 DEF FamilyInv
      <4>2. pipe'[t] = pipe[t] + 1 BY <1>1, <3>3, <3>5
      <4>3. left'[p][t] = left[p][t] - 1 /\ \A q \in Processes : q # p => left'[q] = left[q]
        BY <1>1, <3>3, <3>5
      <4>4. CASE p = "child"
        BY <3>1, <3>2, <3>3, <4>2, <4>3, <4>4, SolverAssumption DEF Written, Processes
      <4>5. CASE p = "descendant"
        BY <3>1, <3>2, <3>3, <4>1, <4>2, <4>3, <4>5, SolverAssumption DEF Written, Processes
      <4> QED BY <4>4, <4>5 DEF Processes
    <3> QED BY <3>4, <3>5
  <2> QED BY <1>2, <2>1, <2>2, <2>3 DEF TypeOK, readerVars, supVars, graceVars
<1>4. FamilyInv' BY <1>2 DEF FamilyInv
<1>5. alive # {} BY <1>1
<1>6. ReaderInv' BY <1>1, <1>2, <1>5 DEF ReaderInv, TypeOK, readerVars, supVars
<1>7. TextInv'
  BY <1>2, <1>5 DEF TextInv, Collected, supVars, graceVars
<1> QED BY <1>3, <1>4, <1>6, <1>7

LEMMA ExitKeeps ==
  ASSUME RunInv, NEW p \in Processes, Exit(p)
  PROVE  RunInv'
<1> USE DEF RunInv
<1>1. alive' = alive \ {p} /\ UNCHANGED <<setting, left, pipe, readerVars, late, supVars>>
  BY DEF Exit
<1>2. TypeOK' BY <1>1 DEF TypeOK, Written, readerVars, supVars, graceVars
<1>3. FamilyInv' BY <1>1 DEF FamilyInv
<1>4. ReaderInv' BY <1>1 DEF ReaderInv, readerVars, supVars
<1>5. TextInv' BY <1>1 DEF TextInv, Collected, Written, supVars, graceVars
<1> QED BY <1>2, <1>3, <1>4, <1>5

(* A reader moves a chunk on: from the pipe to its hand, into the shared   *)
(* buffer, and with the buffer into its result.                            *)
LEMMA ReaderKeeps ==
  ASSUME RunInv, NEW s \in Streams, Reader(s)
  PROVE  RunInv'
<1> USE DEF RunInv
<1>1. UNCHANGED <<setting, alive, left, late, supVars, sup>>
  BY DEF Reader, Read, Append, Take, Finish, toolVars, supVars
<1>2. FamilyInv' BY <1>1 DEF FamilyInv
<1>3. TextInv' BY <1>1 DEF TextInv, Collected, Written, supVars, graceVars
<1>4. ASSUME /\ pipe' \in [Streams -> 0..Capacity]
             /\ reader' \in [Streams -> {"unstarted", "read", "append", "take",
                                         "returning", "finished"}]
             /\ hold' \in [Streams -> {0, 1}]
             /\ shared' \in [Streams -> Nat] /\ returned' \in [Streams -> Nat]
             /\ \A t \in Streams : pipe'[t] + hold'[t] + shared'[t] + returned'[t]
                                   = pipe[t] + hold[t] + shared[t] + returned[t]
      PROVE  TypeOK'
  <2>1. \A t \in Streams : Written(t)' = Written(t) BY <1>1 DEF Written
  <2>2. \A t \in Streams : Written(t)' = pipe'[t] + hold'[t] + shared'[t] + returned'[t]
    BY <1>4, <2>1 DEF TypeOK
  <2> QED BY <1>1, <1>4, <2>2 DEF TypeOK, supVars, graceVars
<1>5. CASE Read(s)
  <2>1. CASE /\ pipe[s] > 0
             /\ pipe' = [pipe EXCEPT ![s] = @ - 1]
             /\ hold' = [hold EXCEPT ![s] = 1]
             /\ reader' = [reader EXCEPT ![s] = "append"]
    <3>1. hold[s] = 0 /\ returned[s] = 0 BY <1>5 DEF Read, ReaderInv
    <3>2. UNCHANGED <<shared, returned>> BY <1>5 DEF Read
    <3>3. TypeOK' BY <1>4, <2>1, <3>1, <3>2, SolverAssumption DEF TypeOK
    <3>4. ReaderInv' BY <1>1, <1>5, <2>1, <3>1, <3>2 DEF Read, ReaderInv, TypeOK
    <3> QED BY <1>2, <1>3, <3>3, <3>4
  <2>2. CASE /\ pipe[s] = 0 /\ alive = {}
             /\ reader' = [reader EXCEPT ![s] = "take"]
             /\ UNCHANGED <<pipe, hold>>
    <3>1. UNCHANGED <<shared, returned>> BY <1>5 DEF Read
    <3>2. TypeOK' BY <1>4, <2>2, <3>1 DEF TypeOK
    <3>3. ReaderInv' BY <1>1, <1>5, <2>2, <3>1 DEF Read, ReaderInv, TypeOK
    <3> QED BY <1>2, <1>3, <3>2, <3>3
  <2> QED BY <1>5, <2>1, <2>2 DEF Read
<1>6. CASE Append(s)
  <2>1. /\ reader[s] = "append"
        /\ shared' = [shared EXCEPT ![s] = shared[s] + hold[s]]
        /\ hold' = [hold EXCEPT ![s] = 0]
        /\ reader' = [reader EXCEPT ![s] = "read"]
        /\ UNCHANGED <<pipe, returned>>
    BY <1>6 DEF Append, Appended, AfterAppend
  <2>2. TypeOK' BY <1>4, <2>1, SolverAssumption DEF TypeOK
  <2>3. ReaderInv' BY <1>1, <2>1 DEF ReaderInv, TypeOK
  <2> QED BY <1>2, <1>3, <2>2, <2>3
<1>7. CASE Take(s)
  <2>1. /\ reader[s] = "take"
        /\ returned' = [returned EXCEPT ![s] = shared[s]]
        /\ shared' = [shared EXCEPT ![s] = 0]
        /\ reader' = [reader EXCEPT ![s] = "returning"]
        /\ UNCHANGED <<pipe, hold>>
    BY <1>7 DEF Take
  <2>2. returned[s] = 0 /\ hold[s] = 0 /\ pipe[s] = 0 /\ alive = {} BY <2>1 DEF ReaderInv
  <2>3. TypeOK' BY <1>4, <2>1, <2>2 DEF TypeOK
  <2>4. ReaderInv' BY <1>1, <2>1, <2>2 DEF ReaderInv, TypeOK
  <2> QED BY <1>2, <1>3, <2>3, <2>4
<1>8. CASE Finish(s)
  <2>1. /\ reader[s] = "returning" /\ reader' = [reader EXCEPT ![s] = "finished"]
        /\ UNCHANGED <<pipe, hold, shared, returned>>
    BY <1>8 DEF Finish
  <2>2. TypeOK' BY <1>4, <2>1 DEF TypeOK
  <2>3. ReaderInv' BY <1>1, <2>1 DEF ReaderInv, TypeOK
  <2> QED BY <1>2, <1>3, <2>2, <2>3
<1> QED BY <1>5, <1>6, <1>7, <1>8 DEF Reader

LEMMA ClockKeeps == RunInv /\ (DeadlinePasses \/ GracePasses) => RunInv'
<1> SUFFICES ASSUME RunInv, DeadlinePasses \/ GracePasses PROVE RunInv' OBVIOUS
<1> USE DEF RunInv
<1>1. /\ UNCHANGED <<setting, alive, left, pipe, readerVars, sup, current, captured,
                     outcome, text>>
      /\ late' \in BOOLEAN /\ graceOver' \in BOOLEAN
  BY DEF DeadlinePasses, GracePasses, toolVars, supVars, graceVars, TypeOK
<1>2. TypeOK' BY <1>1 DEF TypeOK, Written, readerVars
<1>3. FamilyInv' /\ ReaderInv' BY <1>1 DEF FamilyInv, ReaderInv, readerVars
<1>4. TextInv' BY <1>1 DEF TextInv, Collected, Written
<1> QED BY <1>2, <1>3, <1>4

-----------------------------------------------------------------------------
(* The supervisor. *)

(* It never touches the chunks, only where they are looked at. *)
LEMMA SupervisorFrame ==
  ASSUME RunInv, UNCHANGED <<supFrame, reader>>, alive' \subseteq alive,
         /\ graceOver' \in BOOLEAN /\ current' \in Streams
         /\ sup' \in Waiting \cup Collecting \cup {"done"} /\ sup' # "drain"
         /\ outcome' \in {"none", "exited", "timedOut", "pollFailed"}
         /\ captured' \in [Streams -> Nat]
         /\ text' \in [Streams -> [length : Nat, noted : BOOLEAN]]
  PROVE  TypeOK' /\ FamilyInv' /\ ReaderInv' /\ (\A s \in Streams : Written(s)' = Written(s))
<1> USE DEF RunInv, supFrame
<1>1. \A s \in Streams : Written(s)' = Written(s) BY DEF Written
<1>2. TypeOK' BY <1>1 DEF TypeOK, Waiting, Collecting
<1>3. FamilyInv' /\ ReaderInv' BY DEF FamilyInv, ReaderInv
<1> QED BY <1>1, <1>2, <1>3

(* A text is decided on: the second stream's, or the only one's, is the    *)
(* last.                                                                   *)
LEMMA TextDecided ==
  ASSUME RunInv, sup \in Collecting,
         UNCHANGED <<supFrame, reader, alive, graceOver, captured, outcome>>, NextStream,
         NEW length \in Nat, NEW noted \in BOOLEAN,
         text' = [text EXCEPT ![current] = [length |-> length, noted |-> noted]],
         noted \/ (length = Written(current) /\ alive = {})
  PROVE  RunInv'
<1> USE DEF RunInv
<1>1. current \in Streams /\ outcome = "exited" BY DEF TypeOK, TextInv
<1>2. \/ current = First /\ sup' = "open" /\ current' \in Streams \ {First}
      \/ (current # First \/ Streams = {First}) /\ sup' = "done" /\ current' = current
  BY DEF NextStream
<1>3. TypeOK' /\ FamilyInv' /\ ReaderInv' /\ (\A s \in Streams : Written(s)' = Written(s))
  <2>1. text' \in [Streams -> [length : Nat, noted : BOOLEAN]] BY <1>1 DEF TypeOK
  <2>2. current' \in Streams /\ sup' \in Waiting \cup Collecting \cup {"done"}
        /\ sup' # "drain"
    BY <1>1, <1>2 DEF Collecting
  <2>3. graceOver' \in BOOLEAN /\ captured' \in [Streams -> Nat]
        /\ outcome' \in {"none", "exited", "timedOut", "pollFailed"}
    BY DEF TypeOK
  <2>4. UNCHANGED <<supFrame, reader>> /\ alive' \subseteq alive OBVIOUS
  <2> QED BY <2>1, <2>2, <2>3, <2>4, SupervisorFrame
<1>4. ASSUME NEW s \in Streams, Collected(s)'
      PROVE  text'[s].noted \/ (text'[s].length = Written(s)' /\ alive' = {})
  <2>0. Written(s)' = Written(s) BY <1>3
  <2>1. CASE s = current
    <3>1. text'[s] = [length |-> length, noted |-> noted] BY <1>1, <2>1 DEF TypeOK
    <3> QED BY <2>0, <2>1, <3>1
  <2>2. CASE s # current
    <3>1. text'[s] = text[s] BY <1>1, <2>2 DEF TypeOK
    <3>2. s = First /\ current # First
      <4>1. CASE sup' = "open" BY <1>2, <1>4, <2>2, <4>1 DEF Collected, Collecting
      <4>2. CASE sup' = "done" BY <1>1, <1>2, <2>2, <4>2, TwoStreams
      <4> QED BY <1>2, <4>1, <4>2
    <3>3. text[s].noted \/ (text[s].length = Written(s) /\ alive = {})
      BY <3>2 DEF Collected, TextInv
    <3> QED BY <2>0, <3>1, <3>3
  <2> QED BY <2>1, <2>2
<1>5. TextInv'
  <2>1. sup' \notin Waiting BY <1>2 DEF Waiting
  <2> QED BY <1>1, <1>4, <2>1 DEF TextInv
<1> QED BY <1>3, <1>5

LEMMA SupervisorKeeps == RunInv /\ Supervisor => RunInv'
<1> SUFFICES ASSUME RunInv, Supervisor PROVE RunInv' OBVIOUS
<1> USE DEF RunInv
<1>0. ASSUME UNCHANGED <<supFrame, reader, alive, current, text>>, sup' \notin {"drain", "done"},
             graceOver' \in BOOLEAN, captured' \in [Streams -> Nat],
             \/ sup \in Waiting /\ sup' \in Waiting /\ UNCHANGED outcome
             \/ sup \in Waiting /\ sup' = "open" /\ outcome' = "exited"
             \/ sup \in Collecting /\ sup' \in Collecting /\ UNCHANGED outcome
      PROVE  RunInv'
  <2>1. TypeOK' /\ FamilyInv' /\ ReaderInv' /\ (\A s \in Streams : Written(s)' = Written(s))
    <3>1. outcome' \in {"none", "exited", "timedOut", "pollFailed"} BY <1>0 DEF TypeOK
    <3>2. sup' \in Waiting \cup Collecting \cup {"done"} BY <1>0 DEF Collecting
    <3>3. text' \in [Streams -> [length : Nat, noted : BOOLEAN]] /\ current' \in Streams
      BY <1>0 DEF TypeOK
    <3>4. UNCHANGED <<supFrame, reader>> /\ alive' \subseteq alive BY <1>0
    <3> QED BY <1>0, <3>1, <3>2, <3>3, <3>4, SupervisorFrame
  <2>2. TextInv'
    BY <1>0, <2>1 DEF TextInv, Collected, Waiting, Collecting
  <2> QED BY <2>1, <2>2
<1>1. CASE Drain
  <2>1. /\ reader' = [s \in Streams |-> "read"] /\ sup = "drain" /\ sup' = "poll"
        /\ UNCHANGED <<supFrame, alive, graceVars, outcome, text>>
    BY <1>1 DEF Drain
  <2>2. TypeOK' BY <2>1 DEF TypeOK, Written, supFrame, graceVars
  <2>3. FamilyInv' BY <2>1 DEF FamilyInv, supFrame
  <2>4. ReaderInv' 
    <3>1. \A s \in Streams : hold[s] = 0 /\ returned[s] = 0 BY <2>1 DEF ReaderInv
    <3> QED BY <2>1, <3>1 DEF ReaderInv, supFrame
  <2>5. TextInv' BY <2>1 DEF TextInv, Collected, Written, supFrame, graceVars, Waiting, Collecting
  <2> QED BY <2>2, <2>3, <2>4, <2>5
<1>2. CASE Poll
  <2>1. CASE "child" \in alive
    BY <1>0, <1>2, <2>1 DEF Poll, Waiting, supFrame, graceVars, TypeOK
  <2>2. CASE "child" \notin alive
    BY <1>0, <1>2, <2>2 DEF Poll, Waiting, supFrame, graceVars, TypeOK
  <2> QED BY <2>1, <2>2
<1>3. CASE Check BY <1>0, <1>3 DEF Check, Waiting, supFrame, graceVars, TypeOK
<1>4. CASE StopTree
  <2>1. /\ sup \in {"timedOut", "pollFailed"} /\ alive' = {} /\ outcome' = sup
        /\ sup' = "done" /\ UNCHANGED <<supFrame, reader, graceVars, text>>
    BY <1>4 DEF StopTree, Survivors
  <2>2. TypeOK' /\ FamilyInv' /\ ReaderInv'
    BY <2>1, SupervisorFrame DEF TypeOK, graceVars
  <2>3. TextInv' BY <2>1 DEF TextInv, Collected, Waiting, Collecting, graceVars
  <2> QED BY <2>2, <2>3
<1>5. CASE OpenText BY <1>0, <1>5 DEF OpenText, Collecting, TypeOK
<1>6. CASE GraceEnds
  <2>1. captured' \in [Streams -> Nat] BY <1>6 DEF GraceEnds, TypeOK
  <2> QED BY <1>0, <1>6, <2>1 DEF GraceEnds, Collecting, TypeOK
<1>7. CASE JoinReader
  <2>1. sup \in Collecting /\ reader[current] = "finished" /\ current \in Streams
    BY <1>7 DEF JoinReader, Collecting, TypeOK
  <2>2. returned[current] \in Nat /\ returned[current] = Written(current) /\ alive = {}
    BY <2>1 DEF TypeOK, ReaderInv
  <2>3. text' = [text EXCEPT ![current] = [length |-> returned[current], noted |-> FALSE]]
    BY <1>7 DEF JoinReader, Joined
  <2> QED BY <1>7, <2>1, <2>2, <2>3, TextDecided DEF JoinReader
<1>8. CASE StillOpen BY <1>0, <1>8 DEF StillOpen, Collecting, supFrame, graceVars, TypeOK
<1>9. CASE CloneBuffer
  <2>1. sup \in Collecting /\ shared[current] \in Nat
    BY <1>9 DEF CloneBuffer, Collecting, TypeOK
  <2>2. text' = [text EXCEPT ![current] = [length |-> shared[current], noted |-> TRUE]]
    BY <1>9 DEF CloneBuffer
  <2> QED BY <1>9, <2>1, <2>2, TextDecided DEF CloneBuffer
<1> QED BY <1>1, <1>2, <1>3, <1>4, <1>5, <1>6, <1>7, <1>8, <1>9 DEF Supervisor

LEMMA StepRun == RunInv /\ [Next]_vars => RunInv'
<1> SUFFICES ASSUME RunInv, [Next]_vars PROVE RunInv' OBVIOUS
<1>1. ASSUME NEW p \in Processes, Tool(p) PROVE RunInv'
  BY <1>1, WriteKeeps, ExitKeeps DEF Tool
<1>2. ASSUME NEW s \in Streams, Reader(s) PROVE RunInv' BY <1>2, ReaderKeeps
<1>3. CASE DeadlinePasses \/ GracePasses BY <1>3, ClockKeeps
<1>4. CASE Supervisor BY <1>4, SupervisorKeeps
<1>5. CASE UNCHANGED vars
  <2>1. /\ TypeOK' <=> TypeOK
        /\ FamilyInv' <=> FamilyInv
        /\ ReaderInv' <=> ReaderInv
    BY <1>5 DEF vars, toolVars, readerVars, supVars, graceVars, TypeOK, Written, FamilyInv,
                ReaderInv
  <2>2. TextInv'
    BY <1>5 DEF RunInv, vars, toolVars, supVars, graceVars, TextInv, Collected, Written
  <2> QED BY <2>1, <2>2 DEF RunInv
<1> QED BY <1>1, <1>2, <1>3, <1>4, <1>5 DEF Next

THEOREM SafeRun == Spec => []RunInv
BY InitRun, StepRun, PTL DEF Spec

(* TypeOK: at every moment each chunk the processes have written is in     *)
(* exactly one place, and no pipe overfills (process.rs, drain).           *)
THEOREM TypeTheorem == Spec => []TypeOK
<1>1. RunInv => TypeOK BY DEF RunInv
<1> QED BY <1>1, SafeRun, PTL

(* TextWithoutNoteIsWhole: text that carries no note is everything every   *)
(* process of the tool wrote, and none of them lives (process.rs,          *)
(* drained_text).                                                          *)
THEOREM TextTheorem == Spec => []TextWithoutNoteIsWhole
<1>1. RunInv => TextWithoutNoteIsWhole
  BY DEF RunInv, TextInv, Collected, TextWithoutNoteIsWhole
<1> QED BY <1>1, SafeRun, PTL

(* StoppedRunIsDead: a run that was given up leaves no process of the      *)
(* family behind (process.rs, stop_process_tree).                          *)
THEOREM StoppedTheorem == Spec => []StoppedRunIsDead
<1>1. RunInv => StoppedRunIsDead BY DEF RunInv, TextInv, StoppedRunIsDead
<1> QED BY <1>1, SafeRun, PTL
=============================================================================
