------------------------- MODULE ToolCache_proofs -------------------------
(***************************************************************************)
(* Proofs about ToolCache, for every number of threads and invocations,    *)
(* in one process or in several, with a crash at any step.                 *)
(*                                                                         *)
(* OnlyAHalfRestoreChangesARun speaks of the end of an invocation; DirInv  *)
(* says what its directory holds on the way there.  Of the disk, OpenInv   *)
(* says which directories a file is open in, ContentInv what can be in any *)
(* file, and AloneInv how far a store and a restore have come when every   *)
(* process has one thread.                                                 *)
(***************************************************************************)
EXTENDS ToolCache, WellFoundedInduction, NaturalsInduction, TLAPS

IsOnThreads(f) == f = [t \in Threads |-> f[t]]

AfterRun == {"ran", "put", "manifest", "rename", "ok"}

(* A thread about to run the tool finds the directory the caller prepared, *)
(* and one behind a run what the tool leaves, unless a restore changed it. *)
DirInv ==
  /\ setting.caller \in {"avl", "listed", "whole"}
  /\ IsOnThreads(pc) /\ IsOnThreads(dir) /\ IsOnThreads(before) /\ IsOnThreads(half)
  /\ \A t \in Threads :
       /\ pc[t] # "idle" => before[t] \in Starts
       /\ pc[t] = "run" => half[t] = TRUE \/ dir[t] \in Starts
       /\ pc[t] \in AfterRun => half[t] = TRUE \/ dir[t] = Outcome
       /\ pc[t] = "refused" => half[t] = TRUE

-----------------------------------------------------------------------------
(* The files. *)

LEMMA FileNames == Files = {"log", "case", "scratch"}
BY DEF Files, Position

(* From a directory as the caller prepared it, a run leaves its outcome,   *)
(* and nothing is in its way.                                              *)
LEMMA CleanRun ==
  ASSUME setting.caller \in {"avl", "listed", "whole"}, NEW d \in Starts
  PROVE  /\ Produced(d) = Outcome
         /\ setting.caller = "avl" => d["log"] = "absent"
<1>1. CASE setting.caller = "avl" BY <1>1, FileNames DEF Starts, Produced, Absent
<1>2. CASE setting.caller = "listed" BY <1>2 DEF Produced
<1>3. CASE setting.caller = "whole"
  <2>1. d = [Absent EXCEPT !["case"] = "input", !["scratch"] = "input"] BY <1>3 DEF Starts
  <2>2. d["case"] = "input" BY <2>1, FileNames DEF Absent
  <2> QED BY <1>3, <2>2 DEF Produced
<1> QED BY <1>1, <1>2, <1>3

-----------------------------------------------------------------------------
(* The steps. *)

LEMMA InitDir == Init => DirInv
BY DEF Init, DirInv, AfterRun, IsOnThreads

Located ==
  IsOnThreads(pc) /\ IsOnThreads(dir) /\ IsOnThreads(before) /\ IsOnThreads(half)

(* The other threads keep their place and their directory. *)
Others(t) ==
  /\ setting' = setting
  /\ IsOnThreads(pc)' /\ IsOnThreads(dir)' /\ IsOnThreads(before)' /\ IsOnThreads(half)'
  /\ \A u \in Threads \ {t} : /\ pc'[u] = pc[u] /\ dir'[u] = dir[u]
                               /\ before'[u] = before[u] /\ half'[u] = half[u]

LEMMA OneThread ==
  ASSUME DirInv, NEW t \in Threads, Others(t), before'[t] \in Starts,
         pc'[t] = "run" => half'[t] = TRUE \/ dir'[t] \in Starts,
         pc'[t] \in AfterRun => half'[t] = TRUE \/ dir'[t] = Outcome,
         pc'[t] = "refused" => half'[t] = TRUE
  PROVE  DirInv'
<1>1. Starts' = Starts BY DEF Others, Starts
<1>2. ASSUME NEW u \in Threads
      PROVE  /\ pc'[u] # "idle" => before'[u] \in Starts
             /\ pc'[u] = "run" => half'[u] = TRUE \/ dir'[u] \in Starts
             /\ pc'[u] \in AfterRun => half'[u] = TRUE \/ dir'[u] = Outcome
             /\ pc'[u] = "refused" => half'[u] = TRUE
  <2>1. CASE u = t BY <2>1
  <2>2. CASE u # t BY <2>2 DEF Others, DirInv
  <2> QED BY <2>1, <2>2
<1>3. setting'.caller \in {"avl", "listed", "whole"} BY DEF Others, DirInv
<1> QED BY <1>1, <1>2, <1>3 DEF DirInv, Others

(* A step that only moves the thread on, between two places after the run. *)
LEMMA MovesOn ==
  ASSUME DirInv, NEW t \in Threads, UNCHANGED <<setting, dir, before, half>>, pc[t] # "idle",
         NEW place, pc' = [pc EXCEPT ![t] = place], place \notin {"run", "refused"},
         place \in AfterRun => pc[t] \in AfterRun
  PROVE  DirInv'
<1>1. Located BY DEF DirInv, Located
<1>2. pc'[t] = place /\ Others(t) BY <1>1 DEF Others, IsOnThreads, Located
<1> QED BY <1>2, OneThread DEF DirInv

LEMMA StaysPut ==
  ASSUME DirInv, UNCHANGED <<setting, pc, dir, before, half>>
  PROVE  DirInv'
BY DEF DirInv, Starts, IsOnThreads

LEMMA BeginKeeps == ASSUME DirInv, NEW t \in Threads, Begin(t) PROVE DirInv'
<1>0. Located BY DEF DirInv, Located
<1>1. PICK d \in Starts : dir' = [dir EXCEPT ![t] = d] /\ before' = [before EXCEPT ![t] = d]
  BY DEF Begin
<1>2. PICK place \in {"restore", "run"} : pc' = [pc EXCEPT ![t] = place]
  BY DEF Begin, Look, Goto
<1>3. setting' = setting /\ half' = [half EXCEPT ![t] = FALSE] BY DEF Begin
<1>4. Others(t) /\ dir'[t] = d /\ before'[t] = d /\ pc'[t] \in {"restore", "run"}
  BY <1>0, <1>1, <1>2, <1>3 DEF Others, IsOnThreads, Located
<1> QED BY <1>4, OneThread DEF AfterRun

(* A restore that fails is the one way to the tool with a changed file. *)
LEMMA RestoreKeeps ==
  ASSUME DirInv, NEW t \in Threads, RestoreLine(t) \/ RestoreFails(t) \/ Hit(t)
  PROVE  DirInv'
<1>0. Located BY DEF DirInv, Located
<1>1. CASE RestoreLine(t)
  <2>1. PICK d : dir' = [dir EXCEPT ![t] = d]
    <3>1. dir = [dir EXCEPT ![t] = dir[t]] BY <1>0 DEF Located, IsOnThreads
    <3> QED BY <1>1, <3>1 DEF RestoreLine
  <2>2. UNCHANGED <<setting, pc, before, half>> /\ pc[t] = "restore" BY <1>1 DEF RestoreLine
  <2>3. Others(t) BY <1>0, <2>1, <2>2 DEF Others, IsOnThreads, Located
  <2>4. before'[t] \in Starts BY <2>2 DEF DirInv
  <2> QED BY <2>2, <2>3, <2>4, OneThread DEF AfterRun
<1>2. CASE RestoreFails(t)
  <2>1. PICK d : dir' = [dir EXCEPT ![t] = d] BY <1>2 DEF RestoreFails
  <2>2. /\ UNCHANGED <<setting, before>> /\ half' = [half EXCEPT ![t] = dir'[t] # before[t]]
        /\ pc' = [pc EXCEPT ![t] = "run"] /\ pc[t] = "restore"
    BY <1>2 DEF RestoreFails, Goto
  <2>3. Others(t) /\ pc'[t] = "run" /\ half'[t] = (dir'[t] # before[t])
    BY <1>0, <2>1, <2>2 DEF Others, IsOnThreads, Located
  <2>4. before'[t] \in Starts /\ (half'[t] = TRUE \/ dir'[t] = before[t])
    BY <2>2, <2>3 DEF DirInv
  <2> QED BY <2>2, <2>3, <2>4, OneThread DEF AfterRun
<1>3. CASE Hit(t) BY <1>3, MovesOn DEF Hit, Goto, AfterRun
<1> QED BY <1>1, <1>2, <1>3

LEMMA RunKeeps ==
  ASSUME DirInv, NEW t \in Threads, RunSucceeds(t) \/ LaunchRefused(t) \/ RunFails(t)
  PROVE  DirInv'
<1>0. /\ Located
      /\ setting.caller \in {"avl", "listed", "whole"}
      /\ pc[t] = "run" => half[t] = TRUE \/ dir[t] \in Starts
  BY DEF DirInv, Located
<1>b. UNCHANGED before /\ before[t] \in Starts
  BY DEF DirInv, RunSucceeds, LaunchRefused, RunFails
<1>1. CASE RunSucceeds(t)
  <2>1. /\ pc[t] = "run" /\ dir' = [dir EXCEPT ![t] = Produced(dir[t])]
        /\ pc' = [pc EXCEPT ![t] = "ran"] /\ UNCHANGED <<setting, half>>
    BY <1>1 DEF RunSucceeds, Goto
  <2>2. Others(t) /\ pc'[t] = "ran" /\ dir'[t] = Produced(dir[t])
    BY <1>0, <1>b, <2>1 DEF Others, IsOnThreads, Located
  <2>3. half'[t] = TRUE \/ dir'[t] = Outcome BY <1>0, <2>1, <2>2, CleanRun
  <2> QED BY <1>b, <2>2, <2>3, OneThread
<1>2. CASE LaunchRefused(t)
  <2>1. /\ pc[t] = "run" /\ setting.caller = "avl" /\ dir[t]["log"] # "absent"
        /\ pc' = [pc EXCEPT ![t] = "refused"] /\ UNCHANGED <<setting, dir, half>>
    BY <1>2 DEF LaunchRefused, Refuses, Goto
  <2>2. half[t] = TRUE BY <1>0, <2>1, CleanRun
  <2>3. Others(t) /\ pc'[t] = "refused" /\ half'[t] = TRUE
    BY <1>0, <1>b, <2>1, <2>2 DEF Others, IsOnThreads, Located
  <2> QED BY <1>b, <2>3, OneThread DEF AfterRun
<1>3. CASE RunFails(t)
  <2>1. PICK d : dir' = [dir EXCEPT ![t] = d] BY <1>3 DEF RunFails
  <2>2. pc' = [pc EXCEPT ![t] = "failed"] /\ UNCHANGED <<setting, half>>
    BY <1>3 DEF RunFails, Goto
  <2>3. Others(t) /\ pc'[t] = "failed" BY <1>0, <1>b, <2>1, <2>2 DEF Others, IsOnThreads, Located
  <2> QED BY <1>b, <2>3, OneThread DEF AfterRun
<1> QED BY <1>1, <1>2, <1>3

(* A store leaves the working directory alone, whatever becomes of it. *)
LEMMA StoreKeeps ==
  ASSUME DirInv, NEW t \in Threads,
         \/ Clear(t) \/ PutOpen(t) \/ PutClose(t) \/ PutSidecar(t) \/ PutManifest(t)
         \/ Publish(t) \/ SnapshotFails(t) \/ StoreFails(t)
  PROVE  DirInv'
<1> USE DEF Goto, AfterRun
<1>1. CASE Clear(t) BY <1>1, MovesOn DEF Clear
<1>2. CASE PutOpen(t) BY <1>2, StaysPut DEF PutOpen
<1>3. CASE PutClose(t) BY <1>3, StaysPut DEF PutClose
<1>4. CASE PutSidecar(t) BY <1>4, MovesOn DEF PutSidecar
<1>5. CASE PutManifest(t) BY <1>5, MovesOn DEF PutManifest
<1>6. CASE Publish(t) BY <1>6, MovesOn DEF Publish, Publishable
<1>7. CASE SnapshotFails(t) BY <1>7, MovesOn DEF SnapshotFails
<1>8. CASE StoreFails(t)
  <2>1. pc[t] \in AfterRun BY <1>8 DEF StoreFails
  <2>2. pc' = [pc EXCEPT ![t] = "ok"] /\ UNCHANGED <<setting, dir, before, half>>
    BY <1>8 DEF StoreFails
  <2> QED BY <2>1, <2>2, MovesOn
<1> QED BY <1>1, <1>2, <1>3, <1>4, <1>5, <1>6, <1>7, <1>8

LEMMA CrashKeeps == ASSUME DirInv, NEW t \in Threads, Crash(t) PROVE DirInv'
<1>1. /\ pc' = [u \in Threads |-> IF u \in Pid(t) THEN "idle" ELSE pc[u]]
      /\ UNCHANGED <<setting, dir, before, half>>
  BY DEF Crash
<1> QED BY <1>1 DEF DirInv, Starts, IsOnThreads, AfterRun

LEMMA StepDir == DirInv /\ [Next]_vars => DirInv'
<1> SUFFICES ASSUME DirInv, [Next]_vars PROVE DirInv' OBVIOUS
<1>1. CASE UNCHANGED vars BY <1>1, StaysPut DEF vars, threadVars
<1>2. ASSUME NEW t \in Threads, Thread(t) PROVE DirInv'
  BY <1>2, BeginKeeps, RestoreKeeps, RunKeeps, StoreKeeps, CrashKeeps DEF Thread
<1> QED BY <1>1, <1>2 DEF Next

(* OnlyAHalfRestoreChangesARun: with the cache a run gives what it gives   *)
(* without, unless its own restore failed after it had changed a file      *)
(* (tool_cache.rs, restore; avl.rs, the files made with create_new).       *)
THEOREM HalfRestoreTheorem == Spec => []OnlyAHalfRestoreChangesARun
<1>1. DirInv => OnlyAHalfRestoreChangesARun BY DEF DirInv, AfterRun, OnlyAHalfRestoreChangesARun
<1> QED BY <1>1, InitDir, StepDir, PTL DEF Spec


-----------------------------------------------------------------------------
(* What is on the disk.                                                    *)

(* A file open in a directory keeps it there; two processes never have     *)
(* each other's files open.                                                *)
OpenInv ==
  \A t \in Threads : /\ handle[t] = "stage" => stage[Pid(t)].made
                     /\ handle[t] = "entry" => entry.made
                     /\ ~setting.shared => handle[t] \in {"none", "stage"}

(* What a failed or a drifted run left is never published: only a restore  *)
(* lets a run drift, and a restore found an entry, which stays.            *)
Replayable == {"absent", "result", "cut"}

ContentInv ==
  /\ \A f \in Files : entry.files[f] \in Replayable
  /\ \A p \in Pids, f \in Files : entry.made \/ stage[p].files[f] \in Replayable
  /\ \A t \in Threads :
       /\ pc[t] = "restore" \/ half[t] = TRUE => entry.made
       /\ pc[t] \in {"restore", "hit"} =>
            \A f \in Files : dir[t][f] \notin {"broken", "drifted"}

(* A store of its own: the files copied so far are in its staging          *)
(* directory, then the sidecar, then the manifest, written over whatever   *)
(* could not be removed there.                                             *)
Copied(t) ==
  {f \in Changed(before[t], dir[t]) :
     <<"F", f>> \in todo[t] => handle[t] = "stage" /\ FileOf(t) = f}

StagedInv(t) ==
  LET s == stage[{t}]
  IN  /\ pc[t] \in {"put", "manifest", "rename"} =>
           /\ s.made
           /\ todo[t] \subseteq {"F"} \X Changed(before[t], dir[t])
           /\ \A f \in Copied(t) : s.files[f] = dir[t][f]
      /\ pc[t] \in {"manifest", "rename"} => todo[t] = {} /\ s.sidecar
      /\ pc[t] = "rename" => s.listed /\ s.manifest = Lines(before[t], dir[t])

(* The entry is of one run, from a directory a caller prepared.            *)
EntryOf(old) ==
  /\ entry.listed /\ entry.sidecar /\ entry.manifest = Lines(old, Outcome)
  /\ \A f \in Files : <<"F", f>> \in entry.manifest => entry.files[f] = "result"

EntryInv == entry.made => \E old \in Starts : EntryOf(old)

(* A restore has replayed the lines that are not left, but for the files it*)
(* could not delete.                                                       *)
ReplayedInv(t) ==
  LET replayed == entry.manifest \ todo[t]
  IN  pc[t] \in {"restore", "hit"} =>
        /\ entry.made /\ todo[t] \subseteq entry.manifest
        /\ pc[t] = "hit" => todo[t] = {}
        /\ \A f \in kept[t] : <<"D", f>> \in replayed
        /\ dir[t] = [f \in Files |->
             IF <<"F", f>> \in replayed THEN entry.files[f]
             ELSE IF <<"D", f>> \in replayed /\ f \notin kept[t] THEN "absent"
             ELSE before[t][f]]

AloneInv == ~setting.shared => EntryInv /\ \A t \in Threads : StagedInv(t) /\ ReplayedInv(t)

DiskInv == TypeOK /\ DirInv /\ OpenInv /\ ContentInv /\ AloneInv


-----------------------------------------------------------------------------
(* The files and the manifest.                                             *)

LEMMA LeastIsIn ==
  ASSUME NEW S \in SUBSET Nat, S # {}
  PROVE  \E least \in S : \A n \in S : least <= n
<1> DEFINE Less == {ss \in Nat \X Nat : ss[1] < ss[2]}
<1>1. IsWellFoundedOn(Less, Nat) BY NatLessThanWellFounded, Zenon DEF OpToRel
<1>2. PICK least \in S : \A n \in S : ~(<<n, least>> \in Less)
  <2> HIDE DEF Less
  <2> QED BY <1>1, WFMin
<1>3. ASSUME NEW n \in S PROVE least <= n
  <2>1. least \in Nat /\ n \in Nat OBVIOUS
  <2>2. ~(n < least) BY <1>2, <2>1
  <2> QED BY <2>1, <2>2
<1> QED BY <1>3

(* A manifest that is not empty has a first line. *)
LEMMA FirstIsIn ==
  ASSUME NEW lines \in SUBSET Line, lines # {}
  PROVE  First(lines) \in lines
<1> DEFINE Ranks == {Rank(l) : l \in lines}
<1>1. \A l \in Line : Rank(l) \in Nat BY FileNames DEF Line, Rank, Position
<1>2. Ranks \in SUBSET Nat /\ Ranks # {} BY <1>1
<1>3. PICK least \in Ranks : \A n \in Ranks : least <= n
  <2> HIDE DEF Ranks
  <2> QED BY <1>2, LeastIsIn
<1>4. PICK l \in lines : least = Rank(l) BY <1>3
<1>5. \A m \in lines : Rank(l) <= Rank(m) BY <1>3, <1>4
<1> QED BY <1>5 DEF First

LEMMA Trees ==
  /\ Absent \in Directory /\ Outcome \in Directory
  /\ NoDir \in Tree /\ EmptyDir \in Tree /\ ~NoDir.made /\ EmptyDir.made
  /\ NoDir.files = Absent /\ EmptyDir.files = Absent
<1>1. Absent \in Directory /\ Outcome \in Directory
  BY DEF Absent, Outcome, Directory, Contents
<1>2. NoDir \in Tree /\ ~NoDir.made /\ NoDir.files = Absent BY <1>1 DEF NoDir, Tree
<1>3. EmptyDir \in Tree /\ EmptyDir.made /\ EmptyDir.files = Absent
  BY <1>1 DEF EmptyDir, NoDir, Tree
<1> QED BY <1>1, <1>2, <1>3

(* What a caller may leave in the directory, and a run after it.           *)
LEMMA StartFiles ==
  ASSUME NEW d \in Starts, setting.caller \in {"avl", "listed", "whole"}
  PROVE  /\ d \in Directory
         /\ \A f \in Files : d[f] \in {"absent", "input", "result", "stale"}
<1>1. \A l \in {"absent", "result"}, c \in {"absent", "stale"} :
        LET e == [Absent EXCEPT !["log"] = l, !["case"] = c]
        IN  e \in Directory /\ \A f \in Files : e[f] \in {"absent", "result", "stale"}
  BY FileNames DEF Absent, Directory, Contents
<1>2. \A e \in Leftovers :
        e \in Directory /\ \A f \in Files : e[f] \in {"absent", "result", "stale"}
  <2> SUFFICES ASSUME NEW e \in Leftovers
               PROVE  e \in Directory /\ \A f \in Files : e[f] \in {"absent", "result", "stale"}
    OBVIOUS
  <2>1. PICK l \in {"absent", "result"}, c \in {"absent", "stale"} :
          e = [Absent EXCEPT !["log"] = l, !["case"] = c]
    BY DEF Leftovers
  <2> QED BY <1>1, <2>1
<1>3. CASE setting.caller = "avl" BY <1>3, FileNames DEF Starts, Absent, Directory, Contents
<1>4. CASE setting.caller = "listed" BY <1>2, <1>4 DEF Starts
<1>5. CASE setting.caller = "whole" BY <1>5, FileNames DEF Starts, Absent, Directory, Contents
<1> QED BY <1>3, <1>4, <1>5

LEMMA RunFiles == \A d \in Directory : Produced(d) \in Directory
<1> SUFFICES ASSUME NEW d \in Directory PROVE Produced(d) \in Directory OBVIOUS
<1>1. [d EXCEPT !["log"] = "drifted", !["case"] = "drifted"] \in Directory
  BY FileNames DEF Directory, Contents
<1> QED BY <1>1, Trees DEF Produced

LEMMA LineTypes ==
  \A old, new \in Directory :
    Lines(old, new) \in SUBSET Line /\ {"F"} \X Changed(old, new) \in SUBSET Line
BY DEF Lines, Changed, Deleted, Line

(* Threads and the processes they are of.                                  *)
LEMMA OwnPid ==
  /\ \A t \in Threads : Pid(t) \in Pids /\ t \in Pid(t) /\ Pid(t) \subseteq Threads
  /\ ~setting.shared => \A t \in Threads : Pid(t) = {t}
  /\ \A t, u \in Threads : u \in Pid(t) => Pid(u) = Pid(t)
BY DEF Pid, Pids

LEMMA SamePid == setting' = setting => \A t : Pid(t)' = Pid(t)
BY DEF Pid

(* Only a thread in the middle of a copy has a file open.                  *)
LEMMA NoneOpen ==
  ASSUME TypeOK, NEW t \in Threads, pc[t] # "put" \/ todo[t] = {}
  PROVE  handle[t] = "none"
BY DEF TypeOK, Stored


-----------------------------------------------------------------------------
(* TypeOK.                                                                 *)

Places == Idle \cup {"restore", "run", "ran", "put", "manifest", "rename"}

LEMMA InitType == Init => TypeOK
<1> SUFFICES ASSUME Init PROVE TypeOK OBVIOUS
<1>1. stage \in [Pids -> Tree] /\ entry \in Tree /\ entry = NoDir
      /\ \A p \in Pids : stage[p] = NoDir
  BY Trees DEF Init
<1>2. dir \in [Threads -> Directory] /\ before \in [Threads -> Directory] BY Trees DEF Init
<1>3. rounds \in 0..Invocations BY CacheAssumption DEF Init
<1>4. /\ pc \in [Threads -> Places] /\ todo \in [Threads -> SUBSET Line]
      /\ handle \in [Threads -> {"none", "stage", "entry", "gone"}]
      /\ \A t \in Threads : handle[t] = "none"
  BY DEF Init, Places, Idle
<1>5. half \in [Threads -> BOOLEAN] /\ kept \in [Threads -> SUBSET Files] BY DEF Init
<1>6. setting \in [caller : {"avl", "listed", "whole"}, shared : BOOLEAN] BY DEF Init
<1> QED BY <1>1, <1>2, <1>3, <1>4, <1>5, <1>6 DEF TypeOK, Places

(* A step that leaves the disk alone, of a thread that has nothing open.   *)
LEMMA TypeQuiet ==
  ASSUME TypeOK, NEW t \in Threads, UNCHANGED <<setting, entry, stage, handle>>,
         handle[t] = "none", NEW place \in Places, pc' = [pc EXCEPT ![t] = place],
         rounds' \in 0..Invocations, dir' \in [Threads -> Directory],
         before' \in [Threads -> Directory], half' \in [Threads -> BOOLEAN],
         kept' \in [Threads -> SUBSET Files],
         NEW lines \in SUBSET Line, todo' = [todo EXCEPT ![t] = lines]
  PROVE  TypeOK'
<1>1. pc \in [Threads -> Places] /\ todo \in [Threads -> SUBSET Line] BY DEF TypeOK, Places
<1>2. pc' \in [Threads -> Places] /\ todo' \in [Threads -> SUBSET Line] BY <1>1
<1>3. ASSUME NEW u \in Threads, handle'[u] # "none" PROVE Stored(u)'
  <2>1. u # t /\ Stored(u) BY <1>3 DEF TypeOK
  <2>2. pc'[u] = pc[u] /\ todo'[u] = todo[u] BY <1>1, <2>1
  <2> QED BY <2>1, <2>2 DEF Stored
<1> QED BY <1>2, <1>3 DEF TypeOK, Places

(* A step of a store: it leaves the directories of the runs alone.         *)
LEMMA TypeStore ==
  ASSUME TypeOK, NEW t \in Threads, UNCHANGED <<setting, rounds, dir, before, half, kept>>,
         NEW place \in Places, pc' = [pc EXCEPT ![t] = place],
         NEW lines \in SUBSET Line, todo' = [todo EXCEPT ![t] = lines],
         entry' \in Tree, stage' \in [Pids -> Tree],
         handle' \in [Threads -> {"none", "stage", "entry", "gone"}],
         \A u \in Threads : handle'[u] = "none" \/ handle[u] # "none" \/ u = t,
         handle'[t] # "none" => place = "put" /\ lines # {},
         ~entry'.made => entry' = NoDir,
         \A p \in Pids : ~stage'[p].made => stage'[p] = NoDir
  PROVE  TypeOK'
<1>1. pc \in [Threads -> Places] /\ todo \in [Threads -> SUBSET Line] BY DEF TypeOK, Places
<1>2. pc' \in [Threads -> Places] /\ todo' \in [Threads -> SUBSET Line] BY <1>1
<1>3. ASSUME NEW u \in Threads, handle'[u] # "none" PROVE Stored(u)'
  <2>1. CASE u = t BY <1>1, <1>3, <2>1 DEF Stored
  <2>2. CASE u # t
    <3>1. Stored(u) BY <1>3, <2>2 DEF TypeOK
    <3>2. pc'[u] = pc[u] /\ todo'[u] = todo[u] BY <1>1, <2>2
    <3> QED BY <3>1, <3>2 DEF Stored
  <2> QED BY <2>1, <2>2
<1>4. UNCHANGED NoDir /\ Places' = Places BY DEF NoDir, Absent, Places
<1> QED BY <1>2, <1>3, <1>4 DEF TypeOK, Places

(* The staging directory of a process is replaced.                         *)
LEMMA StageSet ==
  ASSUME TypeOK, NEW t \in Threads, NEW d \in Tree, ~d.made => d = NoDir,
         stage' = [stage EXCEPT ![Pid(t)] = d]
  PROVE  /\ stage' \in [Pids -> Tree] /\ stage'[Pid(t)] = d
         /\ \A p \in Pids \ {Pid(t)} : stage'[p] = stage[p]
         /\ \A p \in Pids : ~stage'[p].made => stage'[p] = NoDir
<1>1. stage \in [Pids -> Tree] /\ Pid(t) \in Pids BY OwnPid DEF TypeOK
<1>2. /\ stage' \in [Pids -> Tree] /\ stage'[Pid(t)] = d
      /\ \A p \in Pids \ {Pid(t)} : stage'[p] = stage[p]
  BY <1>1
<1> QED BY <1>2 DEF TypeOK

LEMMA TypeOfBegin == ASSUME TypeOK, NEW t \in Threads, Begin(t) PROVE TypeOK'
<1>0. /\ dir \in [Threads -> Directory] /\ before \in [Threads -> Directory]
      /\ entry.manifest \in SUBSET Line /\ setting.caller \in {"avl", "listed", "whole"}
      /\ half \in [Threads -> BOOLEAN] /\ kept \in [Threads -> SUBSET Files]
      /\ rounds \in 0..Invocations
  BY DEF TypeOK, Tree
<1>1. PICK d \in Starts : dir' = [dir EXCEPT ![t] = d] /\ before' = [before EXCEPT ![t] = d]
  BY DEF Begin
<1>2. d \in Directory BY <1>0, StartFiles
<1>3. dir' \in [Threads -> Directory] /\ before' \in [Threads -> Directory] BY <1>0, <1>1, <1>2
<1>4. PICK place \in {"restore", "run"}, lines \in {entry.manifest, {}} :
        pc' = [pc EXCEPT ![t] = place] /\ todo' = [todo EXCEPT ![t] = lines]
  BY DEF Begin, Look, Goto
<1>5. handle[t] = "none" BY NoneOpen DEF Begin, Idle
<1>6. rounds' \in 0..Invocations BY <1>0, CacheAssumption DEF Begin
<1>7. /\ half' \in [Threads -> BOOLEAN] /\ kept' \in [Threads -> SUBSET Files]
      /\ UNCHANGED <<setting, entry, stage, handle>>
  BY <1>0 DEF Begin, diskVars
<1>8. place \in Places /\ lines \in SUBSET Line BY <1>0 DEF Places
<1> QED BY <1>3, <1>4, <1>5, <1>6, <1>7, <1>8, TypeQuiet


LEMMA TypeOfRestore ==
  ASSUME TypeOK, NEW t \in Threads, RestoreLine(t) \/ RestoreFails(t) \/ Hit(t)
  PROVE  TypeOK'
<1>0. /\ dir \in [Threads -> Directory] /\ before \in [Threads -> Directory]
      /\ todo \in [Threads -> SUBSET Line] /\ pc \in [Threads -> Places] /\ entry.files \in Directory
      /\ half \in [Threads -> BOOLEAN] /\ kept \in [Threads -> SUBSET Files]
      /\ rounds \in 0..Invocations
  BY DEF TypeOK, Tree, Places
<1>1. handle[t] = "none" BY NoneOpen DEF RestoreLine, RestoreFails, Hit
<1>2. ASSUME NEW c \in Contents, NEW f \in Files, dir' = [dir EXCEPT ![t][f] = c]
      PROVE  dir' \in [Threads -> Directory]
  BY <1>0, <1>2 DEF Directory
<1>3. todo[t] # {} => FileOf(t) \in Files
  BY <1>0, FirstIsIn DEF FileOf, Line
<1>4. CASE RestoreLine(t)
  <2>1. dir' \in [Threads -> Directory]
    <3>1. CASE dir' = dir BY <1>0, <3>1
    <3>2. CASE dir' # dir
      <4>1. PICK c \in {ReadEntry(FileOf(t)), "absent"} : dir' = [dir EXCEPT ![t][FileOf(t)] = c]
        BY <1>4, <3>2 DEF RestoreLine
      <4>2. ReadEntry(FileOf(t)) \in Contents /\ "absent" \in Contents
        BY <1>0, <1>3, <1>4 DEF RestoreLine, ReadEntry, Directory, Contents
      <4> QED BY <1>2, <1>3, <1>4, <4>1, <4>2 DEF RestoreLine
    <3> QED BY <3>1, <3>2
  <2>2. kept' \in [Threads -> SUBSET Files]
    <3>1. CASE kept' = kept BY <1>0, <3>1
    <3>2. CASE kept' # kept
      <4>1. kept' = [kept EXCEPT ![t] = kept[t] \cup {FileOf(t)}] BY <1>4, <3>2 DEF RestoreLine
      <4>2. kept[t] \cup {FileOf(t)} \in SUBSET Files BY <1>0, <1>3, <1>4 DEF RestoreLine
      <4> QED BY <1>0, <4>1, <4>2
    <3> QED BY <3>1, <3>2
  <2>3. /\ todo' = [todo EXCEPT ![t] = todo[t] \ {First(todo[t])}] /\ pc[t] = "restore"
        /\ UNCHANGED <<setting, entry, stage, handle, pc, rounds, before, half>>
    BY <1>4 DEF RestoreLine, diskVars
  <2>4. pc' = [pc EXCEPT ![t] = "restore"] BY <1>0, <2>3
  <2>5. "restore" \in Places BY DEF Places
  <2>6. todo[t] \ {First(todo[t])} \in SUBSET Line BY <1>0
  <2> QED BY <1>0, <1>1, <2>1, <2>2, <2>3, <2>4, <2>5, <2>6, TypeQuiet
<1>5. CASE RestoreFails(t)
  <2>1. PICK c \in {dir[t][FileOf(t)], "absent", "cut"} : dir' = [dir EXCEPT ![t][FileOf(t)] = c]
    BY <1>5 DEF RestoreFails
  <2>2. c \in Contents BY <1>0, <1>3, <1>5 DEF RestoreFails, Directory, Contents
  <2>3. dir' \in [Threads -> Directory] BY <1>2, <1>3, <1>5, <2>1, <2>2 DEF RestoreFails
  <2>4. /\ todo' = [todo EXCEPT ![t] = {}] /\ pc' = [pc EXCEPT ![t] = "run"]
        /\ half' = [half EXCEPT ![t] = dir'[t] # before[t]]
        /\ UNCHANGED <<setting, entry, stage, handle, rounds, before, kept>>
    BY <1>5 DEF RestoreFails, Goto, diskVars
  <2>5. half' \in [Threads -> BOOLEAN] BY <1>0, <2>4, Zenon
  <2>6. "run" \in Places /\ {} \in SUBSET Line BY DEF Places
  <2> QED BY <1>0, <1>1, <2>3, <2>4, <2>5, <2>6, TypeQuiet
<1>6. CASE Hit(t)
  <2>1. pc' = [pc EXCEPT ![t] = "hit"] /\ todo' = [todo EXCEPT ![t] = todo[t]]
        /\ UNCHANGED <<setting, entry, stage, handle, rounds, dir, before, half, kept>>
    BY <1>0, <1>6 DEF Hit, Goto, diskVars
  <2>2. "hit" \in Places /\ todo[t] \in SUBSET Line BY <1>0 DEF Places, Idle
  <2> QED BY <1>0, <1>1, <2>1, <2>2, TypeQuiet
<1> QED BY <1>4, <1>5, <1>6

LEMMA TypeOfRun ==
  ASSUME TypeOK, NEW t \in Threads,
         RunSucceeds(t) \/ LaunchRefused(t) \/ RunFails(t) \/ SnapshotFails(t)
  PROVE  TypeOK'
<1>0. /\ dir \in [Threads -> Directory] /\ before \in [Threads -> Directory]
      /\ todo \in [Threads -> SUBSET Line] /\ half \in [Threads -> BOOLEAN]
      /\ kept \in [Threads -> SUBSET Files] /\ rounds \in 0..Invocations
  BY DEF TypeOK
<1>1. handle[t] = "none"
  BY NoneOpen DEF RunSucceeds, LaunchRefused, RunFails, SnapshotFails
<1>2. /\ UNCHANGED <<setting, entry, stage, handle, rounds, before, todo, half, kept>>
      /\ \E place \in {"ran", "refused", "failed", "ok"} : pc' = [pc EXCEPT ![t] = place]
      /\ todo' = [todo EXCEPT ![t] = todo[t]]
  BY <1>0 DEF RunSucceeds, LaunchRefused, RunFails, SnapshotFails, Goto, diskVars
<1>3. {"ran", "refused", "failed", "ok"} \subseteq Places BY DEF Places, Idle
<1>4. dir' \in [Threads -> Directory]
  <2>1. CASE RunSucceeds(t)
    <3>1. Produced(dir[t]) \in Directory BY <1>0, RunFiles
    <3> QED BY <1>0, <2>1, <3>1 DEF RunSucceeds
  <2>2. CASE LaunchRefused(t) \/ SnapshotFails(t)
    BY <1>0, <2>2 DEF LaunchRefused, SnapshotFails
  <2>3. CASE RunFails(t)
    <3>1. PICK touched \in {{}, {"log", "case"}} :
            dir' = [dir EXCEPT ![t] =
                      [f \in Files |-> IF f \in touched THEN "broken" ELSE dir[t][f]]]
      BY <2>3 DEF RunFails
    <3>2. [f \in Files |-> IF f \in touched THEN "broken" ELSE dir[t][f]] \in Directory
      BY <1>0 DEF Directory, Contents
    <3> QED BY <1>0, <3>1, <3>2
  <2> QED BY <2>1, <2>2, <2>3
<1>5. PICK place \in {"ran", "refused", "failed", "ok"} : pc' = [pc EXCEPT ![t] = place]
  BY <1>2
<1>6. place \in Places /\ todo[t] \in SUBSET Line BY <1>0, <1>3
<1>7. /\ UNCHANGED <<setting, entry, stage, handle>> /\ rounds' \in 0..Invocations
      /\ before' \in [Threads -> Directory] /\ half' \in [Threads -> BOOLEAN]
      /\ kept' \in [Threads -> SUBSET Files]
  BY <1>0, <1>2
<1>8. todo' = [todo EXCEPT ![t] = todo[t]] BY <1>2
<1> QED BY <1>1, <1>4, <1>5, <1>6, <1>7, <1>8, TypeQuiet

LEMMA RemovedHandles ==
  ASSUME TypeOK, NEW t \in Threads, NEW then, RemoveStage(t, then)
  PROVE  /\ stage' = [stage EXCEPT ![Pid(t)] = then]
         /\ handle' \in [Threads -> {"none", "stage", "entry", "gone"}]
         /\ handle'[t] = "none"
         /\ \A u \in Threads :
              /\ handle'[u] # "none" => handle[u] # "none"
              /\ handle'[u] = "stage" => /\ handle[u] = "stage"
                                         /\ u \in Pid(t) => then.files[FileOf(u)] # "absent"
              /\ handle'[u] = "entry" => handle[u] = "entry"
              /\ u \notin Pid(t) => handle'[u] = handle[u]
<1>1. t \in Pid(t) BY OwnPid
<1> QED BY <1>1 DEF RemoveStage, TypeOK

(* A directory that was removed, as far as that went.                      *)
LEMMA RemainsTree ==
  ASSUME NEW d \in Tree, ~d.made => d = NoDir, NEW r \in Remains(d)
  PROVE  /\ r \in Tree /\ (~r.made => r = NoDir)
         /\ \A f \in Files : r.files[f] \in {"absent", d.files[f]}
<1>1. CASE r = NoDir BY <1>1, Trees DEF Absent
<1>2. CASE r # NoDir
  <2>1. PICK names \in SUBSET Files, s \in {FALSE, d.sidecar}, l \in {FALSE, d.listed} :
          r = Part(d, names, s, l)
    <3> DEFINE S == {FALSE, d.sidecar}
               L == {FALSE, d.listed}
               parts == {Part(d, names, s, l) : names \in SUBSET Files, s \in S, l \in L}
    <3>1. Remains(d) = {NoDir} \cup parts BY DEF Remains
    <3>2. r \in parts
      <4> HIDE DEF parts
      <4> QED BY <1>2, <3>1
    <3> HIDE DEF S, L
    <3>3. \E names \in SUBSET Files, s \in S, l \in L : r = Part(d, names, s, l) BY <3>2
    <3> QED BY <3>3 DEF S, L
  <2>2. /\ d.files \in Directory /\ d.made \in BOOLEAN
        /\ s \in BOOLEAN /\ l \in BOOLEAN /\ d.manifest \in SUBSET Line
    BY DEF Tree
  <2> DEFINE files == [f \in Files |-> IF f \in names THEN d.files[f] ELSE "absent"]
             lines == IF l THEN d.manifest ELSE {}
  <2>3. files \in Directory BY <2>2 DEF Directory, Contents
  <2>4. lines \in SUBSET Line BY <2>2
  <2>5. \A f \in Files : files[f] \in {"absent", d.files[f]} OBVIOUS
  <2>6. d = NoDir => r = NoDir
    <3> SUFFICES ASSUME d = NoDir PROVE r = NoDir OBVIOUS
    <3>1. d.files = Absent /\ d.sidecar = FALSE /\ d.listed = FALSE /\ d.manifest = {}
      BY DEF NoDir
    <3>2. files = Absent BY <3>1 DEF Absent
    <3>3. s = FALSE /\ l = FALSE /\ lines = {} BY <3>1
    <3> HIDE DEF files, lines
    <3>4. r = [d EXCEPT !.files = Absent, !.sidecar = FALSE, !.listed = FALSE, !.manifest = {}]
      BY <2>1, <3>2, <3>3 DEF files, lines, Part
    <3> QED BY <3>4 DEF NoDir
  <2> HIDE DEF files, lines
  <2>7. r = [d EXCEPT !.files = files, !.sidecar = s, !.listed = l, !.manifest = lines]
    BY <2>1 DEF files, lines, Part
  <2>8. r \in Tree /\ r.files = files /\ r.made = d.made BY <2>2, <2>3, <2>4, <2>7 DEF Tree
  <2> QED BY <2>5, <2>6, <2>8
<1> QED BY <1>1, <1>2

(* A copy that failed in the middle leaves its file cut.                   *)
CutAt(t, d, place) == IF handle[t] = place THEN [d EXCEPT !.files[FileOf(t)] = "cut"] ELSE d

LEMMA CutTree ==
  ASSUME TypeOK, NEW t \in Threads, NEW d \in Tree, ~d.made => d = NoDir,
         NEW place \in {"stage", "entry"}, handle[t] = place => d.made
  PROVE  /\ CutAt(t, d, place) \in Tree /\ CutAt(t, d, place).made = d.made
         /\ ~CutAt(t, d, place).made => CutAt(t, d, place) = NoDir
         /\ \A f \in Files : CutAt(t, d, place).files[f] \in {d.files[f], "cut"}
<1>1. CASE handle[t] # place BY <1>1 DEF CutAt
<1>2. CASE handle[t] = place
  <2>1. todo[t] # {} /\ todo[t] \in SUBSET Line BY <1>2 DEF TypeOK, Stored
  <2>2. FileOf(t) \in Files BY <2>1, FirstIsIn DEF FileOf, Line
  <2> DEFINE e == [d EXCEPT !.files[FileOf(t)] = "cut"]
  <2>3. d.files \in Directory BY DEF Tree
  <2>4. [d.files EXCEPT ![FileOf(t)] = "cut"] \in Directory BY <2>3 DEF Directory, Contents
  <2>5. e \in Tree /\ e.made = d.made /\ e.files = [d.files EXCEPT ![FileOf(t)] = "cut"]
    BY <2>4 DEF Tree
  <2>6. \A f \in Files : e.files[f] \in {d.files[f], "cut"} BY <2>2, <2>3, <2>5 DEF Directory
  <2> HIDE DEF e
  <2>7. CutAt(t, d, place) = e BY <1>2 DEF CutAt, e
  <2> QED BY <1>2, <2>5, <2>6, <2>7
<1> QED BY <1>1, <1>2

LEMMA ClearLeaves ==
  ASSUME TypeOK, NEW t \in Threads, Clear(t)
  PROVE  \E d \in Tree :
           /\ d.made /\ RemoveStage(t, d)
           /\ \A f \in Files : d.files[f] \in {"absent", stage[Pid(t)].files[f]}
<1>1. stage[Pid(t)] \in Tree /\ (~stage[Pid(t)].made => stage[Pid(t)] = NoDir)
  BY OwnPid DEF TypeOK
<1>2. PICK r \in Remains(stage[Pid(t)]) : RemoveStage(t, [r EXCEPT !.made = TRUE])
  BY DEF Clear
<1>3. r \in Tree /\ \A f \in Files : r.files[f] \in {"absent", stage[Pid(t)].files[f]}
  BY <1>1, RemainsTree
<1> DEFINE d == [r EXCEPT !.made = TRUE]
<1>4. d \in Tree /\ d.made /\ d.files = r.files BY <1>3 DEF Tree
<1> HIDE DEF d
<1>5. RemoveStage(t, d) BY <1>2 DEF d
<1> QED BY <1>3, <1>4, <1>5

LEMMA FailureLeaves ==
  ASSUME TypeOK, OpenInv, NEW t \in Threads, StoreFails(t)
  PROVE  /\ \E d \in Tree :
              /\ ~d.made => d = NoDir
              /\ RemoveStage(t, d)
              /\ \A f \in Files : d.files[f] \in {"absent", "cut", stage[Pid(t)].files[f]}
         /\ entry' \in Tree /\ entry'.made = entry.made /\ (~entry'.made => entry' = NoDir)
         /\ \A f \in Files : entry'.files[f] \in {entry.files[f], "cut"}
         /\ handle[t] # "entry" => entry' = entry
<1> DEFINE own == stage[Pid(t)]
<1>1. /\ own \in Tree /\ (~own.made => own = NoDir) /\ entry \in Tree
      /\ (~entry.made => entry = NoDir)
  BY OwnPid DEF TypeOK
<1>2. (handle[t] = "stage" => own.made) /\ (handle[t] = "entry" => entry.made) BY DEF OpenInv
<1>3. entry' = CutAt(t, entry, "entry") BY DEF StoreFails, CutAt
<1>4. PICK d \in Remains(CutAt(t, own, "stage")) : RemoveStage(t, d) BY DEF StoreFails, CutAt
<1>5. /\ CutAt(t, own, "stage") \in Tree
      /\ (~CutAt(t, own, "stage").made => CutAt(t, own, "stage") = NoDir)
      /\ \A f \in Files : CutAt(t, own, "stage").files[f] \in {own.files[f], "cut"}
  BY <1>1, <1>2, CutTree
<1>6. /\ d \in Tree /\ (~d.made => d = NoDir)
      /\ \A f \in Files : d.files[f] \in {"absent", CutAt(t, own, "stage").files[f]}
  BY <1>5, RemainsTree
<1>7. \A f \in Files : d.files[f] \in {"absent", "cut", own.files[f]} BY <1>5, <1>6
<1>8. /\ entry' \in Tree /\ entry'.made = entry.made /\ (~entry'.made => entry' = NoDir)
      /\ \A f \in Files : entry'.files[f] \in {entry.files[f], "cut"}
  BY <1>1, <1>2, <1>3, CutTree
<1>9. handle[t] # "entry" => entry' = entry BY <1>3 DEF CutAt
<1> QED BY <1>4, <1>6, <1>7, <1>8, <1>9

LEMMA TypeOfStore ==
  ASSUME TypeOK, OpenInv, NEW t \in Threads,
         \/ Clear(t) \/ PutOpen(t) \/ PutClose(t) \/ PutSidecar(t) \/ PutManifest(t)
         \/ Publish(t) \/ StoreFails(t)
  PROVE  TypeOK'
<1>0. /\ dir \in [Threads -> Directory] /\ before \in [Threads -> Directory]
      /\ todo \in [Threads -> SUBSET Line] /\ pc \in [Threads -> Places]
      /\ handle \in [Threads -> {"none", "stage", "entry", "gone"}]
      /\ entry \in Tree /\ stage \in [Pids -> Tree] /\ Pid(t) \in Pids
      /\ \A d \in {entry} \cup {stage[p] : p \in Pids} : ~d.made => d = NoDir
  BY OwnPid DEF TypeOK, Places
<1> DEFINE own == stage[Pid(t)]
<1>a. own \in Tree /\ (~own.made => own = NoDir) BY <1>0
<1>b. ~entry.made => entry = NoDir BY <1>0
<1>c. todo[t] # {} => First(todo[t]) \in todo[t] /\ FileOf(t) \in Files
  BY <1>0, FirstIsIn DEF FileOf, Line
<1>d. \A p \in Pids : ~stage[p].made => stage[p] = NoDir BY <1>0
<1>e. {} \in SUBSET Line OBVIOUS
<1>p. {"put", "manifest", "rename", "ok"} \subseteq Places BY DEF Places, Idle
<1>1. CASE Clear(t)
  <2>1. /\ pc[t] = "ran" /\ pc' = [pc EXCEPT ![t] = "put"]
        /\ todo' = [todo EXCEPT ![t] = {"F"} \X Changed(before[t], dir[t])]
        /\ UNCHANGED <<setting, entry, rounds, dir, before, half, kept>>
    BY <1>1 DEF Clear, Goto
  <2>2. {"F"} \X Changed(before[t], dir[t]) \in SUBSET Line BY <1>0, LineTypes
  <2>3. PICK d \in Tree : d.made /\ RemoveStage(t, d) BY <1>1, ClearLeaves
  <2>4. stage' \in [Pids -> Tree] /\ \A p \in Pids : ~stage'[p].made => stage'[p] = NoDir
    BY <2>3, RemovedHandles, StageSet
  <2> QED BY <1>0, <1>b, <1>p, <2>1, <2>2, <2>3, <2>4, RemovedHandles, TypeStore
<1>2. CASE PutOpen(t)
  <2> DEFINE d == [own EXCEPT !.made = TRUE, !.files[FileOf(t)] = dir[t][FileOf(t)]]
  <2>1. /\ pc[t] = "put" /\ todo[t] # {} /\ handle' = [handle EXCEPT ![t] = "stage"]
        /\ stage' = [stage EXCEPT ![Pid(t)] = d]
        /\ UNCHANGED <<setting, entry, pc, rounds, dir, before, todo, half, kept>>
    BY <1>2 DEF PutOpen, Stored
  <2>2. d \in Tree /\ d.made
    <3>1. dir[t][FileOf(t)] \in Contents BY <1>0, <1>c, <2>1 DEF Directory
    <3> QED BY <1>a, <1>c, <3>1 DEF Tree, Directory
  <2>3. stage' \in [Pids -> Tree] /\ \A p \in Pids : ~stage'[p].made => stage'[p] = NoDir
    <3> HIDE DEF d
    <3> QED BY <2>1, <2>2, StageSet
  <2>4. pc' = [pc EXCEPT ![t] = "put"] /\ todo' = [todo EXCEPT ![t] = todo[t]] BY <1>0, <2>1
  <2>5. handle' \in [Threads -> {"none", "stage", "entry", "gone"}]
        /\ \A u \in Threads : handle'[u] = "none" \/ handle[u] # "none" \/ u = t
    BY <1>0, <2>1
  <2>6. todo[t] \in SUBSET Line BY <1>0
  <2> QED BY <1>0, <1>b, <1>p, <2>1, <2>3, <2>4, <2>5, <2>6, TypeStore
<1>3. CASE PutClose(t)
  <2>1. /\ pc[t] = "put" /\ handle' = [handle EXCEPT ![t] = "none"]
        /\ todo' = [todo EXCEPT ![t] = todo[t] \ {First(todo[t])}]
        /\ UNCHANGED <<setting, entry, stage, pc, rounds, dir, before, half, kept>>
    BY <1>3 DEF PutClose, Stored, diskVars
  <2>2. pc' = [pc EXCEPT ![t] = "put"] BY <1>0, <2>1
  <2>3. handle' \in [Threads -> {"none", "stage", "entry", "gone"}] /\ handle'[t] = "none"
        /\ \A u \in Threads : handle'[u] = "none" \/ handle[u] # "none" \/ u = t
    BY <1>0, <2>1
  <2> DEFINE lines == todo[t] \ {First(todo[t])}
  <2>4. lines \in SUBSET Line /\ todo' = [todo EXCEPT ![t] = lines] BY <1>0, <2>1
  <2>5. /\ entry' \in Tree /\ stage' \in [Pids -> Tree] /\ (~entry'.made => entry' = NoDir)
        /\ \A p \in Pids : ~stage'[p].made => stage'[p] = NoDir
    BY <1>0, <1>b, <1>d, <2>1
  <2>6. UNCHANGED <<setting, rounds, dir, before, half, kept>> BY <2>1
  <2> HIDE DEF lines
  <2> QED BY <1>p, <2>2, <2>3, <2>4, <2>5, <2>6, TypeStore
<1>4. CASE PutSidecar(t)
  <2> DEFINE d == [own EXCEPT !.sidecar = TRUE]
  <2>1. /\ own.made /\ handle[t] = "none" /\ stage' = [stage EXCEPT ![Pid(t)] = d]
        /\ todo' = [todo EXCEPT ![t] = {}] /\ pc' = [pc EXCEPT ![t] = "manifest"]
        /\ UNCHANGED <<setting, entry, rounds, dir, before, handle, half, kept>>
    BY <1>4 DEF PutSidecar, InPlace, Goto
  <2>2. d \in Tree /\ d.made BY <1>a, <2>1 DEF Tree
  <2>3. stage' \in [Pids -> Tree] /\ \A p \in Pids : ~stage'[p].made => stage'[p] = NoDir
    <3> HIDE DEF d
    <3> QED BY <2>1, <2>2, StageSet
  <2> QED BY <1>0, <1>b, <1>e, <1>p, <2>1, <2>3, TypeStore
<1>5. CASE PutManifest(t)
  <2> DEFINE d == [own EXCEPT !.listed = TRUE, !.manifest = Lines(before[t], dir[t])]
  <2>1. /\ own.made /\ pc[t] = "manifest" /\ stage' = [stage EXCEPT ![Pid(t)] = d]
        /\ pc' = [pc EXCEPT ![t] = "rename"]
        /\ UNCHANGED <<setting, entry, rounds, dir, before, todo, handle, half, kept>>
    BY <1>5 DEF PutManifest, InPlace, Goto
  <2>2. d \in Tree /\ d.made
    <3>1. Lines(before[t], dir[t]) \in SUBSET Line BY <1>0, LineTypes
    <3> QED BY <1>a, <2>1, <3>1 DEF Tree
  <2>3. stage' \in [Pids -> Tree] /\ \A p \in Pids : ~stage'[p].made => stage'[p] = NoDir
    <3> HIDE DEF d
    <3> QED BY <2>1, <2>2, StageSet
  <2>4. handle[t] = "none" BY <2>1, NoneOpen
  <2>5. todo' = [todo EXCEPT ![t] = todo[t]] /\ todo[t] \in SUBSET Line BY <1>0, <2>1
  <2> QED BY <1>0, <1>b, <1>p, <2>1, <2>3, <2>4, <2>5, TypeStore
<1>6. CASE Publish(t)
  <2>1. /\ pc[t] = "rename" /\ own.made /\ entry' = own
        /\ stage' = [stage EXCEPT ![Pid(t)] = NoDir]
        /\ handle' = [u \in Threads |-> IF handle[u] = "stage" /\ u \in Pid(t)
                                          THEN "entry" ELSE handle[u]]
        /\ todo' = [todo EXCEPT ![t] = {}] /\ pc' = [pc EXCEPT ![t] = "ok"]
        /\ UNCHANGED <<setting, rounds, dir, before, half, kept>>
    BY <1>6 DEF Publish, Publishable, InPlace, Goto
  <2>2. stage' \in [Pids -> Tree] /\ \A p \in Pids : ~stage'[p].made => stage'[p] = NoDir
    BY <2>1, Trees, StageSet
  <2>3. handle[t] = "none" BY <2>1, NoneOpen
  <2>4. handle' \in [Threads -> {"none", "stage", "entry", "gone"}] /\ handle'[t] = "none"
        /\ \A u \in Threads : handle'[u] = "none" \/ handle[u] # "none" \/ u = t
    BY <1>0, <2>1, <2>3
  <2> QED BY <1>0, <1>a, <1>e, <1>p, <2>1, <2>2, <2>4, TypeStore
<1>7. CASE StoreFails(t)
  <2>1. /\ pc' = [pc EXCEPT ![t] = "ok"] /\ todo' = [todo EXCEPT ![t] = {}]
        /\ UNCHANGED <<setting, rounds, dir, before, half, kept>>
    BY <1>7 DEF StoreFails, Goto
  <2>2. PICK d \in Tree : (~d.made => d = NoDir) /\ RemoveStage(t, d) BY <1>7, FailureLeaves
  <2>3. stage' \in [Pids -> Tree] /\ \A p \in Pids : ~stage'[p].made => stage'[p] = NoDir
    BY <2>2, RemovedHandles, StageSet
  <2>4. entry' \in Tree /\ (~entry'.made => entry' = NoDir) BY <1>7, FailureLeaves
  <2> QED BY <1>e, <1>p, <2>1, <2>2, <2>3, <2>4, RemovedHandles, TypeStore
<1> QED BY <1>1, <1>2, <1>3, <1>4, <1>5, <1>6, <1>7

(* What the end of a process leaves of a directory: the files it had open  *)
(* there are cut.                                                          *)
OpenFiles(t, place) == {FileOf(u) : u \in {v \in Pid(t) : handle[v] = place}}

Left(d, open) == [d EXCEPT !.files = [f \in Files |-> IF f \in open THEN "cut" ELSE d.files[f]]]

LEMMA LeftTree ==
  ASSUME NEW d \in Tree, NEW open, d.made \/ open = {}, ~d.made => d = NoDir
  PROVE  /\ Left(d, open) \in Tree /\ Left(d, open).made = d.made
         /\ ~Left(d, open).made => Left(d, open) = NoDir
         /\ \A f \in Files : Left(d, open).files[f] \in {d.files[f], "cut"}
         /\ open = {} => Left(d, open) = d
<1> DEFINE e == Left(d, open)
<1>1. d.files \in Directory BY DEF Tree
<1>2. [f \in Files |-> IF f \in open THEN "cut" ELSE d.files[f]] \in Directory
  BY <1>1 DEF Directory, Contents
<1>3. e \in Tree /\ e.made = d.made BY <1>2 DEF Tree, Left
<1>4. \A f \in Files : e.files[f] \in {d.files[f], "cut"} BY DEF Tree, Left
<1>5. open = {} => e = d
  <2> SUFFICES ASSUME open = {} PROVE e = d OBVIOUS
  <2>1. [f \in Files |-> IF f \in open THEN "cut" ELSE d.files[f]] = d.files
    BY <1>1 DEF Directory
  <2>2. e = [d EXCEPT !.files = d.files] BY <2>1 DEF Left
  <2> QED BY <2>2 DEF Tree
<1> QED BY <1>3, <1>4, <1>5

LEMMA CrashLeaves ==
  ASSUME NEW t \in Threads, Crash(t)
  PROVE  /\ pc' = [u \in Threads |-> IF u \in Pid(t) THEN "idle" ELSE pc[u]]
         /\ todo' = [u \in Threads |-> IF u \in Pid(t) THEN {} ELSE todo[u]]
         /\ handle' = [u \in Threads |-> IF u \in Pid(t) THEN "none" ELSE handle[u]]
         /\ stage' = [stage EXCEPT ![Pid(t)] = Left(stage[Pid(t)], OpenFiles(t, "stage"))]
         /\ entry' = Left(entry, OpenFiles(t, "entry"))
         /\ UNCHANGED <<setting, rounds, dir, before, half, kept>>
BY DEF Crash, Left, OpenFiles

LEMMA CrashTrees ==
  ASSUME TypeOK, OpenInv, NEW t \in Threads, Crash(t)
  PROVE  /\ stage' \in [Pids -> Tree] /\ entry' \in Tree
         /\ entry'.made = entry.made /\ (~entry'.made => entry' = NoDir)
         /\ \A f \in Files : entry'.files[f] \in {entry.files[f], "cut"}
         /\ \A p \in Pids : /\ stage'[p].made = stage[p].made
                            /\ ~stage'[p].made => stage'[p] = NoDir
                            /\ \A f \in Files : stage'[p].files[f] \in {stage[p].files[f], "cut"}
                            /\ p # Pid(t) => stage'[p] = stage[p]
<1>0. /\ entry \in Tree /\ stage \in [Pids -> Tree] /\ Pid(t) \in Pids /\ Pid(t) \subseteq Threads
      /\ (~entry.made => entry = NoDir) /\ \A p \in Pids : ~stage[p].made => stage[p] = NoDir
  BY OwnPid DEF TypeOK
<1> DEFINE own == stage[Pid(t)]
<1>1. own.made \/ OpenFiles(t, "stage") = {}
  <2> SUFFICES ASSUME NEW u \in Pid(t), handle[u] = "stage" PROVE own.made
    BY DEF OpenFiles
  <2>1. Pid(u) = Pid(t) BY <1>0, OwnPid
  <2> QED BY <1>0, <2>1 DEF OpenInv
<1>2. entry.made \/ OpenFiles(t, "entry") = {} BY <1>0 DEF OpenFiles, OpenInv
<1> DEFINE e == Left(entry, OpenFiles(t, "entry"))
           d == Left(own, OpenFiles(t, "stage"))
<1>3. /\ e \in Tree /\ e.made = entry.made /\ (~e.made => e = NoDir)
      /\ \A f \in Files : e.files[f] \in {entry.files[f], "cut"}
  BY <1>0, <1>2, LeftTree
<1>4. /\ d \in Tree /\ d.made = own.made /\ (~d.made => d = NoDir)
      /\ \A f \in Files : d.files[f] \in {own.files[f], "cut"}
  BY <1>0, <1>1, LeftTree
<1>5. stage' = [stage EXCEPT ![Pid(t)] = d] /\ entry' = e BY CrashLeaves
<1> HIDE DEF d, e
<1>6. stage' \in [Pids -> Tree] /\ \A p \in Pids : ~stage'[p].made => stage'[p] = NoDir
  BY <1>4, <1>5, StageSet
<1>7. ASSUME NEW p \in Pids
      PROVE  /\ stage'[p].made = stage[p].made
             /\ \A f \in Files : stage'[p].files[f] \in {stage[p].files[f], "cut"}
             /\ p # Pid(t) => stage'[p] = stage[p]
  <2>1. CASE p = Pid(t) BY <1>0, <1>4, <1>5, <2>1
  <2>2. CASE p # Pid(t) BY <1>0, <1>5, <2>2
  <2> QED BY <2>1, <2>2
<1> QED BY <1>3, <1>5, <1>6, <1>7

LEMMA TypeOfCrash == ASSUME TypeOK, OpenInv, NEW t \in Threads, Crash(t) PROVE TypeOK'
<1>1. pc' \in [Threads -> Places] /\ todo' \in [Threads -> SUBSET Line]
      /\ handle' \in [Threads -> {"none", "stage", "entry", "gone"}]
  BY CrashLeaves DEF TypeOK, Places, Idle
<1>2. ASSUME NEW u \in Threads, handle'[u] # "none" PROVE Stored(u)'
  <2>1. u \notin Pid(t) BY <1>2, CrashLeaves
  <2>2. handle'[u] = handle[u] /\ pc'[u] = pc[u] /\ todo'[u] = todo[u] BY <2>1, CrashLeaves
  <2>3. Stored(u) BY <1>2, <2>2 DEF TypeOK
  <2> QED BY <2>2, <2>3 DEF Stored
<1>3. entry' \in Tree /\ stage' \in [Pids -> Tree] /\ (~entry'.made => entry' = NoDir)
      /\ \A p \in Pids : ~stage'[p].made => stage'[p] = NoDir
  BY CrashTrees
<1>4. UNCHANGED <<setting, rounds, dir, before, half, kept>> BY CrashLeaves
<1> QED BY <1>1, <1>2, <1>3, <1>4 DEF TypeOK, Places

LEMMA StepType == TypeOK /\ OpenInv /\ [Next]_vars => TypeOK'
<1> SUFFICES ASSUME TypeOK, OpenInv, [Next]_vars PROVE TypeOK' OBVIOUS
<1>1. CASE UNCHANGED vars
  BY <1>1 DEF vars, threadVars, diskVars, TypeOK, Stored, NoDir, Absent
<1>2. ASSUME NEW t \in Threads, Thread(t) PROVE TypeOK'
  BY <1>2, TypeOfBegin, TypeOfRestore, TypeOfRun, TypeOfStore, TypeOfCrash DEF Thread
<1> QED BY <1>1, <1>2 DEF Next

-----------------------------------------------------------------------------
(* OpenInv.                                                                *)

LEMMA InitOpen == Init => OpenInv
BY DEF Init, OpenInv

LEMMA StepOpen == TypeOK /\ OpenInv /\ [Next]_vars => OpenInv'
<1> SUFFICES ASSUME TypeOK, OpenInv, [Next]_vars PROVE OpenInv' OBVIOUS
<1>0. /\ handle \in [Threads -> {"none", "stage", "entry", "gone"}]
      /\ stage \in [Pids -> Tree] /\ (\A u \in Threads : Pid(u) \in Pids /\ u \in Pid(u))
      /\ \A u, v \in Threads : v \in Pid(u) => Pid(v) = Pid(u)
      /\ setting' = setting /\ \A u \in Threads : Pid(u)' = Pid(u)
  <2>1. setting' = setting
    BY DEF Next, Thread, vars, Begin, RestoreLine, RestoreFails, Hit, LaunchRefused, RunSucceeds,
           RunFails, Clear, PutOpen, PutClose, PutSidecar, PutManifest, Publish, SnapshotFails,
           StoreFails, Crash
  <2> QED BY <2>1, OwnPid, SamePid DEF TypeOK
<1>1. ASSUME UNCHANGED <<entry, stage, handle>> PROVE OpenInv'
  BY <1>0, <1>1 DEF OpenInv
<1>2. CASE UNCHANGED vars BY <1>1, <1>2 DEF vars, threadVars, diskVars
<1>3. ASSUME NEW t \in Threads, Thread(t) PROVE OpenInv'
  <2>1. CASE \/ Begin(t) \/ RestoreLine(t) \/ RestoreFails(t) \/ Hit(t) \/ LaunchRefused(t)
             \/ RunSucceeds(t) \/ RunFails(t) \/ SnapshotFails(t)
    BY <1>1, <2>1 DEF Begin, RestoreLine, RestoreFails, Hit, LaunchRefused, RunSucceeds, RunFails,
                      SnapshotFails, diskVars
  <2>2. ASSUME NEW then, RemoveStage(t, then), then.made \/ then.files = Absent,
               entry'.made = entry.made
        PROVE  OpenInv'
    <3> SUFFICES ASSUME NEW u \in Threads
                 PROVE  /\ handle'[u] = "stage" => stage'[Pid(u)].made
                        /\ handle'[u] = "entry" => entry'.made
                        /\ ~setting.shared => handle'[u] \in {"none", "stage"}
      BY <1>0 DEF OpenInv
    <3>1. /\ handle'[t] = "none" /\ (handle'[u] # "none" => handle[u] # "none")
          /\ handle'[u] = "stage" => /\ handle[u] = "stage"
                                     /\ u \in Pid(t) => then.files[FileOf(u)] # "absent"
          /\ handle'[u] = "entry" => handle[u] = "entry"
          /\ u \notin Pid(t) => handle'[u] = handle[u]
          /\ stage' = [stage EXCEPT ![Pid(t)] = then]
      BY <2>2, RemovedHandles
    <3>2. handle'[u] = "stage" => stage'[Pid(u)].made
      <4> SUFFICES ASSUME handle'[u] = "stage" PROVE stage'[Pid(u)].made OBVIOUS
      <4>1. CASE u \notin Pid(t)
        <5>1. stage'[Pid(u)] = stage[Pid(u)] BY <1>0, <3>1, <4>1
        <5> QED BY <3>1, <5>1 DEF OpenInv
      <4>2. CASE u \in Pid(t)
        <5>1. todo[u] # {} /\ todo[u] \in SUBSET Line BY <3>1 DEF TypeOK, Stored
        <5>2. FileOf(u) \in Files BY <5>1, FirstIsIn DEF FileOf, Line
        <5>3. then.made BY <2>2, <3>1, <4>2, <5>2 DEF Absent
        <5>4. stage'[Pid(u)] = then BY <1>0, <3>1, <4>2
        <5> QED BY <5>3, <5>4
      <4> QED BY <4>1, <4>2
    <3>3. ~setting.shared => handle'[u] \in {"none", "stage"}
      <4>1. CASE u = t BY <3>1, <4>1
      <4>2. CASE u # t
        <5> SUFFICES ASSUME ~setting.shared PROVE handle'[u] \in {"none", "stage"} OBVIOUS
        <5>1. u \notin Pid(t) BY <4>2, OwnPid
        <5> QED BY <3>1, <5>1 DEF OpenInv
      <4> QED BY <4>1, <4>2
    <3> QED BY <2>2, <3>1, <3>2, <3>3 DEF OpenInv
  <2>3. CASE Clear(t)
    <3>1. PICK d \in Tree : d.made /\ RemoveStage(t, d) BY <2>3, ClearLeaves
    <3>2. entry' = entry BY <2>3 DEF Clear
    <3> QED BY <2>2, <3>1, <3>2
  <2>4. CASE StoreFails(t)
    <3>1. PICK d \in Tree : (~d.made => d = NoDir) /\ RemoveStage(t, d) BY <2>4, FailureLeaves
    <3>2. entry'.made = entry.made BY <2>4, FailureLeaves
    <3> QED BY <2>2, <3>1, <3>2, Trees
  <2>5. CASE PutOpen(t)
    <3> DEFINE d == [stage[Pid(t)] EXCEPT !.made = TRUE,
                                          !.files[FileOf(t)] = dir[t][FileOf(t)]]
    <3>1. handle' = [handle EXCEPT ![t] = "stage"] /\ stage' = [stage EXCEPT ![Pid(t)] = d]
          /\ entry' = entry
      BY <2>5 DEF PutOpen
    <3>2. d.made BY <1>0 DEF Tree
    <3> HIDE DEF d
    <3>3. \A u \in Threads : stage'[Pid(u)].made \/ stage'[Pid(u)] = stage[Pid(u)]
      BY <1>0, <3>1, <3>2
    <3> QED BY <1>0, <3>1, <3>2, <3>3 DEF OpenInv
  <2>6. CASE PutClose(t)
    <3>1. handle' = [handle EXCEPT ![t] = "none"] /\ UNCHANGED <<stage, entry>>
      BY <2>6 DEF PutClose, diskVars
    <3> QED BY <1>0, <3>1 DEF OpenInv
  <2>7. CASE PutSidecar(t) \/ PutManifest(t)
    <3>1. PICK d : /\ stage' = [stage EXCEPT ![Pid(t)] = d]
                   /\ \/ d = [stage[Pid(t)] EXCEPT !.sidecar = TRUE]
                      \/ d = [stage[Pid(t)] EXCEPT !.listed = TRUE,
                                                   !.manifest = Lines(before[t], dir[t])]
      BY <2>7 DEF PutSidecar, PutManifest
    <3>2. stage[Pid(t)] \in Tree BY <1>0
    <3>3. d.made = stage[Pid(t)].made BY <3>1, <3>2 DEF Tree
    <3>4. \A u \in Threads : stage'[Pid(u)].made = stage[Pid(u)].made BY <1>0, <3>1, <3>3
    <3>5. UNCHANGED <<entry, handle>> BY <2>7 DEF PutSidecar, PutManifest
    <3> QED BY <1>0, <3>4, <3>5 DEF OpenInv
  <2>8. CASE Publish(t)
    <3>1. /\ stage[Pid(t)].made /\ entry' = stage[Pid(t)]
          /\ stage' = [stage EXCEPT ![Pid(t)] = NoDir] /\ pc[t] = "rename"
          /\ handle' = [u \in Threads |-> IF handle[u] = "stage" /\ u \in Pid(t)
                                            THEN "entry" ELSE handle[u]]
      BY <2>8 DEF Publish, Publishable, InPlace
    <3>2. handle[t] = "none" BY <3>1, NoneOpen
    <3> SUFFICES ASSUME NEW u \in Threads
                 PROVE  /\ handle'[u] = "stage" => stage'[Pid(u)].made
                        /\ handle'[u] = "entry" => entry'.made
                        /\ ~setting.shared => handle'[u] \in {"none", "stage"}
      BY <1>0 DEF OpenInv
    <3>3. CASE u \in Pid(t)
      <4>1. handle'[u] # "stage" /\ entry'.made BY <3>1, <3>3
      <4>2. ~setting.shared => u = t BY <3>3, OwnPid
      <4> QED BY <3>1, <3>2, <4>1, <4>2
    <3>4. CASE u \notin Pid(t)
      <4>1. Pid(u) # Pid(t) /\ handle'[u] = handle[u] /\ entry'.made BY <1>0, <3>1, <3>4
      <4>2. stage'[Pid(u)] = stage[Pid(u)] BY <1>0, <3>1, <4>1
      <4> QED BY <4>1, <4>2 DEF OpenInv
    <3> QED BY <3>3, <3>4
  <2>9. CASE Crash(t)
    <3>1. \A u \in Threads : handle'[u] \in {"none", handle[u]} BY <2>9, CrashLeaves
    <3>2. entry'.made = entry.made /\ \A p \in Pids : stage'[p].made = stage[p].made
      BY <2>9, CrashTrees
    <3> QED BY <1>0, <3>1, <3>2 DEF OpenInv
  <2> QED BY <1>3, <2>1, <2>3, <2>4, <2>5, <2>6, <2>7, <2>8, <2>9 DEF Thread
<1> QED BY <1>2, <1>3 DEF Next


-----------------------------------------------------------------------------
(* ContentInv.                                                             *)

LEMMA InitContent == Init => ContentInv
<1> SUFFICES ASSUME Init PROVE ContentInv OBVIOUS
<1>1. \A f \in Files : Absent[f] = "absent" BY DEF Absent
<1>2. entry.files = Absent /\ \A p \in Pids : stage[p].files = Absent BY Trees DEF Init
<1>3. \A t \in Threads : pc[t] = "idle" /\ half[t] = FALSE BY DEF Init
<1> QED BY <1>1, <1>2, <1>3 DEF ContentInv, Replayable

(* What ContentInv says of one thread. *)
ThreadContent(t) ==
  /\ pc[t] = "restore" \/ half[t] = TRUE => entry.made
  /\ pc[t] \in {"restore", "hit"} =>
       \A f \in Files : dir[t][f] \notin {"broken", "drifted"}

LEMMA ContentQuiet ==
  ASSUME ContentInv, NEW t \in Threads, UNCHANGED <<entry, stage>>,
         \A u \in Threads \ {t} : pc'[u] = pc[u] /\ half'[u] = half[u] /\ dir'[u] = dir[u],
         ThreadContent(t)'
  PROVE  ContentInv'
<1>1. ASSUME NEW u \in Threads PROVE ThreadContent(u)'
  <2>1. CASE u = t BY <2>1
  <2>2. CASE u # t BY <2>2 DEF ThreadContent, ContentInv
  <2> QED BY <2>1, <2>2
<1> QED BY <1>1 DEF ContentInv, ThreadContent

LEMMA ContentStore ==
  ASSUME TypeOK, ContentInv, NEW t \in Threads, UNCHANGED <<dir, half>>,
         NEW place \in AfterRun, pc' = [pc EXCEPT ![t] = place],
         entry.made => entry'.made, \A f \in Files : entry'.files[f] \in Replayable,
         \A p \in Pids, f \in Files : entry'.made \/ stage'[p].files[f] \in Replayable
  PROVE  ContentInv'
<1>1. pc \in [Threads -> Places] BY DEF TypeOK, Places
<1>2. ASSUME NEW u \in Threads PROVE ThreadContent(u)'
  <2>1. CASE u = t BY <1>1, <2>1 DEF ThreadContent, ContentInv, AfterRun
  <2>2. CASE u # t BY <1>1, <2>2 DEF ThreadContent, ContentInv
  <2> QED BY <2>1, <2>2
<1>3. Replayable' = Replayable BY DEF Replayable
<1> QED BY <1>2, <1>3 DEF ContentInv, ThreadContent

LEMMA ContentOfBegin == ASSUME TypeOK, ContentInv, NEW t \in Threads, Begin(t) PROVE ContentInv'
<1>0. /\ pc \in [Threads -> Places] /\ dir \in [Threads -> Directory]
      /\ half \in [Threads -> BOOLEAN]
      /\ setting.caller \in {"avl", "listed", "whole"}
      /\ (~entry.made => entry = NoDir) /\ UNCHANGED <<entry, stage>>
  BY DEF TypeOK, Places, Begin, diskVars
<1>1. PICK d \in Starts : dir' = [dir EXCEPT ![t] = d]
  BY DEF Begin
<1>2. \A f \in Files : d[f] \in {"absent", "input", "result", "stale"} BY <1>0, StartFiles
<1>3. PICK place \in {"restore", "run"} : /\ pc' = [pc EXCEPT ![t] = place]
                                          /\ place = "restore" => entry.listed
  BY DEF Begin, Look, Goto
<1>4. entry.listed => entry.made BY <1>0 DEF NoDir
<1>5. half' = [half EXCEPT ![t] = FALSE] BY DEF Begin
<1>6. ThreadContent(t)' BY <1>0, <1>1, <1>2, <1>3, <1>4, <1>5 DEF ThreadContent
<1> QED BY <1>0, <1>1, <1>3, <1>5, <1>6, ContentQuiet

LEMMA ContentOfRestore ==
  ASSUME TypeOK, ContentInv, NEW t \in Threads, RestoreLine(t) \/ RestoreFails(t) \/ Hit(t)
  PROVE  ContentInv'
<1>0. /\ pc \in [Threads -> Places] /\ dir \in [Threads -> Directory]
      /\ half \in [Threads -> BOOLEAN] /\ todo \in [Threads -> SUBSET Line]
      /\ UNCHANGED <<entry, stage>> /\ pc[t] = "restore"
  BY DEF TypeOK, Places, RestoreLine, RestoreFails, Hit, diskVars
<1>1. ThreadContent(t) BY DEF ContentInv, ThreadContent
<1>2. CASE RestoreLine(t)
  <2>1. UNCHANGED <<pc, half>> BY <1>2 DEF RestoreLine
  <2>2. CASE dir' = dir
    <3>1. ThreadContent(t)' BY <1>0, <1>1, <2>1, <2>2 DEF ThreadContent
    <3> QED BY <1>0, <2>1, <2>2, <3>1, ContentQuiet
  <2>3. CASE dir' # dir
    <3>1. FileOf(t) \in Files BY <1>0, <1>2, FirstIsIn DEF RestoreLine, FileOf, Line
    <3>2. PICK c \in {ReadEntry(FileOf(t)), "absent"} : dir' = [dir EXCEPT ![t][FileOf(t)] = c]
      BY <1>2, <2>3 DEF RestoreLine
    <3>3. c \notin {"broken", "drifted"} BY <3>1 DEF ReadEntry, ContentInv, Replayable
    <3>4. \A f \in Files : dir'[t][f] \notin {"broken", "drifted"}
      BY <1>0, <1>1, <3>1, <3>2, <3>3 DEF ThreadContent, Directory
    <3>5. ThreadContent(t)' BY <1>0, <1>1, <2>1, <3>4 DEF ThreadContent
    <3> QED BY <1>0, <2>1, <3>2, <3>5, ContentQuiet
  <2> QED BY <2>2, <2>3
<1>3. CASE RestoreFails(t)
  <2>1. PICK c : dir' = [dir EXCEPT ![t][FileOf(t)] = c] BY <1>3 DEF RestoreFails
  <2>2. half' = [half EXCEPT ![t] = dir'[t] # before[t]] /\ pc' = [pc EXCEPT ![t] = "run"]
    BY <1>3 DEF RestoreFails, Goto
  <2>3. ThreadContent(t)' BY <1>0, <1>1, <2>2 DEF ThreadContent
  <2>4. \A u \in Threads \ {t} : dir'[u] = dir[u] BY <1>0, <2>1
  <2> QED BY <1>0, <2>2, <2>3, <2>4, ContentQuiet
<1>4. CASE Hit(t)
  <2>1. pc' = [pc EXCEPT ![t] = "hit"] /\ UNCHANGED <<half, dir>> BY <1>4 DEF Hit, Goto
  <2>2. ThreadContent(t)' BY <1>0, <1>1, <2>1 DEF ThreadContent
  <2> QED BY <1>0, <2>1, <2>2, ContentQuiet
<1> QED BY <1>2, <1>3, <1>4

LEMMA ContentOfRun ==
  ASSUME TypeOK, ContentInv, NEW t \in Threads,
         RunSucceeds(t) \/ LaunchRefused(t) \/ RunFails(t) \/ SnapshotFails(t)
  PROVE  ContentInv'
<1>0. pc \in [Threads -> Places] /\ dir \in [Threads -> Directory] BY DEF TypeOK, Places
<1>1. /\ UNCHANGED <<entry, stage, half>> /\ pc[t] \in {"run", "ran"}
      /\ \E place \in {"ran", "refused", "failed", "ok"} : pc' = [pc EXCEPT ![t] = place]
  BY DEF RunSucceeds, LaunchRefused, RunFails, SnapshotFails, Goto, diskVars
<1>2. PICK d : dir' = [dir EXCEPT ![t] = d]
  <2>1. dir = [dir EXCEPT ![t] = dir[t]] BY <1>0
  <2> QED BY <2>1 DEF RunSucceeds, LaunchRefused, RunFails, SnapshotFails
<1>3. ThreadContent(t)' BY <1>0, <1>1 DEF ThreadContent, ContentInv
<1>4. \A u \in Threads \ {t} : pc'[u] = pc[u] /\ dir'[u] = dir[u] BY <1>0, <1>1, <1>2
<1> QED BY <1>1, <1>3, <1>4, ContentQuiet

(* Until there is an entry, what a store copies is the outcome of a run.   *)
LEMMA ContentOfStore ==
  ASSUME TypeOK, DirInv, OpenInv, ContentInv, NEW t \in Threads,
         \/ Clear(t) \/ PutOpen(t) \/ PutClose(t) \/ PutSidecar(t) \/ PutManifest(t)
         \/ Publish(t) \/ StoreFails(t)
  PROVE  ContentInv'
<1>0. /\ pc \in [Threads -> Places] /\ stage \in [Pids -> Tree] /\ Pid(t) \in Pids
      /\ UNCHANGED <<dir, half>> /\ pc[t] \in AfterRun
      /\ todo \in [Threads -> SUBSET Line] /\ entry \in Tree
  BY OwnPid DEF TypeOK, Places, AfterRun, Clear, PutOpen, Stored, PutClose, PutSidecar, PutManifest,
            Publish, Publishable, StoreFails, diskVars
<1>1. PICK place \in AfterRun : pc' = [pc EXCEPT ![t] = place]
  <2>1. pc = [pc EXCEPT ![t] = pc[t]] BY <1>0
  <2> QED BY <1>0, <2>1 DEF AfterRun, Goto, Clear, PutOpen, PutClose, PutSidecar, PutManifest,
                            Publish, StoreFails
<1> DEFINE own == stage[Pid(t)]
<1>2. \A f \in Files : entry.files[f] \in Replayable BY DEF ContentInv
<1>3. \A p \in Pids, f \in Files : entry.made \/ stage[p].files[f] \in Replayable
  BY DEF ContentInv
<1>4. own \in Tree /\ own.files \in Directory BY <1>0 DEF Tree
<1>5. ASSUME NEW d, stage' = [stage EXCEPT ![Pid(t)] = d], entry' = entry,
             \A f \in Files : entry.made \/ d.files[f] \in Replayable
      PROVE  ContentInv'
  <2>1. \A p \in Pids, f \in Files : entry.made \/ stage'[p].files[f] \in Replayable
    BY <1>0, <1>3, <1>5
  <2> QED BY <1>0, <1>1, <1>2, <1>5, <2>1, ContentStore
<1>6. \A f \in Files : entry.made \/ own.files[f] \in Replayable BY <1>0, <1>3
<1>7. CASE Clear(t)
  <2>1. PICK d \in Tree : /\ RemoveStage(t, d)
                         /\ \A f \in Files : d.files[f] \in {"absent", own.files[f]}
    BY <1>7, ClearLeaves
  <2>2. stage' = [stage EXCEPT ![Pid(t)] = d] /\ entry' = entry
    BY <1>7, <2>1 DEF Clear, RemoveStage
  <2>3. \A f \in Files : entry.made \/ d.files[f] \in Replayable BY <1>6, <2>1 DEF Replayable
  <2> QED BY <1>5, <2>2, <2>3
<1>8. CASE StoreFails(t)
  <2>1. PICK d \in Tree : /\ RemoveStage(t, d)
                         /\ \A f \in Files : d.files[f] \in {"absent", "cut", own.files[f]}
    BY <1>8, FailureLeaves
  <2>2. /\ entry'.made = entry.made
        /\ \A f \in Files : entry'.files[f] \in {entry.files[f], "cut"}
    BY <1>8, FailureLeaves
  <2>3. stage' = [stage EXCEPT ![Pid(t)] = d] BY <2>1 DEF RemoveStage
  <2>4. \A f \in Files : entry.made \/ d.files[f] \in Replayable BY <1>6, <2>1 DEF Replayable
  <2>5. \A p \in Pids, f \in Files : entry'.made \/ stage'[p].files[f] \in Replayable
    BY <1>0, <1>3, <2>2, <2>3, <2>4
  <2>6. \A f \in Files : entry'.files[f] \in Replayable BY <1>2, <2>2 DEF Replayable
  <2> QED BY <1>0, <1>1, <2>2, <2>5, <2>6, ContentStore
<1>9. CASE PutOpen(t)
  <2> DEFINE c == dir[t][FileOf(t)]
             d == [own EXCEPT !.made = TRUE, !.files[FileOf(t)] = c]
  <2>1. stage' = [stage EXCEPT ![Pid(t)] = d] /\ entry' = entry /\ todo[t] # {}
    BY <1>9 DEF PutOpen, Stored
  <2>2. FileOf(t) \in Files BY <1>0, <2>1, FirstIsIn DEF FileOf, Line
  <2>3. entry.made \/ c \in Replayable
    <3> SUFFICES ASSUME ~entry.made PROVE c \in Replayable OBVIOUS
    <3>1. half[t] # TRUE BY DEF ContentInv
    <3>2. dir[t] = Outcome BY <1>0, <3>1 DEF DirInv
    <3> QED BY <2>2, <3>2 DEF Outcome, Replayable
  <2>4. \A f \in Files : d.files[f] \in {c, own.files[f]} BY <1>4, <2>2 DEF Tree, Directory
  <2>5. \A f \in Files : entry.made \/ d.files[f] \in Replayable BY <1>0, <1>3, <2>3, <2>4
  <2> HIDE DEF d
  <2> QED BY <1>5, <2>1, <2>5
<1>10. CASE PutClose(t)
  <2>1. entry' = entry /\ stage' = stage BY <1>10 DEF PutClose, diskVars
  <2> QED BY <1>0, <1>1, <1>2, <1>3, <2>1, ContentStore
<1>11. CASE PutSidecar(t) \/ PutManifest(t)
  <2>1. PICK d : /\ stage' = [stage EXCEPT ![Pid(t)] = d]
                 /\ \/ d = [own EXCEPT !.sidecar = TRUE]
                    \/ d = [own EXCEPT !.listed = TRUE, !.manifest = Lines(before[t], dir[t])]
    BY <1>11 DEF PutSidecar, PutManifest
  <2>2. d.files = own.files BY <1>4, <2>1 DEF Tree
  <2>3. entry' = entry BY <1>11 DEF PutSidecar, PutManifest
  <2> QED BY <1>0, <1>3, <1>5, <2>1, <2>2, <2>3
<1>12. CASE Publish(t)
  <2>1. entry' = own /\ own.made /\ ~entry.made BY <1>12 DEF Publish, Publishable, InPlace
  <2>2. \A f \in Files : entry'.files[f] \in Replayable BY <1>0, <1>3, <2>1
  <2> QED BY <1>0, <1>1, <2>1, <2>2, ContentStore
<1> QED BY <1>7, <1>8, <1>9, <1>10, <1>11, <1>12

LEMMA ContentOfCrash ==
  ASSUME TypeOK, OpenInv, ContentInv, NEW t \in Threads, Crash(t)
  PROVE  ContentInv'
<1>1. \A u \in Threads : pc'[u] \in {"idle", pc[u]} BY CrashLeaves
<1>2. UNCHANGED <<dir, half>> BY CrashLeaves
<1>3. /\ entry'.made = entry.made
      /\ \A f \in Files : entry'.files[f] \in {entry.files[f], "cut"}
      /\ \A p \in Pids, f \in Files : stage'[p].files[f] \in {stage[p].files[f], "cut"}
  BY CrashTrees
<1>4. "cut" \in Replayable /\ Replayable' = Replayable BY DEF Replayable
<1>5. (\A f \in Files : entry'.files[f] \in Replayable)
      /\ \A p \in Pids, f \in Files : entry'.made \/ stage'[p].files[f] \in Replayable
  BY <1>3, <1>4 DEF ContentInv
<1>6. ASSUME NEW u \in Threads PROVE ThreadContent(u)'
  BY <1>1, <1>2, <1>3 DEF ThreadContent, ContentInv
<1> QED BY <1>4, <1>5, <1>6 DEF ContentInv, ThreadContent

LEMMA StepContent == TypeOK /\ DirInv /\ OpenInv /\ ContentInv /\ [Next]_vars => ContentInv'
<1> SUFFICES ASSUME TypeOK, DirInv, OpenInv, ContentInv, [Next]_vars PROVE ContentInv' OBVIOUS
<1>1. CASE UNCHANGED vars
  BY <1>1 DEF vars, threadVars, diskVars, ContentInv, Replayable
<1>2. ASSUME NEW t \in Threads, Thread(t) PROVE ContentInv'
  BY <1>2, ContentOfBegin, ContentOfRestore, ContentOfRun, ContentOfStore, ContentOfCrash
     DEF Thread
<1> QED BY <1>1, <1>2 DEF Next


-----------------------------------------------------------------------------
(* AloneInv.                                                               *)

LEMMA InitAlone == Init => AloneInv
<1> SUFFICES ASSUME Init PROVE AloneInv OBVIOUS
<1>1. ~entry.made BY Trees DEF Init
<1>2. \A t \in Threads : pc[t] = "idle" BY DEF Init
<1> QED BY <1>1, <1>2 DEF AloneInv, EntryInv, StagedInv, ReplayedInv

(* A manifest names no file twice.                                         *)
LEMMA EitherKind ==
  ASSUME NEW old, NEW new, NEW f \in Files
  PROVE  /\ <<"F", f>> \in Lines(old, new) <=> f \in Changed(old, new)
         /\ <<"D", f>> \in Lines(old, new) <=> f \in Deleted(old, new)
         /\ ~(f \in Changed(old, new) /\ f \in Deleted(old, new))
BY DEF Lines, Changed, Deleted

(* The step of another thread, of another process, or none: it has no file *)
(* of this one, and publishes only where there is no entry.                *)
LEMMA Elsewhere ==
  ASSUME AloneInv, ~setting.shared, NEW u \in Threads,
         /\ pc'[u] = pc[u] /\ todo'[u] = todo[u] /\ dir'[u] = dir[u]
         /\ before'[u] = before[u] /\ kept'[u] = kept[u] /\ handle'[u] = handle[u]
         /\ stage'[{u}] = stage[{u}],
         entry' = entry \/ ~entry.made
  PROVE  StagedInv(u)' /\ ReplayedInv(u)'
<1>1. StagedInv(u) /\ ReplayedInv(u) BY DEF AloneInv
<1>2. StagedInv(u)'
  <2>1. Changed(before[u], dir[u])' = Changed(before[u], dir[u])
        /\ Lines(before[u], dir[u])' = Lines(before[u], dir[u]) /\ FileOf(u)' = FileOf(u)
    BY DEF Changed, Lines, Deleted, FileOf, First, Rank
  <2>2. Copied(u)' = Copied(u) BY <2>1 DEF Copied
  <2> QED BY <1>1, <2>1, <2>2 DEF StagedInv
<1>3. ReplayedInv(u)' BY <1>1 DEF ReplayedInv
<1> QED BY <1>2, <1>3

LEMMA AloneStep ==
  ASSUME TypeOK, AloneInv, NEW t \in Threads, setting' = setting,
         \A u \in Threads \ {t} :
           /\ pc'[u] = pc[u] /\ todo'[u] = todo[u] /\ dir'[u] = dir[u]
           /\ before'[u] = before[u] /\ kept'[u] = kept[u]
           /\ ~setting.shared => handle'[u] = handle[u] /\ stage'[{u}] = stage[{u}],
         ~setting.shared => EntryInv' /\ StagedInv(t)' /\ ReplayedInv(t)'
                            /\ (entry' = entry \/ ~entry.made)
  PROVE  AloneInv'
<1> SUFFICES ASSUME ~setting.shared, NEW u \in Threads PROVE StagedInv(u)' /\ ReplayedInv(u)'
  BY DEF AloneInv
<1>1. CASE u = t BY <1>1
<1>2. CASE u # t BY <1>2, Elsewhere
<1> QED BY <1>1, <1>2

LEMMA SameEntry == AloneInv /\ ~setting.shared /\ UNCHANGED <<setting, entry>> => EntryInv'
BY DEF AloneInv, EntryInv, EntryOf, Starts

(* Steps that are neither of a restore nor of a store.                     *)
LEMMA AloneQuiet ==
  ASSUME TypeOK, AloneInv, NEW t \in Threads, UNCHANGED <<setting, entry, stage, handle>>,
         NEW place \in Places \ {"restore", "hit", "put", "manifest", "rename"},
         pc' = [pc EXCEPT ![t] = place],
         \A u \in Threads \ {t} : /\ todo'[u] = todo[u] /\ dir'[u] = dir[u]
                                  /\ before'[u] = before[u] /\ kept'[u] = kept[u]
  PROVE  AloneInv'
<1>1. pc \in [Threads -> Places] BY DEF TypeOK, Places
<1>2. pc'[t] = place /\ \A u \in Threads \ {t} : pc'[u] = pc[u] BY <1>1
<1>3. StagedInv(t)' /\ ReplayedInv(t)' BY <1>2 DEF StagedInv, ReplayedInv
<1> QED BY <1>2, <1>3, AloneStep, SameEntry

LEMMA AloneOfBegin == ASSUME TypeOK, AloneInv, NEW t \in Threads, Begin(t) PROVE AloneInv'
<1>0. /\ pc \in [Threads -> Places] /\ dir \in [Threads -> Directory]
      /\ before \in [Threads -> Directory] /\ todo \in [Threads -> SUBSET Line]
      /\ kept \in [Threads -> SUBSET Files] /\ kept' = [kept EXCEPT ![t] = {}]
      /\ setting.caller \in {"avl", "listed", "whole"} /\ (~entry.made => entry = NoDir)
      /\ UNCHANGED <<setting, entry, stage, handle>>
  BY DEF TypeOK, Places, Begin, diskVars
<1>1. PICK d \in Starts : dir' = [dir EXCEPT ![t] = d] /\ before' = [before EXCEPT ![t] = d]
  BY DEF Begin
<1>2. d \in Directory BY <1>0, StartFiles
<1>3. CASE entry.listed /\ todo' = [todo EXCEPT ![t] = entry.manifest]
           /\ pc' = [pc EXCEPT ![t] = "restore"]
  <2>1. entry.made BY <1>0, <1>3 DEF NoDir
  <2>2. /\ pc'[t] = "restore" /\ todo'[t] = entry.manifest /\ dir'[t] = d /\ before'[t] = d
        /\ kept'[t] = {}
        /\ \A u \in Threads \ {t} : /\ pc'[u] = pc[u] /\ todo'[u] = todo[u] /\ dir'[u] = dir[u]
                                    /\ before'[u] = before[u] /\ kept'[u] = kept[u]
    BY <1>0, <1>1, <1>3
  <2>3. d = [f \in Files |-> d[f]] BY <1>2 DEF Directory
  <2>4. entry'.manifest \ todo'[t] = {} BY <1>0, <2>2
  <2>5. ReplayedInv(t)' BY <1>0, <2>1, <2>2, <2>3, <2>4 DEF ReplayedInv
  <2>6. StagedInv(t)' BY <2>2 DEF StagedInv
  <2> QED BY <1>0, <2>2, <2>5, <2>6, AloneStep, SameEntry
<1>4. CASE todo' = [todo EXCEPT ![t] = {}] /\ pc' = [pc EXCEPT ![t] = "run"]
  <2>1. \A u \in Threads \ {t} : /\ todo'[u] = todo[u] /\ dir'[u] = dir[u]
                                 /\ before'[u] = before[u] /\ kept'[u] = kept[u]
    BY <1>0, <1>1, <1>4
  <2>2. "run" \in Places \ {"restore", "hit", "put", "manifest", "rename"} BY DEF Places
  <2> QED BY <1>0, <1>4, <2>1, <2>2, AloneQuiet
<1> QED BY <1>3, <1>4 DEF Begin, Look, Goto

LEMMA AloneOfRun ==
  ASSUME TypeOK, AloneInv, NEW t \in Threads,
         RunSucceeds(t) \/ LaunchRefused(t) \/ RunFails(t) \/ SnapshotFails(t) \/ RestoreFails(t)
  PROVE  AloneInv'
<1>0. dir \in [Threads -> Directory] /\ todo \in [Threads -> SUBSET Line] BY DEF TypeOK
<1>1. /\ UNCHANGED <<setting, entry, stage, handle, before, kept>>
      /\ \E place \in {"ran", "refused", "failed", "ok", "run"} : pc' = [pc EXCEPT ![t] = place]
      /\ todo' = todo \/ todo' = [todo EXCEPT ![t] = {}]
  BY DEF RunSucceeds, LaunchRefused, RunFails, SnapshotFails, RestoreFails, Goto, diskVars
<1>2. PICK d : dir' = [dir EXCEPT ![t] = d]
  <2>1. dir = [dir EXCEPT ![t] = dir[t]] BY <1>0
  <2> QED BY <2>1 DEF RunSucceeds, LaunchRefused, RunFails, SnapshotFails, RestoreFails
<1>3. \A u \in Threads \ {t} : todo'[u] = todo[u] /\ dir'[u] = dir[u] BY <1>0, <1>1, <1>2
<1>4. {"ran", "refused", "failed", "ok", "run"}
        \subseteq Places \ {"restore", "hit", "put", "manifest", "rename"}
  BY DEF Places, Idle
<1> QED BY <1>1, <1>3, <1>4, AloneQuiet

(* A restore replays the next line.                                        *)
LEMMA AloneOfRestore ==
  ASSUME TypeOK, OpenInv, AloneInv, NEW t \in Threads, RestoreLine(t) \/ Hit(t)
  PROVE  AloneInv'
<1>0. /\ pc \in [Threads -> Places] /\ dir \in [Threads -> Directory]
      /\ todo \in [Threads -> SUBSET Line] /\ kept \in [Threads -> SUBSET Files]
      /\ pc[t] = "restore" /\ UNCHANGED <<setting, entry, stage, handle, before>>
  BY DEF TypeOK, Places, RestoreLine, Hit, diskVars
<1>1. CASE Hit(t)
  <2>1. /\ todo[t] = {} /\ pc' = [pc EXCEPT ![t] = "hit"] /\ UNCHANGED <<todo, dir, kept>>
    BY <1>1 DEF Hit, Goto
  <2>2. ASSUME ~setting.shared PROVE ReplayedInv(t)'
    BY <1>0, <2>1, <2>2 DEF AloneInv, ReplayedInv
  <2>3. StagedInv(t)' BY <1>0, <2>1 DEF StagedInv
  <2>4. \A u \in Threads \ {t} : pc'[u] = pc[u] BY <1>0, <2>1
  <2> QED BY <1>0, <2>1, <2>2, <2>3, <2>4, AloneStep, SameEntry
<1>2. CASE RestoreLine(t)
  <2> DEFINE line == First(todo[t])
             file == FileOf(t)
  <2>1. todo[t] # {} /\ todo' = [todo EXCEPT ![t] = todo[t] \ {line}] /\ pc' = pc
    BY <1>2 DEF RestoreLine
  <2>2. line \in todo[t] /\ line \in Line /\ file = line[2] /\ file \in Files
        /\ line \in {<<"F", file>>, <<"D", file>>}
    BY <1>0, <2>1, FirstIsIn DEF FileOf, Line
  <2>3. \/ /\ line[1] = "F" /\ dir' = [dir EXCEPT ![t][file] = ReadEntry(file)]
           /\ kept' = kept
        \/ /\ line[1] = "D" /\ dir' = [dir EXCEPT ![t][file] = "absent"]
           /\ kept' = kept
        \/ /\ line[1] = "D" /\ dir' = dir
           /\ kept' = [kept EXCEPT ![t] = kept[t] \cup {file}]
    BY <1>2 DEF RestoreLine
  <2> HIDE DEF line, file
  <2>4. ASSUME ~setting.shared PROVE ReplayedInv(t)'
    <3> DEFINE done  == entry.manifest \ todo[t]
               done2 == entry.manifest \ (todo[t] \ {line})
    <3>1. /\ entry.made /\ todo[t] \subseteq entry.manifest
          /\ \A f \in kept[t] : <<"D", f>> \in done
          /\ dir[t] = [f \in Files |->
               IF <<"F", f>> \in done THEN entry.files[f]
               ELSE IF <<"D", f>> \in done /\ f \notin kept[t] THEN "absent"
               ELSE before[t][f]]
      BY <1>0, <2>4 DEF AloneInv, ReplayedInv
    <3>2. done2 = done \cup {line} /\ line \notin done BY <2>2, <3>1
    <3>3. ReadEntry(file) = entry.files[file]
      BY <2>4 DEF ReadEntry, Cut, OpenInv
    <3>4. PICK old \in Starts : entry.manifest = Lines(old, Outcome)
      BY <2>4, <3>1 DEF AloneInv, EntryInv, EntryOf
    <3>5. ~(<<"F", file>> \in entry.manifest /\ <<"D", file>> \in entry.manifest)
      BY <2>2, <3>4, EitherKind
    <3>6. line \in entry.manifest /\ done \subseteq entry.manifest BY <2>2, <3>1
    <3> HIDE DEF done, done2
    <3>7. /\ \A f \in Files \ {file} : dir'[t][f] = dir[t][f] /\ (f \in kept'[t] <=> f \in kept[t])
          /\ dir'[t] = [f \in Files |-> dir'[t][f]] /\ kept'[t] \in SUBSET Files
      <4>1. dir[t] = [f \in Files |-> dir[t][f]] BY <1>0 DEF Directory
      <4>2. PICK c : dir'[t] = dir[t] \/ dir'[t] = [dir[t] EXCEPT ![file] = c] BY <1>0, <2>3
      <4>3. kept'[t] = kept[t] \/ kept'[t] = kept[t] \cup {file} BY <1>0, <2>3
      <4>4. kept[t] \in SUBSET Files BY <1>0
      <4> QED BY <2>2, <4>1, <4>2, <4>3, <4>4
    <3>8. ASSUME NEW f \in Files
          PROVE  /\ f \in kept'[t] => <<"D", f>> \in done2
                 /\ dir'[t][f] = IF <<"F", f>> \in done2 THEN entry.files[f]
                                 ELSE IF <<"D", f>> \in done2 /\ f \notin kept'[t] THEN "absent"
                                 ELSE before[t][f]
      <4>1. CASE f # file
        <5>1. <<"F", f>> \in done2 <=> <<"F", f>> \in done BY <2>2, <3>2, <4>1
        <5>2. <<"D", f>> \in done2 <=> <<"D", f>> \in done BY <2>2, <3>2, <4>1
        <5> QED BY <3>1, <3>7, <4>1, <5>1, <5>2
      <4>2. CASE f = file /\ line[1] = "F"
        <5>1. line = <<"F", file>> /\ <<"F", f>> \in done2 BY <2>2, <3>2, <4>2
        <5>2. dir'[t][f] = entry.files[f] /\ kept'[t] = kept[t]
          BY <1>0, <2>2, <2>3, <3>3, <4>2 DEF Directory
        <5>3. f \notin kept[t] BY <3>1, <3>5, <3>6, <4>2, <5>1
        <5> QED BY <5>1, <5>2, <5>3
      <4>3. CASE f = file /\ line[1] = "D"
        <5>1. line = <<"D", file>> /\ <<"D", f>> \in done2 BY <2>2, <3>2, <4>3
        <5>2. <<"F", f>> \notin done2 /\ <<"F", f>> \notin done /\ <<"D", f>> \notin done
          BY <3>2, <3>5, <3>6, <4>3, <5>1
        <5>3. f \notin kept[t] /\ dir[t][f] = before[t][f] BY <3>1, <5>2
        <5>4. CASE kept' = kept /\ dir' = [dir EXCEPT ![t][file] = "absent"]
          <6>1. dir'[t][f] = "absent" BY <1>0, <4>3, <5>4 DEF Directory
          <6> QED BY <5>1, <5>2, <5>3, <5>4, <6>1
        <5>5. CASE dir' = dir /\ kept' = [kept EXCEPT ![t] = kept[t] \cup {file}]
          <6>1. f \in kept'[t] BY <1>0, <4>3, <5>5
          <6> QED BY <5>1, <5>2, <5>3, <5>5, <6>1
        <5> QED BY <2>3, <4>3, <5>4, <5>5
      <4> QED BY <2>2, <4>1, <4>2, <4>3
    <3>9. todo'[t] = todo[t] \ {line} /\ pc'[t] = "restore" BY <1>0, <2>1
    <3>10. done2 = entry'.manifest \ todo'[t] BY <1>0, <3>9 DEF done2
    <3>11. /\ \A f \in kept'[t] : <<"D", f>> \in done2
           /\ dir'[t] = [f \in Files |->
                IF <<"F", f>> \in done2 THEN entry.files[f]
                ELSE IF <<"D", f>> \in done2 /\ f \notin kept'[t] THEN "absent"
                ELSE before[t][f]]
      BY <3>7, <3>8
    <3> QED BY <1>0, <3>1, <3>9, <3>10, <3>11 DEF ReplayedInv
  <2>5. StagedInv(t)' BY <1>0, <2>1 DEF StagedInv
  <2>6. \A u \in Threads \ {t} : todo'[u] = todo[u] /\ dir'[u] = dir[u] /\ kept'[u] = kept[u]
    BY <1>0, <2>1, <2>3
  <2> QED BY <1>0, <2>1, <2>4, <2>5, <2>6, AloneStep, SameEntry
<1> QED BY <1>1, <1>2


(* A step of a store that only touches its own staging directory.          *)
LEMMA AloneOwnStage ==
  ASSUME TypeOK, AloneInv, NEW t \in Threads, UNCHANGED <<setting, dir, before, kept>>,
         NEW place \in {"put", "manifest", "rename", "ok"}, pc' = [pc EXCEPT ![t] = place],
         NEW lines, todo' = [todo EXCEPT ![t] = lines],
         NEW d, stage' = [stage EXCEPT ![Pid(t)] = d],
         \A u \in Threads : ~setting.shared /\ u # t => handle'[u] = handle[u],
         ~setting.shared => EntryInv' /\ StagedInv(t)' /\ (entry' = entry \/ ~entry.made)
  PROVE  AloneInv'
<1>1. pc \in [Threads -> Places] /\ todo \in [Threads -> SUBSET Line] /\ stage \in [Pids -> Tree]
  BY DEF TypeOK, Places
<1>2. ASSUME NEW u \in Threads \ {t}, ~setting.shared PROVE stage'[{u}] = stage[{u}]
  <2>1. {u} \in Pids /\ Pid(t) = {t} /\ {u} # {t} BY <1>2, OwnPid
  <2> QED BY <1>1, <2>1
<1>3. pc'[t] \notin {"restore", "hit"} BY <1>1
<1>4. ReplayedInv(t)' BY <1>3 DEF ReplayedInv
<1>5. \A u \in Threads \ {t} : pc'[u] = pc[u] /\ todo'[u] = todo[u] BY <1>1
<1> QED BY <1>2, <1>4, <1>5, AloneStep

(* The copies of a store.                                                  *)
LEMMA AloneOfCopy ==
  ASSUME TypeOK, OpenInv, AloneInv, NEW t \in Threads, Clear(t) \/ PutOpen(t) \/ PutClose(t)
  PROVE  AloneInv'
<1>0. /\ pc \in [Threads -> Places] /\ dir \in [Threads -> Directory]
      /\ todo \in [Threads -> SUBSET Line] /\ stage \in [Pids -> Tree]
      /\ handle \in [Threads -> {"none", "stage", "entry", "gone"}]
      /\ UNCHANGED <<setting, entry, dir, before, kept>> /\ Pid(t) \in Pids
  BY OwnPid DEF TypeOK, Places, Clear, PutOpen, PutClose, diskVars
<1> DEFINE C   == Changed(before[t], dir[t])
           own == stage[Pid(t)]
<1>c. Changed(before[t], dir[t])' = C BY <1>0 DEF Changed
<1>1. ~setting.shared => EntryInv' BY <1>0, SameEntry
<1>2. ~setting.shared => Pid(t) = {t} BY OwnPid
<1>3. CASE Clear(t)
  <2>1. /\ pc[t] = "ran" /\ pc' = [pc EXCEPT ![t] = "put"]
        /\ todo' = [todo EXCEPT ![t] = {"F"} \X C]
    BY <1>3 DEF Clear, Goto
  <2>2. PICK d \in Tree : d.made /\ RemoveStage(t, d) BY <1>3, ClearLeaves
  <2>3. /\ stage' = [stage EXCEPT ![Pid(t)] = d] /\ handle'[t] = "none"
        /\ \A u \in Threads : u \notin Pid(t) => handle'[u] = handle[u]
    BY <2>2, RemovedHandles
  <2>4. pc'[t] = "put" /\ todo'[t] = {"F"} \X C /\ stage'[Pid(t)] = d BY <1>0, <2>1, <2>3
  <2>5. Copied(t)' = {} BY <1>c, <2>3, <2>4 DEF Copied
  <2>6. ~setting.shared => StagedInv(t)'
    BY <1>c, <1>2, <2>2, <2>4, <2>5 DEF StagedInv
  <2>7. \A u \in Threads : ~setting.shared /\ u # t => handle'[u] = handle[u]
    BY <1>2, <2>3
  <2> QED BY <1>0, <1>1, <2>1, <2>3, <2>6, <2>7, AloneOwnStage
<1>4. ASSUME pc[t] = "put", todo[t] # {}
      PROVE  /\ First(todo[t]) \in todo[t]
             /\ ~setting.shared => /\ todo[t] \subseteq {"F"} \X C /\ own.made
                                   /\ \A f \in Copied(t) : own.files[f] = dir[t][f]
                                   /\ First(todo[t]) = <<"F", FileOf(t)>> /\ FileOf(t) \in C
  <2>1. First(todo[t]) \in todo[t] BY <1>0, <1>4, FirstIsIn
  <2> SUFFICES ASSUME ~setting.shared
               PROVE  /\ todo[t] \subseteq {"F"} \X C /\ own.made
                      /\ \A f \in Copied(t) : own.files[f] = dir[t][f]
                      /\ First(todo[t]) = <<"F", FileOf(t)>> /\ FileOf(t) \in C
    BY <2>1
  <2>2. /\ todo[t] \subseteq {"F"} \X C /\ own.made
        /\ \A f \in Copied(t) : own.files[f] = dir[t][f]
    BY <1>2, <1>4 DEF AloneInv, StagedInv
  <2>3. First(todo[t]) \in {"F"} \X C BY <2>1, <2>2
  <2> QED BY <2>2, <2>3 DEF FileOf
<1>5. CASE PutOpen(t)
  <2> DEFINE c == dir[t][FileOf(t)]
             d == [own EXCEPT !.made = TRUE, !.files[FileOf(t)] = c]
  <2>1. /\ pc[t] = "put" /\ todo[t] # {} /\ handle[t] = "none"
        /\ stage' = [stage EXCEPT ![Pid(t)] = d] /\ handle' = [handle EXCEPT ![t] = "stage"]
        /\ UNCHANGED <<pc, todo>>
    BY <1>5 DEF PutOpen, Stored
  <2>2. pc' = [pc EXCEPT ![t] = "put"] /\ todo' = [todo EXCEPT ![t] = todo[t]] BY <1>0, <2>1
  <2>3. ASSUME ~setting.shared PROVE StagedInv(t)'
    <3>1. /\ todo[t] \subseteq {"F"} \X C /\ FileOf(t) \in C
          /\ \A f \in Copied(t) : own.files[f] = dir[t][f]
      BY <1>4, <2>1, <2>3
    <3>2. FileOf(t)' = FileOf(t) BY <2>1 DEF FileOf, First, Rank
    <3>3. Copied(t)' = Copied(t) \cup {FileOf(t)}
      <4>1. handle'[t] = "stage" BY <1>0, <2>1
      <4> QED BY <1>c, <2>1, <3>1, <3>2, <4>1 DEF Copied
    <3>4. FileOf(t) \in Files BY <3>1 DEF Changed
    <3>5. d.made /\ \A f \in Copied(t)' : d.files[f] = dir[t][f]
      <4>1. own \in Tree /\ own.files \in Directory BY <1>0 DEF Tree
      <4>2. d.made /\ d.files = [own.files EXCEPT ![FileOf(t)] = c] BY <4>1 DEF Tree
      <4>3. Copied(t) \subseteq Files BY DEF Copied, Changed
      <4> QED BY <3>1, <3>3, <3>4, <4>1, <4>2, <4>3 DEF Directory
    <3>6. stage'[{t}] = d BY <1>0, <1>2, <2>1, <2>3
    <3> HIDE DEF d
    <3> QED BY <1>0, <1>c, <2>1, <3>1, <3>5, <3>6 DEF StagedInv
  <2>4. \A u \in Threads : ~setting.shared /\ u # t => handle'[u] = handle[u] BY <1>0, <2>1
  <2> HIDE DEF d
  <2> QED BY <1>0, <1>1, <2>1, <2>2, <2>3, <2>4, AloneOwnStage
<1>6. CASE PutClose(t)
  <2> DEFINE left == todo[t] \ {First(todo[t])}
  <2>1. /\ pc[t] = "put" /\ todo[t] # {} /\ handle[t] # "none"
        /\ handle' = [handle EXCEPT ![t] = "none"] /\ UNCHANGED <<pc, stage>>
        /\ todo' = [todo EXCEPT ![t] = left]
    BY <1>6 DEF PutClose, Stored, diskVars
  <2>2. pc' = [pc EXCEPT ![t] = "put"] /\ stage' = [stage EXCEPT ![Pid(t)] = own] BY <1>0, <2>1
  <2>3. ASSUME ~setting.shared PROVE StagedInv(t)'
    <3>1. /\ todo[t] \subseteq {"F"} \X C /\ First(todo[t]) = <<"F", FileOf(t)>>
          /\ FileOf(t) \in C /\ own.made
          /\ \A f \in Copied(t) : own.files[f] = dir[t][f]
      BY <1>4, <2>1, <2>3
    <3>2. handle[t] = "stage" BY <2>1, <2>3 DEF OpenInv
    <3>3. todo'[t] = left /\ handle'[t] = "none" BY <1>0, <2>1
    <3>4. Copied(t)' = Copied(t) BY <1>c, <3>1, <3>2, <3>3 DEF Copied
    <3>5. left \subseteq {"F"} \X C BY <3>1
    <3>6. pc'[t] = "put" /\ stage'[{t}] = own /\ dir'[t] = dir[t] BY <1>0, <1>2, <2>1, <2>3
    <3> HIDE DEF left, own
    <3> QED BY <1>c, <3>1, <3>3, <3>4, <3>5, <3>6 DEF StagedInv
  <2>4. \A u \in Threads : ~setting.shared /\ u # t => handle'[u] = handle[u] BY <1>0, <2>1
  <2> HIDE DEF left
  <2> QED BY <1>0, <1>1, <2>1, <2>2, <2>3, <2>4, AloneOwnStage
<1> QED BY <1>3, <1>5, <1>6

(* The end of a store.                                                     *)
LEMMA AloneOfSeal ==
  ASSUME TypeOK, OpenInv, AloneInv, NEW t \in Threads,
         PutSidecar(t) \/ PutManifest(t) \/ StoreFails(t)
  PROVE  AloneInv'
<1>0. /\ pc \in [Threads -> Places] /\ dir \in [Threads -> Directory]
      /\ todo \in [Threads -> SUBSET Line] /\ stage \in [Pids -> Tree]
      /\ handle \in [Threads -> {"none", "stage", "entry", "gone"}]
      /\ UNCHANGED <<setting, dir, before, kept>> /\ Pid(t) \in Pids
  BY OwnPid DEF TypeOK, Places, PutSidecar, PutManifest, StoreFails
<1> DEFINE C   == Changed(before[t], dir[t])
           own == stage[Pid(t)]
<1>c. Changed(before[t], dir[t])' = C /\ Lines(before[t], dir[t])' = Lines(before[t], dir[t])
  BY <1>0 DEF Changed, Lines, Deleted
<1>e. ~setting.shared => entry' = entry
  BY FailureLeaves DEF OpenInv, PutSidecar, PutManifest
<1>1. ~setting.shared => EntryInv' BY <1>0, <1>e, SameEntry
<1>2. ~setting.shared => Pid(t) = {t} BY OwnPid
<1>3. own \in Tree BY <1>0
<1>4. CASE StoreFails(t)
  <2>1. pc' = [pc EXCEPT ![t] = "ok"] /\ todo' = [todo EXCEPT ![t] = {}]
    BY <1>4 DEF StoreFails, Goto
  <2>2. PICK d \in Tree : RemoveStage(t, d) BY <1>4, FailureLeaves
  <2>3. stage' = [stage EXCEPT ![Pid(t)] = d]
        /\ \A u \in Threads : ~setting.shared /\ u # t => handle'[u] = handle[u]
    BY <1>2, <2>2, RemovedHandles
  <2>4. pc'[t] = "ok" BY <1>0, <2>1
  <2>5. StagedInv(t)' BY <2>4 DEF StagedInv
  <2> QED BY <1>0, <1>1, <1>e, <2>1, <2>3, <2>5, AloneOwnStage
<1>5. CASE PutSidecar(t)
  <2> DEFINE d == [own EXCEPT !.sidecar = TRUE]
  <2>1. /\ pc[t] = "put" /\ todo[t] = {} /\ handle' = handle
        /\ stage' = [stage EXCEPT ![Pid(t)] = d] /\ todo' = [todo EXCEPT ![t] = {}]
        /\ pc' = [pc EXCEPT ![t] = "manifest"]
    BY <1>5 DEF PutSidecar, FilesFirst, Stored, Goto
  <2>2. d.sidecar /\ d.made = own.made /\ d.files = own.files BY <1>3 DEF Tree
  <2> HIDE DEF d
  <2>3. ASSUME ~setting.shared PROVE StagedInv(t)'
    <3>1. /\ own.made
          /\ \A f \in Copied(t) : own.files[f] = dir[t][f]
      BY <1>2, <2>1, <2>3 DEF AloneInv, StagedInv
    <3>2. pc'[t] = "manifest" /\ todo'[t] = {} /\ stage'[{t}] = d BY <1>0, <1>2, <2>1, <2>3
    <3>3. Copied(t)' = Copied(t) BY <1>c, <2>1, <3>2 DEF Copied
    <3> QED BY <1>0, <2>2, <3>1, <3>2, <3>3, ZenonT(30) DEF StagedInv
  <2> QED BY <1>0, <1>1, <1>e, <2>1, <2>3, AloneOwnStage
<1>6. CASE PutManifest(t)
  <2> DEFINE d == [own EXCEPT !.listed = TRUE, !.manifest = Lines(before[t], dir[t])]
  <2>1. /\ pc[t] = "manifest" /\ UNCHANGED <<handle, todo>>
        /\ stage' = [stage EXCEPT ![Pid(t)] = d] /\ pc' = [pc EXCEPT ![t] = "rename"]
    BY <1>6 DEF PutManifest, Goto
  <2>2. /\ d.listed /\ d.manifest = Lines(before[t], dir[t]) /\ d.sidecar = own.sidecar
        /\ d.made = own.made /\ d.files = own.files
    BY <1>3 DEF Tree
  <2> HIDE DEF d
  <2>3. ASSUME ~setting.shared PROVE StagedInv(t)'
    <3>1. /\ own.made /\ todo[t] = {} /\ own.sidecar
          /\ \A f \in Copied(t) : own.files[f] = dir[t][f]
      BY <1>2, <2>1, <2>3 DEF AloneInv, StagedInv
    <3>2. pc'[t] = "rename" /\ stage'[{t}] = d BY <1>0, <1>2, <2>1, <2>3
    <3>3. Copied(t)' = Copied(t) BY <1>c, <2>1, <3>1 DEF Copied
    <3>4. todo'[t] = {} /\ dir'[t] = dir[t] BY <1>0, <2>1, <3>1
    <3> HIDE DEF own
    <3> QED BY <1>c, <2>2, <3>1, <3>2, <3>3, <3>4, ZenonT(30) DEF StagedInv
  <2>4. todo' = [todo EXCEPT ![t] = todo[t]] BY <1>0, <2>1
  <2> QED BY <1>0, <1>1, <1>e, <2>1, <2>3, <2>4, AloneOwnStage
<1> QED BY <1>4, <1>5, <1>6

(* What is published is of the one run that published it.                  *)
LEMMA AloneOfPublish ==
  ASSUME TypeOK, DirInv, OpenInv, ContentInv, AloneInv, NEW t \in Threads, Publish(t)
  PROVE  AloneInv'
<1>0. pc \in [Threads -> Places] /\ stage \in [Pids -> Tree] BY DEF TypeOK, Places
<1>1. /\ pc[t] = "rename" /\ ~entry.made /\ entry' = stage[Pid(t)]
      /\ stage' = [stage EXCEPT ![Pid(t)] = NoDir]
      /\ handle' = [u \in Threads |-> IF handle[u] = "stage" /\ u \in Pid(t)
                                        THEN "entry" ELSE handle[u]]
      /\ todo' = [todo EXCEPT ![t] = {}] /\ pc' = [pc EXCEPT ![t] = "ok"]
      /\ UNCHANGED <<setting, dir, before, kept>>
  BY DEF Publish, Publishable, Goto
<1>2. dir[t] = Outcome /\ before[t] \in Starts
  <2>1. half[t] # TRUE BY <1>1 DEF ContentInv
  <2> QED BY <1>1, <2>1 DEF DirInv, AfterRun
<1>3. ASSUME ~setting.shared PROVE EntryInv'
  <2> DEFINE s == stage[{t}]
             C == Changed(before[t], Outcome)
  <2>1. /\ todo[t] = {} /\ s.sidecar /\ s.listed /\ s.manifest = Lines(before[t], Outcome)
        /\ \A f \in Copied(t) : s.files[f] = Outcome[f]
    BY <1>1, <1>2, <1>3 DEF AloneInv, StagedInv
  <2>2. Copied(t) = C BY <1>2, <2>1 DEF Copied
  <2>3. \A f \in Files : f \in C => Outcome[f] = "result" BY DEF Changed, Outcome
  <2>4. \A f \in Files : <<"F", f>> \in s.manifest <=> f \in C
    <3>1. \A f \in Files : <<"F", f>> \in Lines(before[t], Outcome) <=> f \in C BY EitherKind
    <3> HIDE DEF s, C
    <3> QED BY <2>1, <3>1
  <2>5. \A f \in Files : <<"F", f>> \in s.manifest => s.files[f] = "result"
    BY <2>1, <2>2, <2>3, <2>4
  <2>6. entry' = s BY <1>1, <1>3, OwnPid
  <2>7. Starts' = Starts BY <1>1 DEF Starts
  <2>8. Outcome' = Outcome /\ \A old : Lines(old, Outcome)' = Lines(old, Outcome)
    BY DEF Outcome, Lines, Changed, Deleted
  <2> HIDE DEF s
  <2>9. EntryOf(before[t])' BY <1>1, <2>1, <2>5, <2>6, <2>8 DEF EntryOf
  <2> QED BY <1>1, <1>2, <2>7, <2>9 DEF EntryInv
<1>4. StagedInv(t)'
  <2>1. pc'[t] = "ok" BY <1>0, <1>1
  <2> QED BY <2>1 DEF StagedInv
<1>5. \A u \in Threads : ~setting.shared /\ u # t => handle'[u] = handle[u] BY <1>1, OwnPid
<1> QED BY <1>1, <1>3, <1>4, <1>5, AloneOwnStage

LEMMA AloneOfCrash ==
  ASSUME TypeOK, OpenInv, AloneInv, NEW t \in Threads, Crash(t)
  PROVE  AloneInv'
<1>0. pc \in [Threads -> Places] /\ entry \in Tree /\ (~entry.made => entry = NoDir)
      /\ stage \in [Pids -> Tree]
  BY DEF TypeOK, Places
<1>1. UNCHANGED <<setting, dir, before, kept>> BY CrashLeaves
<1> SUFFICES ASSUME ~setting.shared PROVE AloneInv'
  BY <1>1 DEF AloneInv
<1>2. Pid(t) = {t} BY OwnPid
<1>3. entry' = entry
  <2>1. OpenFiles(t, "entry") = {} BY <1>2 DEF OpenFiles, OpenInv
  <2>2. entry' = Left(entry, {}) BY <2>1, CrashLeaves
  <2> QED BY <1>0, <2>2, LeftTree
<1>4. \A u \in Threads \ {t} : pc'[u] = pc[u] /\ todo'[u] = todo[u] /\ handle'[u] = handle[u]
  BY <1>2, CrashLeaves
<1>5. \A u \in Threads \ {t} : stage'[{u}] = stage[{u}]
  <2> SUFFICES ASSUME NEW u \in Threads \ {t} PROVE stage'[{u}] = stage[{u}] OBVIOUS
  <2>1. {u} \in Pids /\ {u} # Pid(t) BY <1>2, OwnPid
  <2> QED BY <2>1, CrashTrees
<1>6. pc'[t] = "idle" BY <1>2, CrashLeaves
<1>7. StagedInv(t)' /\ ReplayedInv(t)' BY <1>6 DEF StagedInv, ReplayedInv
<1> QED BY <1>1, <1>3, <1>4, <1>5, <1>7, AloneStep, SameEntry

LEMMA StepAlone ==
  TypeOK /\ DirInv /\ OpenInv /\ ContentInv /\ AloneInv /\ [Next]_vars => AloneInv'
<1> SUFFICES ASSUME TypeOK, DirInv, OpenInv, ContentInv, AloneInv, [Next]_vars PROVE AloneInv'
  OBVIOUS
<1>1. CASE UNCHANGED vars
  <2>1. UNCHANGED <<setting, entry, stage, pc, todo, dir, before, handle, kept>>
    BY <1>1 DEF vars, threadVars, diskVars
  <2> SUFFICES ASSUME ~setting.shared PROVE AloneInv' BY <2>1 DEF AloneInv
  <2>2. EntryInv' BY <2>1, SameEntry
  <2>3. \A u \in Threads : StagedInv(u)' /\ ReplayedInv(u)' BY <2>1, Elsewhere
  <2> QED BY <2>2, <2>3 DEF AloneInv
<1>2. ASSUME NEW t \in Threads, Thread(t) PROVE AloneInv'
  BY <1>2, AloneOfBegin, AloneOfRun, AloneOfRestore, AloneOfCopy, AloneOfSeal, AloneOfPublish,
     AloneOfCrash DEF Thread
<1> QED BY <1>1, <1>2 DEF Next


LEMMA InitDisk == Init => DiskInv
BY InitType, InitDir, InitOpen, InitContent, InitAlone DEF DiskInv

LEMMA StepDisk == DiskInv /\ [Next]_vars => DiskInv'
BY StepType, StepDir, StepOpen, StepContent, StepAlone DEF DiskInv

LEMMA DiskTheorem == Spec => []DiskInv
BY InitDisk, StepDisk, PTL DEF Spec

(* TypeOK: only a store has a file open, and a directory that was removed  *)
(* under a store has nothing in it, whatever fails or ends where           *)
(* (tool_cache.rs, try_store and write_entry).                             *)
THEOREM TypeTheorem == Spec => []TypeOK
<1>1. DiskInv => TypeOK BY DEF DiskInv
<1> QED BY <1>1, DiskTheorem, PTL

(* EntryIsComplete: with one process to a staging directory, every file the*)
(* manifest of a published entry names is there and is that of a successful*)
(* run, also where a step of the store failed, a process ended, or what    *)
(* either left could not be removed (tool_cache.rs, try_store: the sidecar *)
(* and the manifest last, then the rename).                                *)
THEOREM EntryTheorem == Spec => []EntryIsComplete
<1>1. DiskInv => EntryIsComplete
  <2> SUFFICES ASSUME DiskInv, entry.made, ~setting.shared
               PROVE  /\ entry.listed /\ entry.sidecar
                      /\ \A f \in Files :
                           <<"F", f>> \in entry.manifest => entry.files[f] = "result"
    BY DEF EntryIsComplete
  <2>1. PICK old \in Starts : EntryOf(old) BY DEF DiskInv, AloneInv, EntryInv
  <2> QED BY <2>1 DEF EntryOf
<1> QED BY <1>1, DiskTheorem, PTL

(* HitIsTheRun: a hit leaves the directory as the stored run would have,   *)
(* if the callers start clean, but for files of deletion lines that could  *)
(* not be removed, which are as they were; and it replays nothing of a     *)
(* failed or drifted run (tool_cache.rs, restore).                         *)
THEOREM HitTheorem == Spec => []HitIsTheRun
<1>1. DiskInv => HitIsTheRun
  <2> SUFFICES ASSUME DiskInv, NEW t \in Threads, pc[t] = "hit"
               PROVE  /\ \A f \in Files : dir[t][f] \notin {"broken", "drifted"}
                      /\ ~setting.shared => \A f \in Files : dir[t][f] =
                           IF f \in kept[t] THEN before[t][f] ELSE Overlaid(before[t], entry)[f]
                      /\ ~setting.shared =>
                           \A f \in kept[t] : <<"D", f>> \in entry.manifest
                                              /\ Outcome[f] = "absent"
                      /\ ~setting.shared /\ setting.caller # "listed" =>
                           \A f \in Files \ kept[t] : dir[t][f] = Outcome[f]
    BY DEF HitIsTheRun
  <2>1. /\ \A f \in Files : dir[t][f] \notin {"broken", "drifted"}
        /\ before[t] \in Starts /\ setting.caller \in {"avl", "listed", "whole"}
        /\ kept[t] \in SUBSET Files
    BY DEF DiskInv, ContentInv, DirInv, TypeOK
  <2> SUFFICES ASSUME ~setting.shared
               PROVE  /\ \A f \in Files : dir[t][f] =
                           IF f \in kept[t] THEN before[t][f] ELSE Overlaid(before[t], entry)[f]
                      /\ \A f \in kept[t] : <<"D", f>> \in entry.manifest
                                           /\ Outcome[f] = "absent"
                      /\ setting.caller # "listed" =>
                           \A f \in Files \ kept[t] : dir[t][f] = Outcome[f]
    BY <2>1
  <2>2. ReplayedInv(t) /\ EntryInv BY DEF DiskInv, AloneInv
  <2>3. /\ entry.made /\ \A f \in kept[t] : <<"D", f>> \in entry.manifest
        /\ dir[t] = [f \in Files |->
             IF <<"F", f>> \in entry.manifest THEN entry.files[f]
             ELSE IF <<"D", f>> \in entry.manifest /\ f \notin kept[t] THEN "absent"
             ELSE before[t][f]]
    <3>1. entry.manifest \ todo[t] = entry.manifest BY <2>2 DEF ReplayedInv
    <3> QED BY <2>2, <3>1 DEF ReplayedInv
  <2>4. PICK old \in Starts : EntryOf(old) BY <2>2, <2>3 DEF EntryInv
  <2>5. \A f \in Files :
          /\ <<"F", f>> \in entry.manifest <=> f \in Changed(old, Outcome)
          /\ <<"D", f>> \in entry.manifest <=> f \in Deleted(old, Outcome)
          /\ ~(f \in Changed(old, Outcome) /\ f \in Deleted(old, Outcome))
    <3>1. entry.manifest = Lines(old, Outcome) BY <2>4 DEF EntryOf
    <3>2. \A f \in Files :
            /\ <<"F", f>> \in Lines(old, Outcome) <=> f \in Changed(old, Outcome)
            /\ <<"D", f>> \in Lines(old, Outcome) <=> f \in Deleted(old, Outcome)
            /\ ~(f \in Changed(old, Outcome) /\ f \in Deleted(old, Outcome))
      BY EitherKind
    <3> QED BY <3>1, <3>2
  <2>6. \A f \in kept[t] : <<"D", f>> \in entry.manifest /\ Outcome[f] = "absent"
    BY <2>1, <2>3, <2>5 DEF Deleted
  <2>7. ASSUME NEW f \in Files
        PROVE  dir[t][f] = IF f \in kept[t] THEN before[t][f] ELSE Overlaid(before[t], entry)[f]
    <3>1. f \in kept[t] => <<"F", f>> \notin entry.manifest BY <2>5, <2>6
    <3> QED BY <2>3, <3>1 DEF Overlaid
  <2>8. ASSUME setting.caller # "listed", NEW f \in Files \ kept[t] PROVE dir[t][f] = Outcome[f]
    <3>1. old = before[t] BY <2>1, <2>8 DEF Starts
    <3>2. Outcome[f] \in {"absent", "result"} BY DEF Outcome
    <3>3. CASE f \in Changed(old, Outcome)
      <4>1. entry.files[f] = "result" BY <2>4, <2>5, <3>3 DEF EntryOf
      <4>2. Outcome[f] = "result" BY <3>2, <3>3 DEF Changed
      <4> QED BY <2>3, <2>5, <3>3, <4>1, <4>2
    <3>4. CASE f \in Deleted(old, Outcome) BY <2>3, <2>5, <3>4 DEF Deleted
    <3>5. CASE f \notin Changed(old, Outcome) /\ f \notin Deleted(old, Outcome)
      <4>1. old[f] = Outcome[f] BY <3>5 DEF Changed, Deleted
      <4> QED BY <2>3, <2>5, <3>1, <3>5, <4>1
    <3> QED BY <3>3, <3>4, <3>5
  <2> QED BY <2>6, <2>7, <2>8
<1> QED BY <1>1, DiskTheorem, PTL
=============================================================================
