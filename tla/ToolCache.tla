----------------------------- MODULE ToolCache -----------------------------
(***************************************************************************)
(* The opt-in result cache of external tools and the runs it serves        *)
(* (alas-exec, tool_cache.rs: begin, restore, store; called by avl.rs,     *)
(* vspaero.rs, the two NASTRAN adapters and mses/exec.rs).                 *)
(*                                                                         *)
(* All invocations here have the same key; another key has an entry and    *)
(* staging directories of its own.  Each invocation works in a directory   *)
(* of its own.  What a file holds is named, not spelled out: "input",      *)
(* "result" (what the tool makes of the keyed input), "stale" (of another  *)
(* run), "cut" (a copy that ended early), "drifted" (what the tool makes   *)
(* of its own finished state) and "broken" (left by a failed run).         *)
(***************************************************************************)
EXTENDS Naturals

CONSTANTS Threads,      (* threads that invoke the tool                    *)
          Invocations   (* invocations of all of them, at most (bound)     *)

ASSUME CacheAssumption == Invocations \in Nat \ {0}

VARIABLES
  setting,  (* caller: who calls; shared: the threads are of one process   *)
  entry,    (* the published entry, or NoDir                               *)
  stage,    (* the staging directory of a process, or NoDir                *)
  pc,       (* where a thread is                                           *)
  rounds,   (* invocations begun                                           *)
  dir,      (* the working directory of its invocation                     *)
  before,   (* DirCache.before                                             *)
  todo,     (* manifest lines a restore has still to replay, or a store    *)
            (* still to copy                                               *)
  handle,   (* where the file it is copying into is: stage, entry, gone    *)
  half,     (* history: its restore failed after it had changed a file     *)
  kept      (* history: files its restore should have deleted and could not*)

diskVars   == <<entry, stage>>
threadVars == <<pc, rounds, dir, before, todo, handle, half, kept>>
vars == <<setting, diskVars, threadVars>>

-----------------------------------------------------------------------------
(* Files, in the order of the BTreeMap: a file only the tool writes, one   *)
(* it may also read, and one it may delete.                                *)
Position == [log |-> 1, case |-> 2, scratch |-> 3]
Files    == DOMAIN Position

Absent  == [f \in Files |-> "absent"]
Outcome == [f \in Files |-> IF f = "scratch" THEN "absent" ELSE "result"]

Leftovers ==
  {[Absent EXCEPT !["log"] = l, !["case"] = c] :
     l \in {"absent", "result"}, c \in {"absent", "stale"}}

(* Wrong variant, for mutation: AVL does not clear its artifacts. *)
Starts_Uncleared == Leftovers

(* The directory when `begin` is called.  AVL clears all its artifacts,    *)
(* VSPAERO and MSC Nastran ("listed" inputs) leave what an earlier run put *)
(* there; MSES and NASTRAN-95 ("whole") key on every file there is.        *)
Starts ==
  CASE setting.caller = "avl"    -> {Absent}
    [] setting.caller = "listed" -> Leftovers
    [] setting.caller = "whole"  ->
         {[Absent EXCEPT !["case"] = "input", !["scratch"] = "input"]}

(* What a successful run leaves. *)
Produced(d) ==
  IF setting.caller = "whole" /\ d["case"] # "input"
    THEN [d EXCEPT !["log"] = "drifted", !["case"] = "drifted"]
    ELSE Outcome

NoDir    == [made |-> FALSE, files |-> Absent, sidecar |-> FALSE, manifest |-> {},
             listed |-> FALSE]
EmptyDir == [NoDir EXCEPT !.made = TRUE]

(* The process that names the staging directory: <key>.tmp<pid>. *)
Pid(t) == IF setting.shared THEN Threads ELSE {t}
Pids   == {Threads} \cup {{t} : t \in Threads}

(* What `write_entry` copies, and what it only names. *)
Changed(old, new) == {f \in Files : new[f] # "absent" /\ new[f] # old[f]}
Deleted(old, new) == {f \in Files : new[f] = "absent" /\ old[f] # "absent"}

(* Wrong variant, for mutation: deletions are not recorded. *)
Lines_NoDeletes(old, new) == {"F"} \X Changed(old, new)

(* The manifest: a line for a changed or new file, and for a deleted one. *)
Lines(old, new) == ({"F"} \X Changed(old, new)) \cup ({"D"} \X Deleted(old, new))

(* The manifest's order: the files that changed, then those deleted. *)
Rank(line)   == Position[line[2]] + (IF line[1] = "F" THEN 0 ELSE 3)
First(lines) == CHOOSE l \in lines : \A m \in lines : Rank(l) <= Rank(m)
FileOf(t)    == First(todo[t])[2]

(* A file some thread has opened for writing and not finished. *)
Cut(place, f) == \E t \in Threads : handle[t] = place /\ FileOf(t) = f

Idle == {"idle", "hit", "ok", "failed", "refused"}

Init ==
  /\ setting \in [caller : {"avl", "listed", "whole"}, shared : BOOLEAN]
  /\ entry = NoDir
  /\ stage = [p \in Pids |-> NoDir]
  /\ pc = [t \in Threads |-> "idle"]
  /\ rounds = 0
  /\ dir = [t \in Threads |-> Absent] /\ before = [t \in Threads |-> Absent]
  /\ todo = [t \in Threads |-> {}]
  /\ handle = [t \in Threads |-> "none"]
  /\ half = [t \in Threads |-> FALSE]
  /\ kept = [t \in Threads |-> {}]

Goto(t, l) == pc' = [pc EXCEPT ![t] = l]

-----------------------------------------------------------------------------
(* begin and restore. *)

(* No manifest is a miss; a manifest or sidecar that cannot be read leaves *)
(* the directory as it was, and the tool runs.                             *)
Look(t) ==
  \/ /\ entry.listed /\ entry.sidecar
     /\ todo' = [todo EXCEPT ![t] = entry.manifest]
     /\ Goto(t, "restore")
  \/ /\ todo' = [todo EXCEPT ![t] = {}]
     /\ Goto(t, "run")

Begin(t) ==
  /\ pc[t] \in Idle /\ rounds < Invocations
  /\ rounds' = rounds + 1
  /\ \E d \in Starts : /\ dir' = [dir EXCEPT ![t] = d]
                       /\ before' = [before EXCEPT ![t] = d]
  /\ half' = [half EXCEPT ![t] = FALSE] /\ kept' = [kept EXCEPT ![t] = {}]
  /\ Look(t)
  /\ UNCHANGED <<setting, diskVars, handle>>

(* What a copy of a file of the entry reads. *)
ReadEntry(f) == IF Cut("entry", f) THEN "cut" ELSE entry.files[f]

(* The next line: the file is copied, or it is deleted, or it should be    *)
(* deleted and cannot be: nobody looks whether remove_file failed.         *)
RestoreLine(t) ==
  /\ pc[t] = "restore" /\ todo[t] # {}
  /\ LET kind == First(todo[t])[1]
         f    == FileOf(t)
     IN  \/ /\ kind = "F" /\ entry.files[f] # "absent"
            /\ dir' = [dir EXCEPT ![t][f] = ReadEntry(f)]
            /\ UNCHANGED kept
         \/ /\ kind = "D"
            /\ dir' = [dir EXCEPT ![t][f] = "absent"]
            /\ UNCHANGED kept
         \/ /\ kind = "D" /\ dir[t][f] # "absent"
            /\ kept' = [kept EXCEPT ![t] = @ \cup {f}]
            /\ UNCHANGED dir
  /\ todo' = [todo EXCEPT ![t] = @ \ {First(@)}]
  /\ UNCHANGED <<setting, diskVars, pc, rounds, before, handle, half>>

(* The directory of a file cannot be made, or its copy fails, whether the  *)
(* old file could be removed before or not: the error of a step, or of a   *)
(* file the entry lacks.  The caller then runs the tool.                   *)
RestoreFails(t) ==
  /\ pc[t] = "restore" /\ todo[t] # {} /\ First(todo[t])[1] = "F"
  /\ \E rest \in {dir[t][FileOf(t)], "absent", "cut"} :
       dir' = [dir EXCEPT ![t][FileOf(t)] = rest]
  /\ half' = [half EXCEPT ![t] = dir'[t] # before[t]]
  /\ todo' = [todo EXCEPT ![t] = {}]
  /\ Goto(t, "run")
  /\ UNCHANGED <<setting, diskVars, rounds, before, handle, kept>>

Hit(t) ==
  /\ pc[t] = "restore" /\ todo[t] = {}
  /\ Goto(t, "hit")
  /\ UNCHANGED <<setting, diskVars, rounds, dir, before, todo, handle, half, kept>>

-----------------------------------------------------------------------------
(* The tool runs. *)

(* AVL creates its session and log files with create_new. *)
Refuses(t) == setting.caller = "avl" /\ dir[t]["log"] # "absent"

RunSucceeds(t) ==
  /\ pc[t] = "run" /\ ~Refuses(t)
  /\ dir' = [dir EXCEPT ![t] = Produced(@)]
  /\ Goto(t, "ran")
  /\ UNCHANGED <<setting, diskVars, rounds, before, todo, handle, half, kept>>

LaunchRefused(t) ==
  /\ pc[t] = "run" /\ Refuses(t)
  /\ Goto(t, "refused")
  /\ UNCHANGED <<setting, diskVars, rounds, dir, before, todo, handle, half, kept>>

(* The tool does not start, fails or is stopped. *)
RunFails(t) ==
  /\ pc[t] = "run" /\ ~Refuses(t)
  /\ \E touched \in {{}, {"log", "case"}} :
       dir' = [dir EXCEPT ![t] = [f \in Files |-> IF f \in touched THEN "broken" ELSE @[f]]]
  /\ Goto(t, "failed")
  /\ UNCHANGED <<setting, diskVars, rounds, before, todo, handle, half, kept>>

-----------------------------------------------------------------------------
(* try_store. *)

(* Part of a directory: some of its files, its sidecar and its manifest.   *)
Part(d, names, sidecar, listed) ==
  [d EXCEPT !.files    = [f \in Files |-> IF f \in names THEN @[f] ELSE "absent"],
            !.sidecar  = sidecar,
            !.listed   = listed,
            !.manifest = IF listed THEN @ ELSE {}]

(* What `remove_dir_all` leaves: nothing, or as much of the directory as   *)
(* it had not removed when it failed.                                      *)
Remains(d) ==
  {NoDir} \cup {Part(d, names, s, l) :
                  names \in SUBSET Files, s \in {FALSE, d.sidecar}, l \in {FALSE, d.listed}}

(* The staging path is removed, as far as that goes.  A file another thread*)
(* has open there is unlinked under it.                                    *)
RemoveStage(t, then) ==
  /\ stage' = [stage EXCEPT ![Pid(t)] = then]
  /\ handle' = [u \in Threads |->
        IF u = t THEN "none"
        ELSE IF handle[u] = "stage" /\ u \in Pid(t)
                /\ then.files[FileOf(u)] = "absent"
          THEN "gone" ELSE handle[u]]

(* Nobody looks whether the removal failed: what it left is written over.  *)
Clear(t) ==
  /\ pc[t] = "ran"
  /\ \E d \in Remains(stage[Pid(t)]) : RemoveStage(t, [d EXCEPT !.made = TRUE])
  /\ todo' = [todo EXCEPT ![t] = {"F"} \X Changed(before[t], dir[t])]
  /\ Goto(t, "put")
  /\ UNCHANGED <<setting, entry, rounds, dir, before, half, kept>>

Stored(t) == pc[t] = "put" /\ todo[t] # {}

(* The copy of a file: its directory is created if need be, the target     *)
(* truncated; then it is written.                                          *)
PutOpen(t) ==
  /\ Stored(t) /\ handle[t] = "none"
  /\ stage' = [stage EXCEPT ![Pid(t)] =
                 [@ EXCEPT !.made = TRUE, !.files[FileOf(t)] = dir[t][FileOf(t)]]]
  /\ handle' = [handle EXCEPT ![t] = "stage"]
  /\ UNCHANGED <<setting, entry, pc, rounds, dir, before, todo, half, kept>>

PutClose(t) ==
  /\ Stored(t) /\ handle[t] # "none"
  /\ handle' = [handle EXCEPT ![t] = "none"]
  /\ todo' = [todo EXCEPT ![t] = @ \ {First(@)}]
  /\ UNCHANGED <<setting, diskVars, pc, rounds, dir, before, half, kept>>

(* Wrong variant, for mutation: the manifest is written before the files. *)
FilesFirst_Not(t) == TRUE
FilesFirst(t)     == ~Stored(t)

(* Wrong variant, for mutation: the directory is taken to be there still. *)
InPlace_Assumed(t) == TRUE
InPlace(t)         == stage[Pid(t)].made

(* The sidecar, then the manifest; neither write creates the directory. *)
PutSidecar(t) ==
  /\ pc[t] = "put" /\ FilesFirst(t) /\ handle[t] = "none" /\ InPlace(t)
  /\ stage' = [stage EXCEPT ![Pid(t)] = [@ EXCEPT !.sidecar = TRUE]]
  /\ todo' = [todo EXCEPT ![t] = {}]
  /\ Goto(t, "manifest")
  /\ UNCHANGED <<setting, entry, rounds, dir, before, handle, half, kept>>

PutManifest(t) ==
  /\ pc[t] = "manifest" /\ InPlace(t)
  /\ stage' = [stage EXCEPT ![Pid(t)] =
                 [@ EXCEPT !.listed = TRUE, !.manifest = Lines(before[t], dir[t])]]
  /\ Goto(t, "rename")
  /\ UNCHANGED <<setting, entry, rounds, dir, before, todo, handle, half, kept>>

(* `rename` onto an existing entry fails. *)
Publishable(t) == pc[t] = "rename" /\ InPlace(t) /\ ~entry.made

(* Files another thread has open move with their directory. *)
Publish(t) ==
  /\ Publishable(t)
  /\ entry' = stage[Pid(t)]
  /\ stage' = [stage EXCEPT ![Pid(t)] = NoDir]
  /\ handle' = [u \in Threads |-> IF handle[u] = "stage" /\ u \in Pid(t)
                                    THEN "entry" ELSE handle[u]]
  /\ todo' = [todo EXCEPT ![t] = {}]
  /\ Goto(t, "ok")
  /\ UNCHANGED <<setting, rounds, dir, before, half, kept>>

(* The directory cannot be read again: nothing is staged. *)
SnapshotFails(t) ==
  /\ pc[t] = "ran"
  /\ Goto(t, "ok")
  /\ UNCHANGED <<setting, diskVars, rounds, dir, before, todo, handle, half, kept>>

(* Any step of the store may fail, a copy in the middle of a file, and the *)
(* rename does when it must.  Removing the rest may fail too; the run      *)
(* stays successful.                                                       *)
StoreFails(t) ==
  /\ pc[t] \in {"put", "manifest", "rename"}
  /\ LET cut(d, place) ==
           IF handle[t] = place THEN [d EXCEPT !.files[FileOf(t)] = "cut"] ELSE d
     IN  /\ \E d \in Remains(cut(stage[Pid(t)], "stage")) : RemoveStage(t, d)
         /\ entry' = cut(entry, "entry")
  /\ todo' = [todo EXCEPT ![t] = {}]
  /\ Goto(t, "ok")
  /\ UNCHANGED <<setting, rounds, dir, before, half, kept>>

(* A process ends anywhere; a later one may get its number. *)
Crash(t) ==
  /\ \E u \in Pid(t) : pc[u] \notin Idle
  /\ LET dead == Pid(t)
         reset(v, none) == [u \in Threads |-> IF u \in dead THEN none ELSE v[u]]
         left(d, place) ==
           LET open == {FileOf(u) : u \in {v \in dead : handle[v] = place}}
           IN  [d EXCEPT !.files = [f \in Files |-> IF f \in open THEN "cut" ELSE @[f]]]
     IN  /\ pc' = reset(pc, "idle")
         /\ todo' = reset(todo, {})
         /\ handle' = reset(handle, "none")
         /\ stage' = [stage EXCEPT ![Pid(t)] = left(@, "stage")]
         /\ entry' = left(entry, "entry")
  /\ UNCHANGED <<setting, rounds, dir, before, half, kept>>

Thread(t) ==
  \/ Begin(t) \/ RestoreLine(t) \/ RestoreFails(t) \/ Hit(t)
  \/ LaunchRefused(t) \/ RunSucceeds(t) \/ RunFails(t)
  \/ Clear(t) \/ PutOpen(t) \/ PutClose(t) \/ PutSidecar(t)
  \/ PutManifest(t) \/ Publish(t) \/ SnapshotFails(t) \/ StoreFails(t) \/ Crash(t)

Next == \E t \in Threads : Thread(t)

Spec == Init /\ [][Next]_vars

-----------------------------------------------------------------------------
(* Properties. *)

Contents  == {"absent", "input", "result", "stale", "cut", "drifted", "broken"}
Directory == [Files -> Contents]
Line      == {"F", "D"} \X Files
Tree      == [made : BOOLEAN, files : Directory, sidecar : BOOLEAN,
              manifest : SUBSET Line, listed : BOOLEAN]

(* The state is one of the program's; only a store has a file open, and    *)
(* only a directory that exists has something in it.                       *)
TypeOK ==
  /\ setting \in [caller : {"avl", "listed", "whole"}, shared : BOOLEAN]
  /\ entry \in Tree /\ stage \in [Pids -> Tree]
  /\ pc \in [Threads -> Idle \cup {"restore", "run", "ran", "put", "manifest", "rename"}]
  /\ rounds \in 0..Invocations
  /\ dir \in [Threads -> Directory] /\ before \in [Threads -> Directory]
  /\ todo \in [Threads -> SUBSET Line]
  /\ handle \in [Threads -> {"none", "stage", "entry", "gone"}]
  /\ half \in [Threads -> BOOLEAN] /\ kept \in [Threads -> SUBSET Files]
  /\ \A t \in Threads : handle[t] # "none" => Stored(t)
  /\ \A d \in {entry} \cup {stage[p] : p \in Pids} : ~d.made => d = NoDir

Overlaid(d, e) ==
  [f \in Files |-> IF <<"F", f>> \in e.manifest THEN e.files[f]
                   ELSE IF <<"D", f>> \in e.manifest THEN "absent" ELSE d[f]]

(* Unless two threads of a process store the same key at the same time,    *)
(* every file the manifest of a published entry names is there and is that *)
(* of a successful run, whichever step of the store failed or was the last *)
(* of its process.  Where a staging directory could not be cleared, the    *)
(* entry may hold files besides, which no line names.                      *)
EntryIsComplete ==
  entry.made /\ ~setting.shared =>
    /\ entry.listed /\ entry.sidecar
    /\ \A f \in Files : <<"F", f>> \in entry.manifest => entry.files[f] = "result"

(***************************************************************************)
(* What the module promises of a hit, as far as it holds.  The replayed    *)
(* files are those of the run that was stored, and nothing of a failed or  *)
(* a drifted run is ever replayed.  The directory is the one the tool      *)
(* would have left if the callers start clean: what an earlier run left    *)
(* unchanged is in no manifest.  A file the tool deletes stays as it was   *)
(* where it could not be removed: that is a hit as well.  With a shared    *)
(* staging path a file may be cut, and a hit may bring back less than the  *)
(* run.                                                                    *)
(***************************************************************************)
HitIsTheRun ==
  \A t \in Threads : pc[t] = "hit" =>
    /\ \A f \in Files : dir[t][f] \notin {"broken", "drifted"}
    /\ ~setting.shared => \A f \in Files : dir[t][f] =
         IF f \in kept[t] THEN before[t][f] ELSE Overlaid(before[t], entry)[f]
    /\ ~setting.shared =>
         \A f \in kept[t] : <<"D", f>> \in entry.manifest /\ Outcome[f] = "absent"
    /\ ~setting.shared /\ setting.caller # "listed" =>
         \A f \in Files \ kept[t] : dir[t][f] = Outcome[f]

(* The cache changes what a run gives only where a restore failed half way:*)
(* AVL then finds a log file in its way, and a tool that reads its own     *)
(* output goes on from the finished state.                                 *)
OnlyAHalfRestoreChangesARun ==
  \A t \in Threads :
    pc[t] = "refused" \/ (pc[t] = "ok" /\ dir[t] # Outcome) => half[t]
=============================================================================
