------------------------------ MODULE Staging ------------------------------
(* The download directory: a worker stages an episode under incomplete/,   *)
(* renames it when ffprobe disagrees with the requested quality, and moves *)
(* the directory up when it is done, by rename or, across filesystems, by  *)
(* copying; meanwhile a cancel removes staging directories, the cleanup    *)
(* loop removes imported ones, Sonarr takes finished files and the process *)
(* may die.  A directory holds at most one mp4, named after it; subtitles  *)
(* do not matter to anyone here.                                           *)
EXTENDS Naturals

CONSTANTS
  Download,    \* (pid, quality) pairs that may be grabbed
  Name,        \* directory names
  Requested,   \* [Download -> Name], from the release title
  Actual,      \* [Download -> Name], from the title with the real quality
  Nobody

ASSUME NamesAssumption ==
  /\ Requested \in [Download -> Name]
  /\ Actual \in [Download -> Name]
  /\ Nobody \notin Download

Path == {"incomplete", "final"} \X Name
Staged(p) == p[1] = "incomplete"
Finalised(p) == <<"final", p[2]>>

(* A directory: which download's ffmpeg wrote its mp4, and whether to the  *)
(* end ("whole"), not yet ("partial"), or only as far as a copy has got    *)
(* ("copying").                                                            *)
NoDir == [mp4 |-> "no dir", by |-> Nobody]
EmptyDir == [mp4 |-> "none", by |-> Nobody]
Held == {"no dir", "none", "partial", "copying", "whole"}
Dir == [mp4 : Held, by : Download \cup {Nobody}]

VARIABLES
  disk,      \* [Path -> Dir]
  sameFS,    \* incomplete/ and the download directory share a filesystem
  row,       \* the rows of the two buckets: status and persisted OutputDir
  worker,    \* the worker of a download: step, OutputDir in memory, made
  cancel,    \* the cancel of a download: step, snapshot of OutputDir
  owned,     \* the directories a cleanup pass took from the history
  doomed,    \* the one it has looked at and is about to remove, as it found it
  gone       \* ghost: finished files somebody took or deleted

vars == <<disk, sameFS, row, worker, cancel, owned, doomed, gone>>

Steps == {"idle", "mkdir", "ffmpeg", "writing", "stat", "reconcile", "relocate",
          "finalise", "copy", "copying", "complete"}

Exists(p) == disk[p].mp4 # "no dir"
HasMp4(p) == disk[p].mp4 \in {"partial", "copying", "whole"}

(* Mutation of StagingDir: downloads go straight to their final place.     *)
StagedInPlace(d) == <<"final", Requested[d]>>

(* Where Enqueue stages a download.                                        *)
StagingDir(d) == <<"incomplete", Requested[d]>>

Init ==
  /\ disk = [p \in Path |-> NoDir]
  /\ sameFS \in BOOLEAN
  /\ row = [d \in Download |-> [status |-> "absent", dir |-> StagingDir(d)]]
  /\ worker = [d \in Download |->
                 [pc |-> "idle", dir |-> StagingDir(d), made |-> FALSE]]
  /\ cancel = [d \in Download |-> [pc |-> "idle", dir |-> StagingDir(d)]]
  /\ owned = {} /\ doomed = {}
  /\ gone = {}

Enqueue(d) ==
  /\ row[d].status = "absent" /\ worker[d].pc = "idle"
  /\ row' = [row EXCEPT ![d] = [status |-> "queued", dir |-> StagingDir(d)]]
  /\ gone' = gone \ {d}
  /\ UNCHANGED <<disk, sameFS, worker, cancel, owned, doomed>>

----------------------------------------------------------------------------
(* The worker of d.                                                        *)

At(d, pc) == worker[d].pc = pc
GoTo(d, pc) == worker' = [worker EXCEPT ![d].pc = pc]

Claim(d) ==
  /\ At(d, "idle") /\ row[d].status = "queued"
  /\ row' = [row EXCEPT ![d].status = "active"]
  /\ worker' = [worker EXCEPT ![d] = [pc |-> "mkdir", dir |-> row[d].dir, made |-> FALSE]]
  /\ UNCHANGED <<disk, sameFS, cancel, owned, doomed, gone>>

(* failDownload: the row, its OutputDir included, goes back for a retry or *)
(* to the history.                                                         *)
Fail(d) ==
  /\ \E status \in {"queued", "failed"} :
       row' = [row EXCEPT ![d] = [status |-> status, dir |-> worker[d].dir]]
  /\ GoTo(d, "idle")

MakeDir(d) ==
  /\ At(d, "mkdir")
  /\ disk' = [disk EXCEPT ![worker[d].dir] = IF Exists(worker[d].dir) THEN @ ELSE EmptyDir]
  /\ GoTo(d, "ffmpeg")
  /\ UNCHANGED <<sameFS, row, cancel, owned, doomed, gone>>

(* ffmpeg -y truncates whatever is there; without the directory it fails.  *)
StartFFmpeg(d) ==
  /\ At(d, "ffmpeg")
  /\ \/ /\ Exists(worker[d].dir)
        /\ disk' = [disk EXCEPT ![worker[d].dir] = [mp4 |-> "partial", by |-> d]]
        /\ GoTo(d, "writing")
        /\ UNCHANGED row
     \/ ~Exists(worker[d].dir) /\ Fail(d) /\ UNCHANGED disk
  /\ UNCHANGED <<sameFS, cancel, owned, doomed, gone>>

(* The file ffmpeg holds open may have been moved, or unlinked.            *)
Written(d) ==
  [p \in Path |-> IF disk[p] = [mp4 |-> "partial", by |-> d]
                  THEN [disk[p] EXCEPT !.mp4 = "whole"] ELSE disk[p]]

(* ffmpeg ends: with the file, with an error, or killed by the context of  *)
(* a user's cancel, which leaves the row to CancelDownload.                *)
EndFFmpeg(d) ==
  /\ At(d, "writing")
  /\ \/ disk' = Written(d) /\ GoTo(d, "stat") /\ UNCHANGED row
     \/ Fail(d) /\ UNCHANGED disk
     \/ cancel[d].pc # "idle" /\ GoTo(d, "idle") /\ UNCHANGED <<disk, row>>
  /\ UNCHANGED <<sameFS, cancel, owned, doomed, gone>>

(* The stat and the truncation gate, which drops the file it refuses; a    *)
(* partial file may be large enough to pass.                               *)
Gate(d) ==
  LET dir == worker[d].dir IN
  /\ At(d, "stat")
  /\ \/ HasMp4(dir) /\ GoTo(d, "reconcile") /\ UNCHANGED <<disk, row>>
     \/ HasMp4(dir) /\ Fail(d) /\ disk' = [disk EXCEPT ![dir] = EmptyDir]
     \/ ~HasMp4(dir) /\ Fail(d) /\ UNCHANGED disk
  /\ UNCHANGED <<sameFS, cancel, owned, doomed, gone>>

(* reconcileDownload, first half: look for the directory of the title with *)
(* the real quality, make it when it is missing.                           *)
Reconcile(d) ==
  LET new == <<"incomplete", Actual[d]>> IN
  /\ At(d, "reconcile")
  /\ \/ GoTo(d, "finalise") /\ UNCHANGED disk    \* ffprobe failed, or agrees
     \/ /\ Actual[d] # worker[d].dir[2]
        /\ disk' = [disk EXCEPT ![new] = IF Exists(new) THEN @ ELSE EmptyDir]
        /\ worker' = [worker EXCEPT ![d].pc = "relocate", ![d].made = ~Exists(new)]
  /\ UNCHANGED <<sameFS, row, cancel, owned, doomed, gone>>

(* Second half: move the file, unless one is there; the old directory goes *)
(* when it is empty, a directory made for nothing too.                     *)
Relocate(d) ==
  LET old == worker[d].dir
      new == <<"incomplete", Actual[d]>>
      moved == HasMp4(old) /\ Exists(new) /\ ~HasMp4(new)
  IN
  /\ At(d, "relocate")
  /\ \/ /\ moved
        /\ disk' = [disk EXCEPT ![new] = disk[old], ![old] = NoDir]
        /\ worker' = [worker EXCEPT ![d].pc = "finalise", ![d].dir = new]
     \/ /\ ~moved
        /\ disk' = [disk EXCEPT ![new] =
                      IF worker[d].made /\ disk[new] = EmptyDir THEN NoDir ELSE @]
        /\ GoTo(d, "finalise")
  /\ UNCHANGED <<sameFS, row, cancel, owned, doomed, gone>>

(* renameat2 with RENAME_NOREPLACE moves a directory that is there to a    *)
(* name that is free.                                                      *)
Renamed(from, to) == Exists(from) /\ ~Exists(to)

(* finaliseDownload.  Across filesystems the kernel answers EXDEV before   *)
(* it looks at the target.                                                 *)
Finalise(d) ==
  LET from == worker[d].dir
      to == Finalised(from)
  IN
  /\ At(d, "finalise")
  /\ \/ /\ sameFS /\ Renamed(from, to)
        /\ disk' = [disk EXCEPT ![to] = disk[from], ![from] = NoDir]
        /\ worker' = [worker EXCEPT ![d].pc = "complete", ![d].dir = to]
     \/ /\ sameFS /\ ~Renamed(from, to)
        /\ GoTo(d, "complete") /\ UNCHANGED disk
     \/ /\ ~sameFS
        /\ GoTo(d, IF Exists(from) THEN "copy" ELSE "complete")
        /\ disk' = [disk EXCEPT ![to] = IF Exists(from) /\ ~Exists(to) THEN EmptyDir ELSE @]
  /\ UNCHANGED <<sameFS, row, cancel, owned, doomed, gone>>

(* A copy that fails takes both ends with it.                              *)
CopyFails(d) ==
  /\ disk' = [disk EXCEPT ![Finalised(worker[d].dir)] = NoDir, ![worker[d].dir] = NoDir]
  /\ GoTo(d, "complete")

CopyOpens(d) ==
  LET from == worker[d].dir
      to == Finalised(from)
  IN
  /\ At(d, "copy")
  /\ \/ /\ HasMp4(from) /\ Exists(to)
        /\ disk' = [disk EXCEPT ![to] = [mp4 |-> "copying", by |-> disk[from].by]]
        /\ GoTo(d, "copying")
     \/ CopyFails(d)
  /\ UNCHANGED <<sameFS, row, cancel, owned, doomed, gone>>

(* Mutation of Copied: a copy that stops early is taken for the file.      *)
CopiedShort(from) == "copying"

(* What the copy leaves at the target: what the source holds.              *)
Copied(from) == disk[from].mp4

CopyEnds(d) ==
  LET from == worker[d].dir
      to == Finalised(from)
  IN
  /\ At(d, "copying")
  /\ \/ /\ HasMp4(from) /\ HasMp4(to)
        /\ disk' = [disk EXCEPT ![to].mp4 = Copied(from), ![from] = NoDir]
        /\ worker' = [worker EXCEPT ![d].pc = "complete", ![d].dir = to]
     \/ CopyFails(d)
  /\ UNCHANGED <<sameFS, row, cancel, owned, doomed, gone>>

Complete(d) ==
  /\ At(d, "complete")
  /\ row' = [row EXCEPT ![d] = [status |-> "completed", dir |-> worker[d].dir]]
  /\ GoTo(d, "idle")
  /\ UNCHANGED <<disk, sameFS, cancel, owned, doomed, gone>>

Work(d) ==
  \/ Claim(d) \/ MakeDir(d) \/ StartFFmpeg(d) \/ EndFFmpeg(d) \/ Gate(d)
  \/ Reconcile(d) \/ Relocate(d) \/ Finalise(d) \/ CopyOpens(d) \/ CopyEnds(d)
  \/ Complete(d)

----------------------------------------------------------------------------
(* Everybody else.                                                         *)

(* CancelDownload snapshots OutputDir before it signals the worker ...     *)
CancelStarts(d) ==
  /\ cancel[d].pc = "idle" /\ row[d].status \in {"queued", "active"}
  /\ cancel' = [cancel EXCEPT ![d] = [pc |-> "wait", dir |-> row[d].dir]]
  /\ UNCHANGED <<disk, sameFS, row, worker, owned, doomed, gone>>

(* cleanupIncompleteDir refuses whatever is not under incomplete/.         *)
Cleanable(p) == Staged(p)

(* ... removes it when the worker has released the row or the wait is over,*)
CancelCleans(d) ==
  /\ cancel[d].pc = "wait"
  /\ disk' = [disk EXCEPT ![cancel[d].dir] = IF Cleanable(cancel[d].dir) THEN NoDir ELSE @]
  /\ cancel' = [cancel EXCEPT ![d].pc = "delete"]
  /\ UNCHANGED <<sameFS, row, worker, owned, doomed, gone>>

(* ... and deletes the row, if the downloads bucket still has it.          *)
CancelDeletes(d) ==
  /\ cancel[d].pc = "delete"
  /\ row' = [row EXCEPT ![d].status = IF @ \in {"queued", "active"} THEN "absent" ELSE @]
  /\ cancel' = [cancel EXCEPT ![d].pc = "idle"]
  /\ UNCHANGED <<disk, sameFS, worker, owned, doomed, gone>>

InHistory(d) == row[d].status \in {"completed", "failed"}

DeleteHistory(d) ==
  /\ InHistory(d)
  /\ row' = [row EXCEPT ![d].status = "absent"]
  /\ UNCHANGED <<disk, sameFS, worker, cancel, owned, doomed, gone>>

(* Sonarr moves a completed file out of the directory it is told.          *)
Import(d) ==
  /\ row[d].status = "completed" /\ HasMp4(row[d].dir)
  /\ disk' = [disk EXCEPT ![row[d].dir] = EmptyDir]
  /\ gone' = gone \cup {e \in Download : row[e].dir = row[d].dir}
  /\ UNCHANGED <<sameFS, row, worker, cancel, owned, doomed>>

HistoryDirs == {row[d].dir : d \in {e \in Download : InHistory(e)}}

(* handleDeleteDirectory: a directory of the download directory that the   *)
(* history owns.                                                           *)
DeleteDirectory(n) ==
  LET p == <<"final", n>> IN
  /\ Exists(p) /\ p \in HistoryDirs
  /\ disk' = [disk EXCEPT ![p] = NoDir]
  /\ gone' = gone \cup {d \in Download : row[d].dir = p}
  /\ UNCHANGED <<sameFS, row, worker, cancel, owned, doomed>>

(* runCleanup lists the history first, then looks at each directory.       *)
CleanupLists ==
  /\ owned = {} /\ doomed = {} /\ owned' = HistoryDirs
  /\ UNCHANGED <<disk, sameFS, row, worker, cancel, doomed, gone>>

(* Mutation of Stale: the cleanup forgets to look for an mp4.              *)
StaleAnyway(p) == Exists(p)

(* A directory without an mp4.                                             *)
Stale(p) == Exists(p) /\ ~HasMp4(p)

CleanupLooks(n) ==
  LET p == <<"final", n>> IN
  /\ doomed = {} /\ p \in owned
  /\ owned' = owned \ {p}
  /\ doomed' = IF Stale(p) THEN {[dir |-> p, held |-> disk[p].mp4]} ELSE {}
  /\ UNCHANGED <<disk, sameFS, row, worker, cancel, gone>>

(* The downloads whose finished file is at p.                              *)
DoneAt(p) ==
  {d \in Download : \/ row[d].status = "completed" /\ row[d].dir = p
                    \/ worker[d].pc = "complete" /\ worker[d].dir = p}

(* RemoveAll takes a file that came since the look as well: gone has it.   *)
CleanupRemoves ==
  \E k \in doomed :
    /\ disk' = [disk EXCEPT ![k.dir] = NoDir]
    /\ doomed' = {}
    /\ gone' = gone \cup IF k.held = "none" THEN DoneAt(k.dir) ELSE {}
    /\ UNCHANGED <<sameFS, row, worker, cancel, owned>>

CleanupEnds ==
  /\ owned # {} /\ doomed = {} /\ \A p \in owned : Staged(p)
  /\ owned' = {}
  /\ UNCHANGED <<disk, sameFS, row, worker, cancel, doomed, gone>>

(* The process dies: the disk and the buckets stay, an active row is       *)
(* claimed by nobody any more.                                             *)
Crash ==
  /\ \E d \in Download : worker[d].pc # "idle"
  /\ worker' = [d \in Download |-> [worker[d] EXCEPT !.pc = "idle"]]
  /\ cancel' = [d \in Download |-> [cancel[d] EXCEPT !.pc = "idle"]]
  /\ owned' = {} /\ doomed' = {}
  /\ UNCHANGED <<disk, sameFS, row, gone>>

Next ==
  \/ \E d \in Download :
       \/ Enqueue(d) \/ Work(d)
       \/ CancelStarts(d) \/ CancelCleans(d) \/ CancelDeletes(d)
       \/ DeleteHistory(d) \/ Import(d)
  \/ \E n \in Name : DeleteDirectory(n) \/ CleanupLooks(n)
  \/ CleanupLists \/ CleanupRemoves \/ CleanupEnds \/ Crash

Spec == Init /\ [][Next]_vars

----------------------------------------------------------------------------
TypeOK ==
  /\ disk \in [Path -> Dir]
  /\ sameFS \in BOOLEAN
  /\ row \in [Download -> [status : {"absent", "queued", "active", "completed", "failed"},
                           dir : Path]]
  /\ worker \in [Download -> [pc : Steps, dir : Path, made : BOOLEAN]]
  /\ cancel \in [Download -> [pc : {"idle", "wait", "delete"}, dir : Path]]
  /\ owned \subseteq Path /\ doomed \subseteq [dir : Path, held : Held]
  /\ gone \subseteq Download

(* manager.go:437-441 "the file is only visible in its final location once *)
(* ffmpeg, reconcile and subtitles are all done": no file that ffmpeg is   *)
(* still writing, or gave up on, is ever seen in the download directory.   *)
NothingPartialVisible ==
  \A n \in Name : disk[<<"final", n>>].mp4 # "partial"

(* The storage path a completed entry reports to Sonarr is truthful: once  *)
(* it points into the download directory, the whole file is there until    *)
(* somebody takes it, whatever cancels, cleanups and crashes went on; a    *)
(* cleanup takes it that saw the directory empty an instant before.        *)
CompletedIsWhole ==
  \A d \in Download :
    row[d].status = "completed" /\ ~Staged(row[d].dir) /\ d \notin gone
      => disk[row[d].dir].mp4 = "whole"

FinishedFileLost(n) ==
  /\ disk[<<"final", n>>].mp4 = "whole" /\ disk'[<<"final", n>>].mp4 # "whole"
  /\ gone' = gone
  /\ [dir |-> <<"final", n>>, held |-> "none"] \notin doomed \ doomed'

(* A finished file in the download directory is only ever removed by       *)
(* Sonarr or by the user: no later download replaces it, no cleanup and no *)
(* cancel deletes it: manager.go:445 "If the target already exists,        *)
(* returns an error and leaves the incomplete dir in place".  So while     *)
(* incomplete/ is on the download directory's filesystem, where the move   *)
(* is one rename; and but for a file that comes to a directory between the *)
(* cleanup's look at it, empty, and its removal (cleanup.go:55-67).        *)
FinishedFilesStayOnRename == [][sameFS => \A n \in Name : ~FinishedFileLost(n)]_vars
============================================================================
