-------------------------- MODULE Staging_proofs --------------------------
(* No partial file is visible, a completed entry's path is truthful and    *)
(* finished files stay, for any set of downloads whose directory names do  *)
(* not meet: run staging_shared shows what happens when they do.           *)
EXTENDS Staging, TLAPS

OwnNames(d) == {Requested[d], Actual[d]}

(* The names come from the episode's title and quality, so two downloads   *)
(* of different episodes do not share one; two qualities of one episode    *)
(* may.                                                                    *)
NamesApart ==
  \A d, e \in Download : d # e => OwnNames(d) \cap OwnNames(e) = {}

Busy(d) == worker[d].pc # "idle"

(* The steps up to the rename of reconcileDownload, and those on a file    *)
(* the truncation gate has let through.                                    *)
Unmoved == {"mkdir", "ffmpeg", "writing", "stat", "reconcile", "relocate"}
Passed == {"reconcile", "relocate", "finalise", "copy", "copying"}

(* Whose directories a download's row, worker and cancel point at.         *)
Pointers(d) ==
  /\ row[d].dir[2] \in OwnNames(d)
  /\ worker[d].dir[2] \in OwnNames(d)
  /\ row[d].status \in {"queued", "active", "failed"} => row[d].dir = StagingDir(d)
  /\ worker[d].pc \in Unmoved => worker[d].dir = StagingDir(d)
  /\ worker[d].pc \in Passed => Staged(worker[d].dir)
  /\ worker[d].pc = "relocate" => Actual[d] # Requested[d]
  /\ sameFS => worker[d].pc \notin {"copy", "copying"}

(* A row somebody works on is not in the history, and its file not gone    *)
(* before the move is done.                                                *)
Claimed(d) ==
  /\ Busy(d) => row[d].status \in {"active", "absent"}
  /\ worker[d].pc \notin {"idle", "complete"} \/ row[d].status = "queued" => d \notin gone

(* What is on disk at each step.                                           *)
Files(d) ==
  /\ worker[d].pc \in Passed => disk[worker[d].dir].mp4 \in {"no dir", "whole"}
  /\ worker[d].pc = "complete" /\ ~Staged(worker[d].dir)
       => (disk[worker[d].dir].mp4 = "whole" <=> d \notin gone)
  /\ row[d].status = "completed" /\ ~Staged(row[d].dir)
       => (disk[row[d].dir].mp4 = "whole" <=> d \notin gone)

(* ffmpeg's unfinished files lie where their download is staged, and only  *)
(* until that download's worker is past ffmpeg; copies are in the download *)
(* directory.                                                              *)
Unfinished(p) ==
  /\ disk[p].mp4 = "partial" =>
       \E d \in Download :
         /\ p = StagingDir(d) /\ disk[p].by = d
         /\ worker[d].pc \in {"idle", "mkdir", "ffmpeg", "writing"}
  /\ disk[p].mp4 = "copying" => ~Staged(p)

(* What the cleanup is about to remove was empty in the download directory *)
(* when it looked.                                                         *)
SeenEmpty == \A k \in doomed : ~Staged(k.dir) /\ k.held = "none"

Local(d) == Pointers(d) /\ Claimed(d) /\ Files(d)

IInv ==
  /\ TypeOK
  /\ \A d \in Download : Local(d)
  /\ \A p \in Path : Unfinished(p)

----------------------------------------------------------------------------
(* Types.                                                                  *)

Rows == [Download -> [status : {"absent", "queued", "active", "completed", "failed"},
                      dir : Path]]
Workers == [Download -> [pc : Steps, dir : Path, made : BOOLEAN]]
Cancels == [Download -> [pc : {"idle", "wait", "delete"}, dir : Path]]

LEMMA Types ==
  TypeOK <=> /\ disk \in [Path -> Dir] /\ sameFS \in BOOLEAN
             /\ row \in Rows /\ worker \in Workers /\ cancel \in Cancels
             /\ owned \subseteq Path /\ doomed \subseteq [dir : Path, held : Held]
             /\ gone \subseteq Download
  BY DEF TypeOK, Rows, Workers, Cancels

LEMMA StagedPlaces ==
  ASSUME NEW d \in Download
  PROVE  /\ Requested[d] \in Name /\ Actual[d] \in Name
         /\ StagingDir(d) \in Path /\ Staged(StagingDir(d))
         /\ StagingDir(d)[2] = Requested[d]
         /\ <<"incomplete", Actual[d]>> \in Path
  BY NamesAssumption DEF StagingDir, Path, Staged

LEMMA Places ==
  ASSUME NEW p \in Path
  PROVE  /\ p[2] \in Name /\ Finalised(p) \in Path /\ Finalised(p)[2] = p[2]
         /\ ~Staged(Finalised(p))
         /\ Staged(p) => p = <<"incomplete", p[2]>> /\ p # Finalised(p)
         /\ ~Staged(p) => p = <<"final", p[2]>> /\ Finalised(p) = p
  BY DEF Path, Finalised, Staged

LEMMA DirTypes ==
  /\ NoDir \in Dir /\ EmptyDir \in Dir
  /\ \A d \in Download : [mp4 |-> "partial", by |-> d] \in Dir
  /\ \A x \in Dir : [mp4 |-> "copying", by |-> x.by] \in Dir
  BY DEF NoDir, EmptyDir, Dir, Held

LEMMA EmptyDirs == NoDir.mp4 = "no dir" /\ EmptyDir.mp4 = "none"
  BY DEF NoDir, EmptyDir

LEMMA WholeTyped ==
  ASSUME NEW x \in Dir, NEW y \in Dir
  PROVE  [x EXCEPT !.mp4 = "whole"] \in Dir /\ [x EXCEPT !.mp4 = y.mp4] \in Dir
  BY DEF Dir, Held

LEMMA PointerTypes ==
  ASSUME TypeOK, NEW d \in Download
  PROVE  /\ worker[d].dir \in Path /\ row[d].dir \in Path /\ cancel[d].dir \in Path
         /\ Finalised(worker[d].dir) \in Path
  BY Places DEF TypeOK

LEMMA InitTyped == Init => TypeOK
  <1> SUFFICES ASSUME Init PROVE TypeOK
    OBVIOUS
  <1>1. disk \in [Path -> Dir]
    BY DirTypes DEF Init
  <1>2. row \in Rows
    BY StagedPlaces DEF Init, Rows
  <1>3. worker \in Workers
    BY StagedPlaces DEF Init, Workers, Steps
  <1>4. cancel \in Cancels
    BY StagedPlaces DEF Init, Cancels
  <1>5. QED
    BY <1>1, <1>2, <1>3, <1>4, Types DEF Init

LEMMA GoToTyped ==
  ASSUME TypeOK, NEW d \in Download, NEW pc \in Steps, GoTo(d, pc)
  PROVE  worker' \in Workers
  BY DEF TypeOK, GoTo, Workers

LEMMA GoToDirTyped ==
  ASSUME TypeOK, NEW d \in Download, NEW pc \in Steps, NEW p \in Path,
         worker' = [worker EXCEPT ![d].pc = pc, ![d].dir = p]
  PROVE  worker' \in Workers
  BY DEF TypeOK, Workers

LEMMA GoToMadeTyped ==
  ASSUME TypeOK, NEW d \in Download, NEW pc \in Steps, NEW made \in BOOLEAN,
         worker' = [worker EXCEPT ![d].pc = pc, ![d].made = made]
  PROVE  worker' \in Workers
  BY DEF TypeOK, Workers

LEMMA FailTyped ==
  ASSUME TypeOK, NEW d \in Download, Fail(d)
  PROVE  row' \in Rows /\ worker' \in Workers
  <1>1. row' \in Rows
    BY DEF TypeOK, Fail, Rows
  <1>2. worker' \in Workers
    BY GoToTyped DEF Fail, Steps
  <1>3. QED
    BY <1>1, <1>2

LEMMA WrittenTyped ==
  ASSUME TypeOK, NEW d \in Download
  PROVE  Written(d) \in [Path -> Dir]
  BY WholeTyped DEF TypeOK, Written

LEMMA WorkTyped ==
  ASSUME TypeOK, NEW d \in Download, Work(d)
  PROVE  TypeOK'
  <1>0. /\ disk \in [Path -> Dir] /\ row \in Rows /\ worker \in Workers /\ cancel \in Cancels
    BY Types
  <1>1. CASE Claim(d)
    <2>1. row' \in Rows
      BY <1>1 DEF TypeOK, Claim, Rows
    <2>2. worker' \in Workers
      BY <1>1 DEF TypeOK, Claim, Workers, Steps
    <2>3. QED
      BY <1>1, <2>1, <2>2 DEF TypeOK, Claim, Rows, Workers
  <1>2. CASE MakeDir(d)
    <2>1. disk' \in [Path -> Dir]
      BY <1>0, <1>2, DirTypes, PointerTypes DEF MakeDir
    <2>2. worker' \in Workers
      BY <1>2, GoToTyped DEF MakeDir, Steps
    <2>3. QED
      BY <1>2, <2>1, <2>2 DEF TypeOK, MakeDir, Workers
  <1>3. CASE StartFFmpeg(d)
    <2>1. disk' \in [Path -> Dir]
      BY <1>0, <1>3, DirTypes, PointerTypes DEF StartFFmpeg
    <2>2. row' \in Rows /\ worker' \in Workers
      BY <1>0, <1>3, GoToTyped, FailTyped DEF StartFFmpeg, Steps
    <2>3. QED
      BY <1>3, <2>1, <2>2 DEF TypeOK, StartFFmpeg, Workers, Rows
  <1>4. CASE EndFFmpeg(d)
    <2>1. disk' \in [Path -> Dir]
      BY <1>0, <1>4, WrittenTyped DEF EndFFmpeg
    <2>2. row' \in Rows /\ worker' \in Workers
      BY <1>0, <1>4, GoToTyped, FailTyped DEF EndFFmpeg, Steps
    <2>3. QED
      BY <1>4, <2>1, <2>2 DEF TypeOK, EndFFmpeg, Workers, Rows
  <1>5. CASE Gate(d)
    <2>1. disk' \in [Path -> Dir]
      BY <1>0, <1>5, DirTypes, PointerTypes DEF Gate
    <2>2. row' \in Rows /\ worker' \in Workers
      BY <1>0, <1>5, GoToTyped, FailTyped DEF Gate, Steps
    <2>3. QED
      BY <1>5, <2>1, <2>2 DEF TypeOK, Gate, Workers, Rows
  <1>6. CASE Reconcile(d)
    <2>1. disk' \in [Path -> Dir]
      BY <1>0, <1>6, DirTypes, StagedPlaces DEF Reconcile
    <2>2. CASE GoTo(d, "finalise")
      BY <2>1, <2>2, <1>6, GoToTyped DEF TypeOK, Reconcile, Workers, Steps
    <2>3. CASE worker' = [worker EXCEPT ![d].pc = "relocate",
                                        ![d].made = ~Exists(<<"incomplete", Actual[d]>>)]
      <3>1. worker' \in Workers
        BY <2>3, GoToMadeTyped DEF Steps
      <3>2. QED
        BY <2>1, <3>1, <1>6 DEF TypeOK, Reconcile, Workers
    <2>4. QED
      BY <1>6, <2>2, <2>3 DEF Reconcile
  <1>7. CASE Relocate(d)
    <2>1. disk' \in [Path -> Dir]
      BY <1>0, <1>7, DirTypes, StagedPlaces, PointerTypes DEF Relocate
    <2>2. worker' \in Workers
      BY <1>7, GoToTyped, GoToDirTyped, StagedPlaces DEF Relocate, Steps
    <2>3. QED
      BY <1>7, <2>1, <2>2 DEF TypeOK, Relocate, Workers
  <1>8. CASE Finalise(d)
    <2>1. disk' \in [Path -> Dir]
      BY <1>0, <1>8, DirTypes, PointerTypes DEF Finalise
    <2>2. worker' \in Workers
      BY <1>8, GoToTyped, GoToDirTyped, PointerTypes DEF Finalise, Steps
    <2>3. QED
      BY <1>8, <2>1, <2>2 DEF TypeOK, Finalise, Workers
  <1>9. CASE CopyOpens(d)
    <2>1. disk' \in [Path -> Dir]
      BY <1>0, <1>9, DirTypes, PointerTypes DEF CopyOpens, CopyFails
    <2>2. worker' \in Workers
      BY <1>9, GoToTyped DEF CopyOpens, CopyFails, Steps
    <2>3. QED
      BY <1>9, <2>1, <2>2 DEF TypeOK, CopyOpens, Workers
  <1>10. CASE CopyEnds(d)
    <2>1. disk' \in [Path -> Dir]
      <3>1. CASE CopyFails(d)
        BY <1>0, <3>1, DirTypes, PointerTypes DEF CopyFails
      <3>2. CASE disk' = [disk EXCEPT ![Finalised(worker[d].dir)].mp4 = Copied(worker[d].dir),
                                      ![worker[d].dir] = NoDir]
        BY <1>0, <3>2, DirTypes, WholeTyped, PointerTypes DEF Copied
      <3>3. QED
        BY <1>10, <3>1, <3>2 DEF CopyEnds
    <2>2. worker' \in Workers
      BY <1>10, GoToTyped, GoToDirTyped, PointerTypes DEF CopyEnds, CopyFails, Steps
    <2>3. QED
      BY <1>10, <2>1, <2>2 DEF TypeOK, CopyEnds, Workers
  <1>11. CASE Complete(d)
    <2>1. row' \in Rows
      BY <1>0, <1>11, PointerTypes DEF Complete, Rows
    <2>2. worker' \in Workers
      BY <1>11, GoToTyped DEF Complete, Steps
    <2>3. QED
      BY <1>11, <2>1, <2>2 DEF TypeOK, Complete, Rows, Workers
  <1>12. QED
    BY <1>1, <1>2, <1>3, <1>4, <1>5, <1>6, <1>7, <1>8, <1>9, <1>10, <1>11 DEF Work

LEMMA OthersTyped ==
  ASSUME TypeOK, NEW d \in Download,
         \/ Enqueue(d) \/ CancelStarts(d) \/ CancelCleans(d) \/ CancelDeletes(d)
         \/ DeleteHistory(d) \/ Import(d)
  PROVE  TypeOK'
  <1>1. CASE Enqueue(d)
    BY <1>1, StagedPlaces DEF TypeOK, Enqueue
  <1>2. CASE CancelStarts(d)
    BY <1>2 DEF TypeOK, CancelStarts
  <1>3. CASE CancelCleans(d)
    <2>1. disk' \in [Path -> Dir]
      BY <1>3, DirTypes DEF TypeOK, CancelCleans
    <2>2. QED
      BY <1>3, <2>1 DEF TypeOK, CancelCleans
  <1>4. CASE CancelDeletes(d)
    <2>1. row' \in Rows
      BY <1>4 DEF TypeOK, CancelDeletes, Rows
    <2>2. cancel' \in Cancels
      BY <1>4 DEF TypeOK, CancelDeletes, Cancels
    <2>3. QED
      BY <1>4, <2>1, <2>2 DEF TypeOK, CancelDeletes, Rows, Cancels
  <1>5. CASE DeleteHistory(d)
    BY <1>5 DEF TypeOK, DeleteHistory
  <1>6. CASE Import(d)
    <2>1. disk' \in [Path -> Dir]
      BY <1>6, DirTypes DEF TypeOK, Import
    <2>2. QED
      BY <1>6, <2>1 DEF TypeOK, Import
  <1>7. QED
    BY <1>1, <1>2, <1>3, <1>4, <1>5, <1>6

LEMMA NextTyped == TypeOK /\ [Next]_vars => TypeOK'
  <1> SUFFICES ASSUME TypeOK, [Next]_vars PROVE TypeOK'
    OBVIOUS
  <1>1. ASSUME \/ CleanupRemoves
               \/ \E n \in Name : DeleteDirectory(n)
        PROVE  TypeOK'
    <2>1. disk' \in [Path -> Dir]
      BY <1>1, DirTypes DEF TypeOK, DeleteDirectory, CleanupRemoves
    <2>2. gone' \subseteq Download
      BY <1>1 DEF TypeOK, DeleteDirectory, CleanupRemoves, DoneAt
    <2>3. QED
      BY <1>1, <2>1, <2>2 DEF TypeOK, DeleteDirectory, CleanupRemoves
  <1>7. ASSUME NEW n \in Name, CleanupLooks(n) PROVE TypeOK'
    <2>1. <<"final", n>> \in Path /\ disk[<<"final", n>>].mp4 \in Held
      BY DEF TypeOK, Path, Dir
    <2>2. doomed' \subseteq [dir : Path, held : Held]
      BY <1>7, <2>1 DEF CleanupLooks
    <2>3. QED
      BY <1>7, <2>2 DEF TypeOK, CleanupLooks
  <1>2. CASE CleanupLists
    BY <1>2 DEF TypeOK, CleanupLists, HistoryDirs
  <1>3. CASE CleanupEnds
    BY <1>3 DEF TypeOK, CleanupEnds
  <1>4. CASE Crash
    <2>1. worker' \in Workers
      BY <1>4 DEF TypeOK, Crash, Steps, Workers
    <2>2. cancel' \in Cancels
      BY <1>4 DEF TypeOK, Crash, Cancels
    <2>3. QED
      BY <1>4, <2>1, <2>2 DEF TypeOK, Crash, Workers, Cancels
  <1>5. CASE UNCHANGED vars
    BY <1>5 DEF TypeOK, vars
  <1>6. QED
    BY <1>1, <1>2, <1>3, <1>4, <1>5, <1>7, WorkTyped, OthersTyped DEF Next

(* Every variable has its type.                                            *)
THEOREM TypeCorrect == Spec => []TypeOK
  BY InitTyped, NextTyped, PTL DEF Spec

----------------------------------------------------------------------------
(* What leaves a download, or the disk, as the invariant wants it.         *)

LEMMA InitInv == Init => IInv
  <1> SUFFICES ASSUME Init PROVE IInv
    OBVIOUS
  <1>1. ASSUME NEW d \in Download PROVE Local(d)
    BY StagedPlaces
    DEF Init, Local, Pointers, Claimed, Files, OwnNames, Busy, Unmoved, Passed
  <1>2. ASSUME NEW p \in Path PROVE Unfinished(p)
    BY DEF Init, Unfinished, NoDir
  <1>3. QED
    BY <1>1, <1>2, InitTyped DEF IInv

LEMMA GoToEffect ==
  ASSUME TypeOK, NEW d \in Download, NEW pc, GoTo(d, pc)
  PROVE  /\ worker'[d].pc = pc /\ worker'[d].dir = worker[d].dir
         /\ \A e \in Download : e # d => worker'[e] = worker[e]
  BY DEF TypeOK, GoTo

LEMMA FailEffect ==
  ASSUME TypeOK, NEW d \in Download, Fail(d)
  PROVE  /\ worker'[d].pc = "idle" /\ worker'[d].dir = worker[d].dir
         /\ row'[d].status \in {"queued", "failed"} /\ row'[d].dir = worker[d].dir
         /\ \A e \in Download : e # d => worker'[e] = worker[e] /\ row'[e] = row[e]
  BY GoToEffect DEF TypeOK, Fail

(* A step that stays out of a download's directories, row and worker.      *)
LEMMA Elsewhere ==
  ASSUME NEW e \in Download, TypeOK, Local(e), sameFS' = sameFS,
         row'[e] = row[e], worker'[e] = worker[e], e \in gone' <=> e \in gone,
         \A p \in Path : p[2] \in OwnNames(e) => disk'[p] = disk[p]
  PROVE  Local(e)'
  <1>1. disk'[worker[e].dir] = disk[worker[e].dir] /\ disk'[row[e].dir] = disk[row[e].dir]
    BY PointerTypes DEF Local, Pointers
  <1>2. Pointers(e)'
    BY DEF Local, Pointers, StagingDir, OwnNames, Staged
  <1>3. Claimed(e)'
    BY DEF Local, Claimed, Busy
  <1>4. Files(e)'
    BY <1>1 DEF Local, Files, Staged
  <1>5. QED
    BY <1>2, <1>3, <1>4 DEF Local

Early == {"idle", "mkdir", "ffmpeg", "writing"}

(* A step that starts no file and sees nobody past ffmpeg.                 *)
LEMMA UnfinishedKept ==
  ASSUME IInv, TypeOK',
         \A e \in Download : worker[e].pc \in Early => worker'[e].pc \in Early,
         \A p \in Path : disk'[p] = disk[p] \/ disk'[p].mp4 \notin {"partial", "copying"}
  PROVE  \A p \in Path : Unfinished(p)'
  BY DEF IInv, Unfinished, Early, StagingDir, Staged

LEMMA OneStep ==
  ASSUME NamesApart, IInv, TypeOK', NEW d \in Download, sameFS' = sameFS,
         \A e \in Download : e # d =>
           /\ row'[e] = row[e] /\ worker'[e] = worker[e]
           /\ e \in gone' <=> e \in gone,
         \A p \in Path : p[2] \notin OwnNames(d) => disk'[p] = disk[p],
         Local(d)', \A p \in Path : Unfinished(p)'
  PROVE  IInv'
  <1>1. ASSUME NEW e \in Download PROVE Local(e)'
    <2>1. CASE e = d
      BY <2>1
    <2>2. CASE e # d
      <3>1. \A p \in Path : p[2] \in OwnNames(e) => disk'[p] = disk[p]
        BY <2>2 DEF NamesApart
      <3>2. QED
        BY <2>2, <3>1, Elsewhere DEF IInv
    <2>3. QED
      BY <2>1, <2>2
  <1>2. QED
    BY <1>1 DEF IInv

(* A worker that fails before the rename leaves its row where Enqueue put  *)
(* its directory.                                                          *)
LEMMA FailLocal ==
  ASSUME IInv, NEW d \in Download, Fail(d), worker[d].pc \in Unmoved,
         gone' = gone, sameFS' = sameFS
  PROVE  Local(d)'
  <1>1. worker[d].dir = StagingDir(d) /\ Busy(d) /\ Local(d) /\ TypeOK
    BY DEF IInv, Local, Pointers, Unmoved, Busy
  <1>2. Pointers(d)'
    BY <1>1, FailEffect, StagedPlaces
    DEF Local, Pointers, Unmoved, Passed, OwnNames, StagingDir
  <1>3. Claimed(d)'
    BY <1>1, FailEffect DEF Local, Claimed, Busy, Unmoved
  <1>4. Files(d)'
    BY <1>1, FailEffect DEF Files, Passed
  <1>5. QED
    BY <1>2, <1>3, <1>4 DEF Local

----------------------------------------------------------------------------
(* The worker's steps.                                                     *)

LEMMA Unpack ==
  ASSUME IInv
  PROVE  /\ TypeOK /\ \A d \in Download : Local(d) /\ Pointers(d) /\ Claimed(d) /\ Files(d)
         /\ \A p \in Path : Unfinished(p)
  BY DEF IInv, Local

LEMMA ClaimInv ==
  ASSUME NamesApart, IInv, NEW d \in Download, Claim(d), TypeOK'
  PROVE  IInv'
  <1>1. /\ worker'[d].pc = "mkdir" /\ worker'[d].dir = row[d].dir
        /\ row'[d].status = "active" /\ row'[d].dir = row[d].dir
        /\ \A e \in Download : e # d => row'[e] = row[e] /\ worker'[e] = worker[e]
        /\ disk' = disk /\ gone' = gone /\ sameFS' = sameFS
        /\ row[d].status = "queued" /\ worker[d].pc = "idle"
    BY Unpack DEF Claim, At, TypeOK
  <1>2. Local(d)'
    BY <1>1, Unpack, StagedPlaces
    DEF Local, Pointers, Claimed, Files, Unmoved, Passed, OwnNames, StagingDir, Busy
  <1>3. \A p \in Path : Unfinished(p)'
    BY <1>1, UnfinishedKept DEF Early
  <1>4. QED
    BY <1>1, <1>2, <1>3, OneStep

LEMMA MakeDirInv ==
  ASSUME NamesApart, IInv, NEW d \in Download, MakeDir(d), TypeOK'
  PROVE  IInv'
  <1>1. /\ worker'[d].pc = "ffmpeg" /\ worker'[d].dir = worker[d].dir
        /\ \A e \in Download : e # d => worker'[e] = worker[e]
        /\ row' = row /\ gone' = gone /\ sameFS' = sameFS /\ worker[d].pc = "mkdir"
    BY Unpack, GoToEffect DEF MakeDir, At
  <1>2. worker[d].dir = StagingDir(d)
    BY <1>1, Unpack DEF Pointers, Unmoved
  <1>3. \A p \in Path : disk'[p] = disk[p] \/ (p = StagingDir(d) /\ disk'[p] = EmptyDir)
    <2>1. disk \in [Path -> Dir] /\ StagingDir(d) \in Path
      BY Unpack, StagedPlaces DEF TypeOK
    <2>2. disk' = [disk EXCEPT ![StagingDir(d)] =
                     IF Exists(StagingDir(d)) THEN disk[StagingDir(d)] ELSE EmptyDir]
      BY <1>2, <2>1 DEF MakeDir
    <2>3. QED
      BY <2>1, <2>2
  <1>4. Local(d)'
    BY <1>1, <1>2, Unpack
    DEF Local, Pointers, Claimed, Files, Unmoved, Passed, OwnNames, StagingDir, Busy
  <1>5. \A p \in Path : Unfinished(p)'
    BY <1>1, <1>3, UnfinishedKept DEF Early, EmptyDir
  <1>6. QED
    BY <1>1, <1>3, <1>4, <1>5, OneStep, StagedPlaces DEF OwnNames

LEMMA StartFFmpegInv ==
  ASSUME NamesApart, IInv, NEW d \in Download, StartFFmpeg(d), TypeOK'
  PROVE  IInv'
  <1>1. /\ gone' = gone /\ sameFS' = sameFS /\ worker[d].pc = "ffmpeg"
        /\ worker[d].dir = StagingDir(d)
    BY Unpack DEF StartFFmpeg, At, Pointers, Unmoved
  <1>2. CASE Fail(d) /\ UNCHANGED disk
    <2>1. Local(d)'
      BY <1>1, <1>2, FailLocal DEF Unmoved
    <2>2. \A p \in Path : Unfinished(p)'
      BY <1>1, <1>2, UnfinishedKept, FailEffect, Unpack DEF Early
    <2>3. QED
      BY <1>1, <1>2, <2>1, <2>2, OneStep, FailEffect, Unpack
  <1>3. CASE /\ disk' = [disk EXCEPT ![worker[d].dir] = [mp4 |-> "partial", by |-> d]]
             /\ GoTo(d, "writing") /\ UNCHANGED row
    <2>1. /\ worker'[d].pc = "writing" /\ worker'[d].dir = worker[d].dir
          /\ \A e \in Download : e # d => worker'[e] = worker[e]
          /\ row' = row
      BY <1>3, Unpack, GoToEffect
    <2>2. /\ \A p \in Path : p # StagingDir(d) => disk'[p] = disk[p]
          /\ disk'[StagingDir(d)] = [mp4 |-> "partial", by |-> d]
      BY <1>1, <1>3, Unpack, StagedPlaces DEF TypeOK
    <2>3. Local(d)'
      BY <1>1, <2>1, Unpack
      DEF Local, Pointers, Claimed, Files, Unmoved, Passed, OwnNames, StagingDir, Busy
    <2>4. \A p \in Path : Unfinished(p)'
      <3> SUFFICES ASSUME NEW p \in Path PROVE Unfinished(p)'
        OBVIOUS
      <3>1. CASE p = StagingDir(d)
        BY <2>1, <2>2, <3>1 DEF Unfinished, StagingDir
      <3>2. CASE p # StagingDir(d)
        <4>1. disk'[p] = disk[p] /\ Unfinished(p)
          BY <2>2, <3>2, Unpack
        <4>2. \A e \in Download : StagingDir(e)' = StagingDir(e)
          BY DEF StagingDir
        <4>3. QED
          BY <1>1, <2>1, <4>1, <4>2 DEF Unfinished, Staged
      <3>3. QED
        BY <3>1, <3>2
    <2>5. QED
      BY <1>1, <2>1, <2>2, <2>3, <2>4, OneStep, StagedPlaces DEF OwnNames
  <1>4. QED
    BY <1>2, <1>3 DEF StartFFmpeg

(* What ffmpeg finishes is its own file, where it was staged.              *)
LEMMA WrittenFiles ==
  ASSUME NamesApart, IInv, NEW d \in Download, disk' = Written(d), NEW p \in Path
  PROVE  /\ disk'[p] = disk[p] \/ (p = StagingDir(d) /\ disk'[p].mp4 = "whole")
         /\ p = StagingDir(d) => disk'[p].mp4 # "partial"
         /\ disk'[p].mp4 = "partial" => disk'[p].by # d
  <1>1. disk[p] \in Dir /\ Unfinished(p)
    BY Unpack DEF TypeOK
  <1>2. disk'[p] = IF disk[p] = [mp4 |-> "partial", by |-> d]
                   THEN [disk[p] EXCEPT !.mp4 = "whole"] ELSE disk[p]
    BY DEF Written
  <1>3. disk[p].mp4 = "partial" /\ disk[p].by = d => disk[p] = [mp4 |-> "partial", by |-> d]
    BY <1>1 DEF Dir
  <1>4. [disk[p] EXCEPT !.mp4 = "whole"].mp4 = "whole"
    BY <1>1 DEF Dir
  <1>5. disk[p].mp4 = "partial" => p = StagingDir(disk[p].by) /\ disk[p].by \in Download
    BY <1>1 DEF Unfinished
  <1>6. \A e \in Download : StagingDir(e) = StagingDir(d) => e = d
    BY DEF NamesApart, OwnNames, StagingDir
  <1>7. QED
    BY <1>1, <1>2, <1>3, <1>4, <1>5, <1>6

LEMMA EndFFmpegInv ==
  ASSUME NamesApart, IInv, NEW d \in Download, EndFFmpeg(d), TypeOK'
  PROVE  IInv'
  <1>1. /\ gone' = gone /\ sameFS' = sameFS /\ worker[d].pc = "writing"
        /\ worker[d].dir = StagingDir(d) /\ Busy(d)
    BY Unpack DEF EndFFmpeg, At, Pointers, Unmoved, Busy
  <1>2. CASE Fail(d) /\ UNCHANGED disk
    <2>1. Local(d)'
      BY <1>1, <1>2, FailLocal DEF Unmoved
    <2>2. \A p \in Path : Unfinished(p)'
      BY <1>1, <1>2, UnfinishedKept, FailEffect, Unpack DEF Early
    <2>3. QED
      BY <1>1, <1>2, <2>1, <2>2, OneStep, FailEffect, Unpack
  <1>3. CASE GoTo(d, "idle") /\ UNCHANGED <<disk, row>>
    <2>1. /\ worker'[d].pc = "idle" /\ worker'[d].dir = worker[d].dir
          /\ \A e \in Download : e # d => worker'[e] = worker[e]
          /\ row' = row /\ disk' = disk
      BY <1>3, Unpack, GoToEffect
    <2>2. Local(d)'
      BY <1>1, <2>1, Unpack
      DEF Local, Pointers, Claimed, Files, Unmoved, Passed, OwnNames, StagingDir, Busy
    <2>3. \A p \in Path : Unfinished(p)'
      BY <1>1, <2>1, UnfinishedKept DEF Early
    <2>4. QED
      BY <1>1, <2>1, <2>2, <2>3, OneStep
  <1>4. CASE disk' = Written(d) /\ GoTo(d, "stat") /\ UNCHANGED row
    <2>1. /\ worker'[d].pc = "stat" /\ worker'[d].dir = worker[d].dir
          /\ \A e \in Download : e # d => worker'[e] = worker[e]
          /\ row' = row
      BY <1>4, Unpack, GoToEffect
    <2>2. Local(d)'
      BY <1>1, <2>1, Unpack
      DEF Local, Pointers, Claimed, Files, Unmoved, Passed, OwnNames, StagingDir, Busy
    <2>3. \A p \in Path : Unfinished(p)'
      <3> SUFFICES ASSUME NEW p \in Path PROVE Unfinished(p)'
        OBVIOUS
      <3>1. CASE disk'[p].mp4 = "whole"
        BY <3>1 DEF Unfinished
      <3>2. CASE disk'[p] = disk[p]
        <4>1. Unfinished(p) /\ (disk[p].mp4 = "partial" => disk[p].by # d)
          BY <1>4, <3>2, WrittenFiles, Unpack
        <4>2. \A e \in Download : StagingDir(e)' = StagingDir(e)
          BY DEF StagingDir
        <4>3. QED
          BY <2>1, <3>2, <4>1, <4>2 DEF Unfinished, Staged
      <3>3. QED
        BY <1>4, <3>1, <3>2, WrittenFiles
    <2>4. \A p \in Path : p[2] \notin OwnNames(d) => disk'[p] = disk[p]
      BY <1>4, WrittenFiles, StagedPlaces DEF OwnNames
    <2>5. QED
      BY <1>1, <2>1, <2>2, <2>3, <2>4, OneStep
  <1>5. QED
    BY <1>2, <1>3, <1>4 DEF EndFFmpeg

LEMMA GateInv ==
  ASSUME NamesApart, IInv, NEW d \in Download, Gate(d), TypeOK'
  PROVE  IInv'
  <1>1. /\ gone' = gone /\ sameFS' = sameFS /\ worker[d].pc = "stat"
        /\ worker[d].dir = StagingDir(d)
        /\ disk \in [Path -> Dir] /\ StagingDir(d) \in Path
    BY Unpack, StagedPlaces DEF Gate, At, Pointers, Unmoved, TypeOK
  <1>2. CASE Fail(d) /\ \/ UNCHANGED disk
                         \/ disk' = [disk EXCEPT ![StagingDir(d)] = EmptyDir]
    <2>1. Local(d)'
      BY <1>1, <1>2, FailLocal DEF Unmoved
    <2>2. \A p \in Path : disk'[p] = disk[p] \/ (p = StagingDir(d) /\ disk'[p] = EmptyDir)
      BY <1>1, <1>2
    <2>3. \A p \in Path : Unfinished(p)'
      BY <1>2, <2>2, UnfinishedKept, FailEffect, Unpack DEF Early, EmptyDir
    <2>4. QED
      BY <1>1, <1>2, <2>1, <2>2, <2>3, OneStep, FailEffect, Unpack, StagedPlaces DEF OwnNames
  <1>3. CASE HasMp4(StagingDir(d)) /\ GoTo(d, "reconcile") /\ UNCHANGED <<disk, row>>
    <2>1. /\ worker'[d].pc = "reconcile" /\ worker'[d].dir = worker[d].dir
          /\ \A e \in Download : e # d => worker'[e] = worker[e]
          /\ row' = row /\ disk' = disk
      BY <1>3, Unpack, GoToEffect
    <2>2. disk[StagingDir(d)].mp4 = "whole"
      <3>1. Unfinished(StagingDir(d)) /\ Staged(StagingDir(d))
        BY <1>1, Unpack, StagedPlaces
      <3>2. \A e \in Download : StagingDir(e) = StagingDir(d) => e = d
        BY DEF NamesApart, OwnNames, StagingDir
      <3>3. QED
        BY <1>1, <1>3, <3>1, <3>2 DEF Unfinished, HasMp4
    <2>3. Local(d)'
      <3>1. Pointers(d)'
        BY <1>1, <2>1, Unpack, StagedPlaces
        DEF Pointers, Unmoved, Passed, OwnNames, StagingDir, Staged
      <3>2. Claimed(d)'
        BY <1>1, <2>1, Unpack DEF Claimed, Busy
      <3>3. Files(d)'
        BY <1>1, <2>1, <2>2, Unpack DEF Files, Staged
      <3>4. QED
        BY <3>1, <3>2, <3>3 DEF Local
    <2>4. \A p \in Path : Unfinished(p)'
      BY <1>1, <2>1, UnfinishedKept DEF Early
    <2>5. QED
      BY <1>1, <2>1, <2>3, <2>4, OneStep
  <1>4. QED
    BY <1>1, <1>2, <1>3 DEF Gate

LEMMA ReconcileInv ==
  ASSUME NamesApart, IInv, NEW d \in Download, Reconcile(d), TypeOK'
  PROVE  IInv'
  <1> DEFINE new == <<"incomplete", Actual[d]>>
  <1>1. /\ gone' = gone /\ sameFS' = sameFS /\ row' = row /\ worker[d].pc = "reconcile"
        /\ worker[d].dir = StagingDir(d)
        /\ disk \in [Path -> Dir] /\ StagingDir(d) \in Path /\ new \in Path
    BY Unpack, StagedPlaces DEF Reconcile, At, Pointers, Unmoved, TypeOK
  <1>2. /\ worker'[d].pc \in {"finalise", "relocate"} /\ worker'[d].dir = StagingDir(d)
        /\ \A e \in Download : e # d => worker'[e] = worker[e]
        /\ worker'[d].pc = "relocate" => Actual[d] # Requested[d]
    BY <1>1, Unpack, GoToEffect, StagedPlaces DEF Reconcile, TypeOK
  <1>3. \A p \in Path :
          disk'[p] = disk[p] \/ (p = new /\ disk'[p] = EmptyDir /\ Actual[d] # Requested[d])
    BY <1>1, StagedPlaces DEF Reconcile
  <1>4. disk'[StagingDir(d)] = disk[StagingDir(d)]
    BY <1>1, <1>3 DEF StagingDir
  <1>5. Local(d)'
    BY <1>1, <1>2, <1>4, Unpack, StagedPlaces
    DEF Local, Pointers, Claimed, Files, Unmoved, Passed, OwnNames, StagingDir, Busy
  <1>6. \A p \in Path : Unfinished(p)'
    BY <1>1, <1>2, <1>3, UnfinishedKept DEF Early, EmptyDir
  <1>7. QED
    BY <1>1, <1>2, <1>3, <1>5, <1>6, OneStep DEF OwnNames

LEMMA RelocateInv ==
  ASSUME NamesApart, IInv, NEW d \in Download, Relocate(d), TypeOK'
  PROVE  IInv'
  <1> DEFINE old == StagingDir(d)
             new == <<"incomplete", Actual[d]>>
             moved == HasMp4(old) /\ Exists(new) /\ ~HasMp4(new)
  <1>1. /\ gone' = gone /\ sameFS' = sameFS /\ row' = row /\ worker[d].pc = "relocate"
        /\ worker[d].dir = old /\ Actual[d] # Requested[d]
        /\ disk \in [Path -> Dir] /\ old \in Path /\ new \in Path
        /\ disk[old].mp4 \in {"no dir", "whole"}
    BY Unpack, StagedPlaces DEF Relocate, At, Pointers, Unmoved, Passed, Files, TypeOK
  <1>2. old # new /\ Staged(old) /\ Staged(new) /\ new[2] = Actual[d] /\ old[2] = Requested[d]
    BY <1>1, StagedPlaces DEF StagingDir, Staged
  <1>3. /\ worker'[d].pc = "finalise"
        /\ \A e \in Download : e # d => worker'[e] = worker[e]
        /\ \/ moved /\ worker'[d].dir = new
           \/ ~moved /\ worker'[d].dir = old
    <2>1. CASE moved /\ worker' = [worker EXCEPT ![d].pc = "finalise", ![d].dir = new]
      BY <2>1, Unpack DEF TypeOK
    <2>2. CASE ~moved /\ GoTo(d, "finalise")
      BY <1>1, <2>2, Unpack, GoToEffect
    <2>3. QED
      BY <1>1, <2>1, <2>2 DEF Relocate
  <1>4. \/ /\ moved /\ disk' = [disk EXCEPT ![new] = disk[old], ![old] = NoDir]
        \/ /\ ~moved
           /\ disk' = [disk EXCEPT ![new] =
                         IF worker[d].made /\ disk[new] = EmptyDir THEN NoDir ELSE @]
    BY <1>1 DEF Relocate
  <1>5. /\ \A p \in Path : p \notin {old, new} => disk'[p] = disk[p]
        /\ moved => disk'[new] = disk[old] /\ disk'[old] = NoDir
        /\ ~moved => disk'[new] \in {disk[new], NoDir} /\ disk'[old] = disk[old]
    BY <1>1, <1>2, <1>4
  <1>6. disk'[worker'[d].dir] = disk[old]
    BY <1>3, <1>5
  <1>7. Local(d)'
    <2>1. Pointers(d)'
      BY <1>1, <1>2, <1>3, Unpack DEF Pointers, Unmoved, Passed, OwnNames, StagingDir, Staged
    <2>2. Claimed(d)'
      BY <1>1, <1>3, Unpack DEF Claimed, Busy
    <2>3. Files(d)'
      BY <1>1, <1>3, <1>6, Unpack DEF Files, Claimed, Busy
    <2>4. QED
      BY <2>1, <2>2, <2>3 DEF Local
  <1>8. \A p \in Path : Unfinished(p)'
    <2>1. \A p \in {old, new} : disk'[p] = disk[p] \/ disk'[p].mp4 \in {"no dir", "whole"}
      BY <1>1, <1>5, EmptyDirs
    <2>2. \A p \in Path : disk'[p] = disk[p] \/ disk'[p].mp4 \notin {"partial", "copying"}
      BY <1>5, <2>1
    <2>3. QED
      BY <2>2, <1>1, <1>3, UnfinishedKept DEF Early
  <1>9. \A p \in Path : p[2] \notin OwnNames(d) => disk'[p] = disk[p]
    BY <1>2, <1>5 DEF OwnNames
  <1>10. QED
    BY <1>1, <1>3, <1>7, <1>8, <1>9, OneStep

LEMMA FinaliseInv ==
  ASSUME NamesApart, IInv, NEW d \in Download, Finalise(d), TypeOK'
  PROVE  IInv'
  <1> DEFINE from == worker[d].dir
             to == Finalised(from)
  <1>1. /\ gone' = gone /\ sameFS' = sameFS /\ row' = row /\ worker[d].pc = "finalise"
        /\ Staged(from) /\ from[2] \in OwnNames(d)
        /\ disk \in [Path -> Dir] /\ from \in Path
        /\ disk[from].mp4 \in {"no dir", "whole"}
    BY Unpack, PointerTypes DEF Finalise, At, Pointers, Passed, Files, TypeOK
  <1>2. to \in Path /\ to # from /\ ~Staged(to) /\ to[2] = from[2]
    BY <1>1, Places
  <1>3. \A e \in Download : e # d => worker'[e] = worker[e]
    BY Unpack, GoToEffect DEF Finalise, TypeOK
  <1>4. CASE /\ sameFS /\ Renamed(from, to)
             /\ disk' = [disk EXCEPT ![to] = disk[from], ![from] = NoDir]
             /\ worker' = [worker EXCEPT ![d].pc = "complete", ![d].dir = to]
    <2>1. worker'[d].pc = "complete" /\ worker'[d].dir = to
      BY <1>4, Unpack DEF TypeOK
    <2>2. /\ disk'[to] = disk[from] /\ disk'[from] = NoDir
          /\ \A p \in Path : p \notin {from, to} => disk'[p] = disk[p]
      BY <1>1, <1>2, <1>4
    <2>3. disk[from].mp4 = "whole"
      BY <1>1, <1>4 DEF Renamed, Exists
    <2>4. Local(d)'
      <3>1. Pointers(d)'
        BY <1>1, <1>2, <2>1, Unpack DEF Pointers, Unmoved, Passed, OwnNames, StagingDir
      <3>2. Claimed(d)'
        BY <1>1, <2>1, Unpack DEF Claimed, Busy
      <3>3. Files(d)'
        BY <1>1, <2>1, <2>2, <2>3, Unpack DEF Files, Claimed, Busy, Passed
      <3>4. QED
        BY <3>1, <3>2, <3>3 DEF Local
    <2>5. \A p \in Path : Unfinished(p)'
      <3>1. \A p \in {from, to} : disk'[p].mp4 \in {"no dir", "whole"}
        BY <2>2, <2>3, EmptyDirs
      <3>2. \A p \in Path : disk'[p] = disk[p] \/ disk'[p].mp4 \notin {"partial", "copying"}
        BY <2>2, <3>1
      <3>3. QED
        BY <3>2, <1>1, <1>3, UnfinishedKept DEF Early
    <2>6. QED
      BY <1>1, <1>2, <1>3, <2>2, <2>4, <2>5, OneStep
  <1>5. CASE GoTo(d, "complete") /\ UNCHANGED disk
    <2>1. worker'[d].pc = "complete" /\ worker'[d].dir = from /\ disk' = disk
      BY <1>5, Unpack, GoToEffect
    <2>2. Local(d)'
      BY <1>1, <2>1, Unpack
      DEF Local, Pointers, Claimed, Files, Unmoved, Passed, OwnNames, StagingDir, Busy, Staged
    <2>3. \A p \in Path : Unfinished(p)'
      BY <1>1, <1>3, <2>1, UnfinishedKept DEF Early
    <2>4. QED
      BY <1>1, <1>3, <2>1, <2>2, <2>3, OneStep
  <1>6. CASE /\ ~sameFS
             /\ GoTo(d, IF Exists(from) THEN "copy" ELSE "complete")
             /\ disk' = [disk EXCEPT ![to] = IF Exists(from) /\ ~Exists(to) THEN EmptyDir ELSE @]
    <2>1. worker'[d].pc \in {"copy", "complete"} /\ worker'[d].dir = from
      BY <1>6, Unpack, GoToEffect
    <2>2. /\ disk'[to] \in {disk[to], EmptyDir}
          /\ \A p \in Path : p # to => disk'[p] = disk[p]
      BY <1>1, <1>2, <1>6
    <2>3. Local(d)'
      <3>1. Pointers(d)'
        BY <1>1, <1>2, <1>6, <2>1, Unpack DEF Pointers, Unmoved, Passed, OwnNames, StagingDir, Staged
      <3>2. Claimed(d)'
        BY <1>1, <2>1, Unpack DEF Claimed, Busy
      <3>3. Files(d)'
        BY <1>1, <1>2, <2>1, <2>2, Unpack DEF Files, Claimed, Busy, Passed, Staged
      <3>4. QED
        BY <3>1, <3>2, <3>3 DEF Local
    <2>4. \A p \in Path : Unfinished(p)'
      <3>1. \A p \in Path : disk'[p] = disk[p] \/ disk'[p].mp4 \notin {"partial", "copying"}
        BY <2>2 DEF EmptyDir
      <3>2. QED
        BY <3>1, <1>1, <1>3, UnfinishedKept DEF Early
    <2>5. QED
      BY <1>1, <1>2, <1>3, <2>2, <2>3, <2>4, OneStep
  <1>7. QED
    BY <1>4, <1>5, <1>6 DEF Finalise

(* Where a copy goes from and to.                                          *)
LEMMA CopyPlaces ==
  ASSUME IInv, NEW d \in Download, worker[d].pc \in {"copy", "copying"}
  PROVE  /\ Staged(worker[d].dir) /\ worker[d].dir[2] \in OwnNames(d)
         /\ disk \in [Path -> Dir] /\ worker[d].dir \in Path
         /\ Finalised(worker[d].dir) \in Path /\ ~Staged(Finalised(worker[d].dir))
         /\ Finalised(worker[d].dir)[2] = worker[d].dir[2]
         /\ Finalised(worker[d].dir) # worker[d].dir
         /\ disk[worker[d].dir].mp4 \in {"no dir", "whole"}
         /\ ~sameFS /\ Busy(d)
  BY Unpack, PointerTypes, Places DEF Pointers, Passed, Files, TypeOK, Busy

LEMMA CopyFailsInv ==
  ASSUME NamesApart, IInv, NEW d \in Download, worker[d].pc \in {"copy", "copying"},
         CopyFails(d), gone' = gone, sameFS' = sameFS, row' = row, TypeOK'
  PROVE  IInv'
  <1> DEFINE from == worker[d].dir
             to == Finalised(from)
  <1>1. /\ worker'[d].pc = "complete" /\ worker'[d].dir = from
        /\ \A e \in Download : e # d => worker'[e] = worker[e]
    BY Unpack, GoToEffect DEF CopyFails
  <1>2. \A p \in Path :
          IF p \in {from, to} THEN disk'[p].mp4 = "no dir" ELSE disk'[p] = disk[p]
    BY CopyPlaces, EmptyDirs DEF CopyFails
  <1>3. Local(d)'
    BY <1>1, CopyPlaces, Unpack
    DEF Local, Pointers, Claimed, Files, Unmoved, Passed, OwnNames, StagingDir, Busy, Staged
  <1>4. \A p \in Path : disk'[p] = disk[p] \/ disk'[p].mp4 \notin {"partial", "copying"}
    BY <1>2
  <1>5. \A p \in Path : Unfinished(p)'
    BY <1>1, <1>4, UnfinishedKept DEF Early
  <1>6. QED
    BY <1>1, <1>2, <1>3, <1>5, CopyPlaces, OneStep

LEMMA CopyOpensInv ==
  ASSUME NamesApart, IInv, NEW d \in Download, CopyOpens(d), TypeOK'
  PROVE  IInv'
  <1> DEFINE from == worker[d].dir
             to == Finalised(from)
  <1>1. /\ gone' = gone /\ sameFS' = sameFS /\ row' = row /\ worker[d].pc = "copy"
    BY DEF CopyOpens, At
  <1>2. CASE CopyFails(d)
    BY <1>1, <1>2, CopyFailsInv
  <1>3. CASE /\ HasMp4(from)
             /\ disk' = [disk EXCEPT ![to] = [mp4 |-> "copying", by |-> disk[from].by]]
             /\ GoTo(d, "copying")
    <2>1. /\ worker'[d].pc = "copying" /\ worker'[d].dir = from
          /\ \A e \in Download : e # d => worker'[e] = worker[e]
      BY <1>3, Unpack, GoToEffect
    <2>2. /\ disk'[to].mp4 = "copying"
          /\ \A p \in Path : p # to => disk'[p] = disk[p]
      BY <1>1, <1>3, CopyPlaces
    <2>3. Local(d)'
      <3>1. Pointers(d)'
        BY <1>1, <2>1, CopyPlaces, Unpack
        DEF Pointers, Unmoved, Passed, OwnNames, StagingDir, Staged
      <3>2. Claimed(d)'
        BY <1>1, <2>1, Unpack DEF Claimed, Busy
      <3>3. Files(d)'
        BY <1>1, <2>1, <2>2, CopyPlaces, Unpack DEF Files, Claimed, Busy, Staged
      <3>4. QED
        BY <3>1, <3>2, <3>3 DEF Local
    <2>4. ASSUME NEW p \in Path PROVE Unfinished(p)'
      <3>1. CASE p = to
        BY <1>1, <2>2, <3>1, CopyPlaces DEF Unfinished, Staged
      <3>2. CASE p # to
        <4>1. disk'[p] = disk[p] /\ Unfinished(p)
          BY <2>2, <3>2, Unpack
        <4>2. \A e \in Download : StagingDir(e)' = StagingDir(e)
          BY DEF StagingDir
        <4>3. QED
          BY <1>1, <2>1, <4>1, <4>2 DEF Unfinished, Staged
      <3>3. QED
        BY <3>1, <3>2
    <2>5. QED
      BY <1>1, <2>1, <2>2, <2>3, <2>4, CopyPlaces, OneStep
  <1>4. QED
    BY <1>2, <1>3 DEF CopyOpens

LEMMA CopyEndsInv ==
  ASSUME NamesApart, IInv, NEW d \in Download, CopyEnds(d), TypeOK'
  PROVE  IInv'
  <1> DEFINE from == worker[d].dir
             to == Finalised(from)
  <1>1. /\ gone' = gone /\ sameFS' = sameFS /\ row' = row /\ worker[d].pc = "copying"
    BY DEF CopyEnds, At
  <1>2. CASE CopyFails(d)
    BY <1>1, <1>2, CopyFailsInv
  <1>3. CASE /\ HasMp4(from) /\ HasMp4(to)
             /\ disk' = [disk EXCEPT ![to].mp4 = Copied(from), ![from] = NoDir]
             /\ worker' = [worker EXCEPT ![d].pc = "complete", ![d].dir = to]
    <2>1. /\ worker'[d].pc = "complete" /\ worker'[d].dir = to
          /\ \A e \in Download : e # d => worker'[e] = worker[e]
      BY <1>3, Unpack DEF TypeOK
    <2>2. Copied(from) = "whole"
      BY <1>1, <1>3, CopyPlaces DEF Copied, HasMp4
    <2>3. disk[to] \in Dir /\ [disk[to] EXCEPT !.mp4 = "whole"].mp4 = "whole"
      BY <1>1, CopyPlaces DEF Dir
    <2>4. /\ disk'[to].mp4 = "whole" /\ disk'[from] = NoDir
          /\ \A p \in Path : p \notin {from, to} => disk'[p] = disk[p]
      BY <1>1, <1>3, <2>2, <2>3, CopyPlaces
    <2>5. Local(d)'
      <3>1. Pointers(d)'
        BY <1>1, <2>1, CopyPlaces, Unpack
        DEF Pointers, Unmoved, Passed, OwnNames, StagingDir
      <3>2. Claimed(d)'
        BY <1>1, <2>1, Unpack DEF Claimed, Busy
      <3>3. Files(d)'
        BY <1>1, <2>1, <2>4, Unpack DEF Files, Claimed, Busy, Passed
      <3>4. QED
        BY <3>1, <3>2, <3>3 DEF Local
    <2>6. \A p \in Path : disk'[p] = disk[p] \/ disk'[p].mp4 \notin {"partial", "copying"}
      BY <2>4, EmptyDirs
    <2>7. \A p \in Path : Unfinished(p)'
      BY <1>1, <2>1, <2>6, UnfinishedKept DEF Early
    <2>8. QED
      BY <1>1, <2>1, <2>4, <2>5, <2>7, CopyPlaces, OneStep
  <1>4. QED
    BY <1>2, <1>3 DEF CopyEnds

LEMMA CompleteInv ==
  ASSUME NamesApart, IInv, NEW d \in Download, Complete(d), TypeOK'
  PROVE  IInv'
  <1>1. /\ gone' = gone /\ sameFS' = sameFS /\ disk' = disk /\ worker[d].pc = "complete"
        /\ row'[d].status = "completed" /\ row'[d].dir = worker[d].dir
        /\ \A e \in Download : e # d => row'[e] = row[e]
    BY Unpack DEF Complete, At, TypeOK
  <1>2. /\ worker'[d].pc = "idle" /\ worker'[d].dir = worker[d].dir
        /\ \A e \in Download : e # d => worker'[e] = worker[e]
    BY Unpack, GoToEffect DEF Complete
  <1>3. Local(d)'
    BY <1>1, <1>2, Unpack
    DEF Local, Pointers, Claimed, Files, Unmoved, Passed, OwnNames, StagingDir, Busy, Staged
  <1>4. \A p \in Path : Unfinished(p)'
    BY <1>1, <1>2, UnfinishedKept DEF Early
  <1>5. QED
    BY <1>1, <1>2, <1>3, <1>4, OneStep

----------------------------------------------------------------------------
(* Everybody else's steps.                                                 *)

(* A step of a row, or of a cancel, that leaves the disk alone.            *)
LEMMA RowOnly ==
  ASSUME NamesApart, IInv, TypeOK', NEW d \in Download,
         disk' = disk, worker' = worker, sameFS' = sameFS,
         \A e \in Download : e # d => row'[e] = row[e] /\ (e \in gone' <=> e \in gone),
         Local(d)'
  PROVE  IInv'
  <1>1. \A p \in Path : Unfinished(p)'
    BY UnfinishedKept
  <1>2. QED
    BY <1>1, OneStep

LEMMA EnqueueInv ==
  ASSUME NamesApart, IInv, NEW d \in Download, Enqueue(d), TypeOK'
  PROVE  IInv'
  <1>1. /\ disk' = disk /\ worker' = worker /\ sameFS' = sameFS /\ worker[d].pc = "idle"
        /\ row'[d].status = "queued" /\ row'[d].dir = StagingDir(d) /\ d \notin gone'
        /\ \A e \in Download : e # d => row'[e] = row[e] /\ (e \in gone' <=> e \in gone)
    BY Unpack DEF Enqueue, TypeOK
  <1>2. Local(d)'
    <2>1. Pointers(d)'
      BY <1>1, Unpack, StagedPlaces DEF Pointers, Unmoved, Passed, OwnNames, StagingDir
    <2>2. Claimed(d)'
      BY <1>1, Unpack DEF Claimed, Busy
    <2>3. Files(d)'
      BY <1>1, Unpack DEF Files, Passed
    <2>4. QED
      BY <2>1, <2>2, <2>3 DEF Local
  <1>3. QED
    BY <1>1, <1>2, RowOnly

LEMMA CancelInv ==
  ASSUME NamesApart, IInv, NEW d \in Download, CancelStarts(d) \/ CancelDeletes(d), TypeOK'
  PROVE  IInv'
  <1>1. /\ disk' = disk /\ worker' = worker /\ sameFS' = sameFS /\ gone' = gone
        /\ \A e \in Download : e # d => row'[e] = row[e]
        /\ row'[d].dir = row[d].dir
        /\ \/ row'[d].status = row[d].status
           \/ row[d].status \in {"queued", "active"} /\ row'[d].status = "absent"
    BY Unpack DEF CancelStarts, CancelDeletes, TypeOK
  <1>2. Local(d)'
    <2>1. Pointers(d)'
      BY <1>1, Unpack DEF Pointers, OwnNames, StagingDir, Staged
    <2>2. Claimed(d)'
      BY <1>1, Unpack DEF Claimed, Busy
    <2>3. Files(d)'
      BY <1>1, Unpack DEF Files, Staged
    <2>4. QED
      BY <2>1, <2>2, <2>3 DEF Local
  <1>3. QED
    BY <1>1, <1>2, RowOnly

LEMMA DeleteHistoryInv ==
  ASSUME NamesApart, IInv, NEW d \in Download, DeleteHistory(d), TypeOK'
  PROVE  IInv'
  <1>1. /\ disk' = disk /\ worker' = worker /\ sameFS' = sameFS /\ gone' = gone
        /\ \A e \in Download : e # d => row'[e] = row[e]
        /\ row'[d].dir = row[d].dir /\ row'[d].status = "absent"
        /\ row[d].status \in {"completed", "failed"}
    BY Unpack DEF DeleteHistory, InHistory, TypeOK
  <1>2. Local(d)'
    <2>1. Pointers(d)'
      BY <1>1, Unpack DEF Pointers, OwnNames, StagingDir, Staged
    <2>2. Claimed(d)'
      BY <1>1, Unpack DEF Claimed, Busy
    <2>3. Files(d)'
      BY <1>1, Unpack DEF Files, Staged
    <2>4. QED
      BY <2>1, <2>2, <2>3 DEF Local
  <1>3. QED
    BY <1>1, <1>2, RowOnly

(* A cancel removes what is staged, the cleanup what holds no finished     *)
(* file, whosever it is.                                                   *)
LEMMA RemovesInv ==
  ASSUME IInv, TypeOK', sameFS' = sameFS, row' = row, worker' = worker, gone' = gone,
         \A p \in Path : \/ disk'[p] = disk[p]
                         \/ disk'[p] = NoDir /\ (Staged(p) \/ disk[p].mp4 # "whole")
  PROVE  IInv'
  <1>1. ASSUME NEW p \in Path
        PROVE  /\ Staged(p) => disk'[p].mp4 \in {disk[p].mp4, "no dir"}
               /\ ~Staged(p) => (disk'[p].mp4 = "whole" <=> disk[p].mp4 = "whole")
    BY EmptyDirs
  <1>2. ASSUME NEW d \in Download PROVE Local(d)'
    <2>1. Pointers(d)' /\ Claimed(d)'
      BY Unpack DEF Pointers, Claimed, OwnNames, StagingDir, Staged, Busy
    <2>2. worker[d].dir \in Path /\ row[d].dir \in Path
      BY Unpack, PointerTypes
    <2>3. Files(d)'
      BY <1>1, <2>2, Unpack DEF Files, Pointers, Staged
    <2>4. QED
      BY <2>1, <2>3 DEF Local
  <1>3. \A p \in Path : disk'[p] = disk[p] \/ disk'[p].mp4 \notin {"partial", "copying"}
    BY EmptyDirs
  <1>4. \A p \in Path : Unfinished(p)'
    BY <1>3, UnfinishedKept
  <1>5. QED
    BY <1>2, <1>4 DEF IInv

LEMMA CancelCleansInv ==
  ASSUME IInv, NEW d \in Download, CancelCleans(d), TypeOK'
  PROVE  IInv'
  BY Unpack, RemovesInv DEF CancelCleans, Cleanable, TypeOK

(* The cleanup never has a directory in hand that it saw a file in.        *)
LEMMA SeenEmptyKept == TypeOK /\ SeenEmpty /\ [Next]_vars => SeenEmpty'
  <1> SUFFICES ASSUME TypeOK, SeenEmpty, [Next]_vars PROVE SeenEmpty'
    OBVIOUS
  <1>1. CASE doomed' \subseteq doomed
    BY <1>1 DEF SeenEmpty
  <1>2. ASSUME NEW n \in Name, CleanupLooks(n) PROVE SeenEmpty'
    <2> DEFINE p == <<"final", n>>
               k == [dir |-> p, held |-> disk[p].mp4]
    <2>1. p \in Path /\ ~Staged(p) /\ disk[p].mp4 \in Held
      BY DEF TypeOK, Path, Dir, Staged
    <2>2. doomed' = {} \/ (doomed' = {k} /\ Stale(p))
      BY <1>2 DEF CleanupLooks
    <2>3. Stale(p) => disk[p].mp4 = "none"
      BY <2>1 DEF Stale, Exists, HasMp4, Held
    <2>4. k.dir = p /\ k.held = disk[p].mp4
      OBVIOUS
    <2>5. QED
      BY <2>1, <2>2, <2>3, <2>4 DEF SeenEmpty, Staged
  <1>3. QED
    BY <1>1, <1>2
    DEF Next, vars, Enqueue, Work, Claim, MakeDir, StartFFmpeg, EndFFmpeg, Gate, Reconcile,
        Relocate, Finalise, CopyOpens, CopyEnds, Complete, CancelStarts, CancelCleans,
        CancelDeletes, DeleteHistory, Import, DeleteDirectory, CleanupLists, CleanupRemoves,
        CleanupEnds, Crash

LEMMA CleanupRemovesInv ==
  ASSUME NamesApart, IInv, SeenEmpty, CleanupRemoves, TypeOK'
  PROVE  IInv'
  <1>1. PICK k \in doomed : /\ disk' = [disk EXCEPT ![k.dir] = NoDir]
                            /\ gone' = gone \cup DoneAt(k.dir)
    BY DEF CleanupRemoves, SeenEmpty
  <1>2. /\ sameFS' = sameFS /\ row' = row /\ worker' = worker
        /\ disk \in [Path -> Dir] /\ k.dir \in Path /\ ~Staged(k.dir)
    BY Unpack DEF CleanupRemoves, SeenEmpty, TypeOK
  <1>3. /\ disk'[k.dir].mp4 = "no dir"
        /\ \A p \in Path : p # k.dir => disk'[p] = disk[p]
    BY <1>1, <1>2, EmptyDirs
  <1>4. ASSUME NEW d \in Download PROVE Local(d)'
    <2>1. worker[d].dir \in Path /\ row[d].dir \in Path
      BY Unpack, PointerTypes
    <2>2. Pointers(d)'
      BY <1>2, Unpack DEF Pointers, OwnNames, StagingDir, Staged
    <2>3. Claimed(d)'
      <3>1. d \in DoneAt(k.dir) =>
              /\ worker[d].pc \in {"idle", "complete"} /\ row[d].status # "queued"
        BY <1>2, StagedPlaces, Unpack DEF DoneAt, Claimed, Busy, Pointers
      <3>2. QED
        BY <1>1, <1>2, <3>1, Unpack DEF Claimed, Busy
    <2>4. Files(d) /\ (worker[d].pc \in Passed => Staged(worker[d].dir))
      BY Unpack DEF Pointers
    <2>5. worker[d].pc \in Passed => disk'[worker[d].dir] = disk[worker[d].dir]
      BY <1>2, <1>3, <2>1, <2>4
    <2>6. ASSUME NEW q \in Path,
                 \/ row[d].status = "completed" /\ row[d].dir = q
                 \/ worker[d].pc = "complete" /\ worker[d].dir = q,
                 disk[q].mp4 = "whole" <=> d \notin gone
          PROVE  disk'[q].mp4 = "whole" <=> d \notin gone'
      <3>1. CASE q = k.dir
        BY <1>1, <1>3, <2>6, <3>1 DEF DoneAt
      <3>2. CASE q # k.dir
        <4>1. d \notin DoneAt(k.dir) \/ d \in gone
          BY <1>2, <2>6, <3>2, Unpack DEF DoneAt, Claimed, Busy, Pointers, Files
        <4>2. QED
          BY <1>1, <1>3, <2>6, <3>2, <4>1
      <3>3. QED
        BY <3>1, <3>2
    <2>7. Files(d)'
      BY <1>2, <2>1, <2>4, <2>5, <2>6 DEF Files
    <2>8. QED
      BY <2>2, <2>3, <2>7 DEF Local
  <1>5. \A p \in Path : disk'[p] = disk[p] \/ disk'[p].mp4 \notin {"partial", "copying"}
    BY <1>3
  <1>6. \A p \in Path : Unfinished(p)'
    BY <1>2, <1>5, UnfinishedKept
  <1>7. QED
    BY <1>4, <1>6 DEF IInv

(* Sonarr, or the user, takes the file of a completed download.            *)
LEMMA TakenInv ==
  ASSUME NamesApart, IInv, TypeOK', NEW d \in Download, row[d].status = "completed",
         sameFS' = sameFS, row' = row, worker' = worker,
         NEW x \in {NoDir, EmptyDir}, disk' = [disk EXCEPT ![row[d].dir] = x],
         gone' = gone \cup {e \in Download : row[e].dir = row[d].dir}
  PROVE  IInv'
  <1>1. /\ disk \in [Path -> Dir] /\ row[d].dir \in Path /\ row[d].dir[2] \in OwnNames(d)
        /\ worker[d].pc = "idle"
    BY Unpack, PointerTypes DEF TypeOK, Pointers, Claimed, Busy
  <1>2. /\ disk'[row[d].dir].mp4 \in {"no dir", "none"}
        /\ \A p \in Path : p # row[d].dir => disk'[p] = disk[p]
    BY <1>1, EmptyDirs
  <1>3. d \in gone' /\ \A e \in Download : e # d => (e \in gone' <=> e \in gone)
    BY <1>1, Unpack DEF NamesApart, Pointers
  <1>4. Local(d)'
    BY <1>1, <1>2, <1>3, Unpack
    DEF Local, Pointers, Claimed, Files, Unmoved, Passed, OwnNames, StagingDir, Busy, Staged
  <1>5. \A p \in Path : disk'[p] = disk[p] \/ disk'[p].mp4 \notin {"partial", "copying"}
    BY <1>2
  <1>6. \A p \in Path : Unfinished(p)'
    BY <1>5, UnfinishedKept
  <1>7. QED
    BY <1>1, <1>2, <1>3, <1>4, <1>6, OneStep

LEMMA ImportInv ==
  ASSUME NamesApart, IInv, NEW d \in Download, Import(d), TypeOK'
  PROVE  IInv'
  BY TakenInv DEF Import

(* Only a completed row points into the download directory.                *)
LEMMA InFinal ==
  ASSUME IInv, NEW p \in HistoryDirs, ~Staged(p)
  PROVE  \E d \in Download : row[d].status = "completed" /\ row[d].dir = p
  BY Unpack, StagedPlaces DEF HistoryDirs, InHistory, Pointers

LEMMA DeleteDirectoryInv ==
  ASSUME NamesApart, IInv, NEW n \in Name, DeleteDirectory(n), TypeOK'
  PROVE  IInv'
  <1>1. PICK d \in Download : row[d].status = "completed" /\ row[d].dir = <<"final", n>>
    BY InFinal DEF DeleteDirectory, Staged
  <1>2. QED
    BY <1>1, TakenInv DEF DeleteDirectory

LEMMA CrashInv ==
  ASSUME IInv, Crash, TypeOK'
  PROVE  IInv'
  <1>1. /\ disk' = disk /\ sameFS' = sameFS /\ row' = row /\ gone' = gone
        /\ \A d \in Download : worker'[d].pc = "idle" /\ worker'[d].dir = worker[d].dir
    BY Unpack DEF Crash, TypeOK
  <1>2. ASSUME NEW d \in Download PROVE Local(d)'
    BY <1>1, Unpack
    DEF Local, Pointers, Claimed, Files, Unmoved, Passed, OwnNames, StagingDir, Busy, Staged
  <1>3. \A p \in Path : Unfinished(p)'
    BY <1>1, UnfinishedKept DEF Early
  <1>4. QED
    BY <1>2, <1>3 DEF IInv

LEMMA CleanupInv ==
  ASSUME IInv, TypeOK',
         \/ CleanupLists \/ CleanupEnds \/ UNCHANGED vars
         \/ \E n \in Name : CleanupLooks(n)
  PROVE  IInv'
  BY RemovesInv DEF CleanupLists, CleanupLooks, CleanupEnds, vars

LEMMA NextInv == NamesApart /\ IInv /\ SeenEmpty /\ [Next]_vars => IInv'
  <1> SUFFICES ASSUME NamesApart, IInv, SeenEmpty, [Next]_vars PROVE IInv'
    OBVIOUS
  <1>1. TypeOK'
    BY Unpack, NextTyped
  <1>2. ASSUME NEW d \in Download, Work(d) PROVE IInv'
    BY <1>1, <1>2, ClaimInv, MakeDirInv, StartFFmpegInv, EndFFmpegInv, GateInv, ReconcileInv,
       RelocateInv, FinaliseInv, CopyOpensInv, CopyEndsInv, CompleteInv DEF Work
  <1>3. ASSUME NEW d \in Download,
               \/ Enqueue(d) \/ CancelStarts(d) \/ CancelCleans(d) \/ CancelDeletes(d)
               \/ DeleteHistory(d) \/ Import(d)
        PROVE  IInv'
    BY <1>1, <1>3, EnqueueInv, CancelInv, CancelCleansInv, DeleteHistoryInv, ImportInv
  <1>4. ASSUME NEW n \in Name, DeleteDirectory(n) \/ CleanupLooks(n) PROVE IInv'
    BY <1>1, <1>4, DeleteDirectoryInv, CleanupInv
  <1>5. CASE CleanupLists \/ CleanupRemoves \/ CleanupEnds \/ Crash \/ UNCHANGED vars
    BY <1>1, <1>5, CleanupInv, CleanupRemovesInv, CrashInv
  <1>6. QED
    BY <1>2, <1>3, <1>4, <1>5 DEF Next

----------------------------------------------------------------------------
(* What the download directory shows.                                      *)

LEMMA IInvAlways == NamesApart /\ Spec => [](IInv /\ SeenEmpty)
  <1>1. NamesApart => [](NamesApart)
    BY DEF NamesApart, OwnNames
  <1>2. Init => SeenEmpty
    BY DEF Init, SeenEmpty
  <1>3. IInv /\ SeenEmpty /\ [Next]_vars => SeenEmpty'
    BY SeenEmptyKept DEF IInv
  <1>4. QED
    BY <1>1, <1>2, <1>3, InitInv, NextInv, PTL DEF Spec

(* No file ffmpeg is still writing, or gave up on, is in the download      *)
(* directory: it is staged under incomplete/ until the gate is passed.     *)
THEOREM OnlyDoneIsVisible == NamesApart /\ Spec => []NothingPartialVisible
  <1>1. IInv => NothingPartialVisible
    BY DEF IInv, Unfinished, NothingPartialVisible, StagingDir, Path
  <1>2. QED
    BY <1>1, IInvAlways, PTL

(* A completed entry that points into the download directory points at the *)
(* whole file, until somebody takes it.                                    *)
THEOREM CompletedPathIsTrue == NamesApart /\ Spec => []CompletedIsWhole
  <1>1. IInv => CompletedIsWhole
    BY DEF IInv, Local, Files, CompletedIsWhole
  <1>2. QED
    BY <1>1, IInvAlways, PTL

(* What a worker does to the download directory while it is on the         *)
(* filesystem of incomplete/: it moves a directory to a name that is free. *)
LEMMA WorkerSpares ==
  ASSUME NamesApart, IInv, sameFS, NEW d \in Download, Work(d), NEW p \in Path, ~Staged(p),
         Exists(p)
  PROVE  disk'[p] = disk[p]
  <1>1. /\ disk \in [Path -> Dir] /\ worker[d].dir \in Path /\ StagingDir(d) \in Path
        /\ Staged(StagingDir(d)) /\ Staged(<<"incomplete", Actual[d]>>)
    BY Unpack, PointerTypes, StagedPlaces DEF TypeOK, Staged
  <1>2. CASE disk' = disk
    BY <1>2
  <1>3. CASE MakeDir(d) \/ StartFFmpeg(d) \/ Gate(d)
    <2>1. worker[d].dir = StagingDir(d)
      BY <1>3, Unpack DEF MakeDir, StartFFmpeg, Gate, At, Pointers, Unmoved
    <2>2. QED
      BY <1>1, <1>3, <2>1 DEF MakeDir, StartFFmpeg, Gate
  <1>4. CASE EndFFmpeg(d)
    BY <1>1, <1>2, <1>4, WrittenFiles DEF EndFFmpeg
  <1>5. CASE Reconcile(d)
    BY <1>1, <1>5 DEF Reconcile
  <1>6. CASE Relocate(d)
    <2>1. Staged(worker[d].dir)
      BY <1>6, Unpack DEF Relocate, At, Pointers, Passed
    <2>2. QED
      BY <1>1, <1>6, <2>1 DEF Relocate
  <1>7. CASE Finalise(d)
    <2>1. Staged(worker[d].dir)
      BY <1>7, Unpack DEF Finalise, At, Pointers, Passed
    <2>2. QED
      BY <1>1, <1>7, <2>1 DEF Finalise, Renamed
  <1>8. CASE CopyOpens(d) \/ CopyEnds(d)
    BY <1>8, Unpack DEF CopyOpens, CopyEnds, At, Pointers
  <1>9. QED
    BY <1>2, <1>3, <1>4, <1>5, <1>6, <1>7, <1>8 DEF Work, Claim, Complete

(* Taking a file that is there shows: it was not counted as gone before.   *)
LEMMA TakingShows ==
  ASSUME IInv, NEW d \in Download, row[d].status = "completed", ~Staged(row[d].dir),
         disk[row[d].dir].mp4 = "whole"
  PROVE  gone \cup {e \in Download : row[e].dir = row[d].dir} # gone
  BY Unpack DEF Files

LEMMA StepKeepsFinished ==
  ASSUME NamesApart, IInv, SeenEmpty, Next, sameFS, NEW n \in Name
  PROVE  ~FinishedFileLost(n)
  <1> DEFINE p == <<"final", n>>
  <1> SUFFICES ASSUME disk[p].mp4 = "whole", gone' = gone,
                      [dir |-> p, held |-> "none"] \notin doomed \ doomed'
               PROVE  disk'[p].mp4 = "whole"
    BY DEF FinishedFileLost
  <1>1. p \in Path /\ ~Staged(p) /\ Exists(p) /\ disk \in [Path -> Dir]
    BY Unpack DEF Path, Staged, Exists, TypeOK
  <1>2. CASE disk' = disk
    BY <1>2
  <1>3. ASSUME NEW d \in Download, Work(d) PROVE disk'[p].mp4 = "whole"
    BY <1>1, <1>3, WorkerSpares
  <1>4. ASSUME NEW d \in Download, CancelCleans(d) PROVE disk'[p].mp4 = "whole"
    BY <1>1, <1>4 DEF CancelCleans, Cleanable
  <1>5. ASSUME NEW d \in Download, Import(d) PROVE disk'[p].mp4 = "whole"
    BY <1>1, <1>5, TakingShows DEF Import
  <1>6. ASSUME NEW m \in Name, DeleteDirectory(m) PROVE disk'[p].mp4 = "whole"
    <2>1. CASE m = n
      <3>1. PICK d \in Download : row[d].status = "completed" /\ row[d].dir = p
        BY <1>1, <1>6, <2>1, InFinal DEF DeleteDirectory
      <3>2. QED
        BY <1>1, <1>6, <2>1, <3>1, TakingShows DEF DeleteDirectory
    <2>2. CASE m # n
      BY <1>1, <1>6, <2>2 DEF DeleteDirectory
    <2>3. QED
      BY <2>1, <2>2
  <1>7. CASE CleanupRemoves
    <2>1. PICK k \in doomed : disk' = [disk EXCEPT ![k.dir] = NoDir] /\ doomed' = {}
      BY <1>7 DEF CleanupRemoves
    <2>2. k = [dir |-> k.dir, held |-> "none"]
      BY Unpack DEF SeenEmpty, TypeOK
    <2>3. k.dir # p
      BY <2>1, <2>2
    <2>4. QED
      BY <1>1, <2>1, <2>3
  <1>8. QED
    BY <1>2, <1>3, <1>4, <1>5, <1>6, <1>7
    DEF Next, Enqueue, CancelStarts, CancelDeletes, DeleteHistory, CleanupLists, CleanupLooks,
        CleanupEnds, Crash

(* While incomplete/ and the download directory share a filesystem, only   *)
(* Sonarr or the user ever remove a finished file, unless it came to a     *)
(* directory between the cleanup's look, when it was empty, and its        *)
(* removal.                                                                *)
THEOREM FinishedFilesStay == NamesApart /\ Spec => FinishedFilesStayOnRename
  <1>1. NamesApart => [](NamesApart)
    BY DEF NamesApart, OwnNames
  <1>2. NamesApart /\ IInv /\ SeenEmpty /\ [Next]_vars
          => [sameFS => \A n \in Name : ~FinishedFileLost(n)]_vars
    BY StepKeepsFinished
  <1>3. QED
    BY <1>1, <1>2, IInvAlways, PTL DEF Spec, FinishedFilesStayOnRename
=============================================================================
