----------------------------- MODULE BuildTree -----------------------------
(***************************************************************************)
(* The build directory of one job and the APK that comes out of it:        *)
(*   service/app.py        build_work, get_apk, build_files                *)
(*   build/pipeline.py     run_build                                       *)
(*   build/scaffold.py     ensure_android_scaffold                         *)
(*   build/signing.py      unsign_release, inspect_signature               *)
(*   service/artifacts.py  keep_only_the_artifact, sweep_expired           *)
(* An attempt is a worker's turn with the job: a build thread that touches *)
(* the directory, and a main loop that publishes the job object.  A worker *)
(* may crash, or lose its lease while its thread runs on: every attempt    *)
(* uses the same directory.                                                *)
(***************************************************************************)
EXTENDS Naturals

CONSTANTS
  MaxAttempts,  \* BuildWorker.max_attempts
  Crashes,      \* bound: worker processes that die
  Losses,       \* bound: leases lost by a live worker
  Ages          \* bound: times the directory outlives the retention

ASSUME BoundsAssumption ==
  MaxAttempts \in Nat /\ Crashes \in Nat /\ Losses \in Nat /\ Ages \in Nat

VARIABLES
  kind,    \* "paid" or "preview": BuildJob.paid, BuildJob.preview
  dir,     \* the directory: what is in it that matters here
  thread,  \* build thread of each attempt
  copy,    \* the BuildJob object of each attempt's worker
  rec,     \* the record in the store
  holder,  \* the attempt whose main loop holds the lease, 0 if none
  final,   \* history: the attempt whose result was saved under its lease
  swept,   \* history: the retention has removed the directory
  left     \* faults still allowed

vars == <<kind, dir, thread, copy, rec, holder, final, swept, left>>

Attempts == 1 .. MaxAttempts
Modes    == {"debug", "release"}   \* BUILD_MODES
NoApk    == "none"
Apks     == {NoApk, "debug-signed", "signed", "unsigned"}
ApkByMode(mode, signed) == IF mode = "debug" THEN "debug-signed" ELSE mode
ApkOf(mode, signed) ==
  IF mode = "debug" THEN "debug-signed"
  ELSE IF signed THEN "signed" ELSE "unsigned"

\* apk_path: nowhere, where Gradle leaves it, or beside the pruned tree.
Path(at, mode) == [at |-> at, mode |-> mode]
Nowhere == Path("nowhere", "debug")
Paths   == [at : {"nowhere", "inner", "top"}, mode : Modes]

NoFiles == [m \in Modes |-> NoApk]
NoDir   == [there |-> FALSE, old |-> FALSE, src |-> FALSE, android |-> "none",
            gradle |-> "none", inner |-> NoFiles, top |-> NoFiles]
Dirs    == [there : BOOLEAN, old : BOOLEAN, src : BOOLEAN,
            android : {"none", "partial", "whole"},
            gradle : {"none", "signs", "patched"},
            inner : [Modes -> Apks], top : [Modes -> Apks]]

File(p) == IF p.at = "inner" THEN dir.inner[p.mode]
           ELSE IF p.at = "top" THEN dir.top[p.mode] ELSE NoApk
Exists(p) == File(p) # NoApk

Jobs   == [status : {"queued", "running", "succeeded", "failed"}, apk : Paths]
NoTurn == [pc |-> "off", mode |-> "debug", signs |-> FALSE, apk |-> Nowhere]
PCs    == {"off", "mkdir", "generate", "package", "create", "copy", "copyfile",
           "copyend", "unsign", "gradle", "output", "artifact", "inspect",
           "decide", "prune", "unlink", "move", "delete", "sweep", "over"}
Threads == [pc : PCs, mode : Modes, signs : BOOLEAN, apk : Paths]

Building == PCs \ {"off", "over"}
Live(a)  == thread[a].pc \in Building
Terminal(job) == job.status \in {"succeeded", "failed"}

Init ==
  /\ kind \in {"paid", "preview"}
  /\ dir = NoDir
  /\ thread = [a \in Attempts |-> NoTurn]
  /\ copy = [a \in Attempts |-> [status |-> "queued", apk |-> Nowhere]]
  /\ rec = [status |-> "queued", apk |-> Nowhere]
  /\ holder = 0 /\ final = 0 /\ swept = FALSE
  /\ left = [crash |-> Crashes, lose |-> Losses, age |-> Ages]

-----------------------------------------------------------------------------
\* The worker's main loop.

loop == <<copy, rec, holder, final>>

\* A worker reserves the job, and its thread starts building.
Start(a) ==
  /\ holder = 0 /\ ~Terminal(rec) /\ thread[a].pc = "off" /\ copy[a].status = "queued"
  /\ \A b \in Attempts : b < a => copy[b].status # "queued"
  /\ copy' = [copy EXCEPT ![a] = [rec EXCEPT !.status = "running"]]
  /\ rec' = [rec EXCEPT !.status = "running"]
  /\ holder' = a
  /\ \E m \in Modes :
       thread' = [thread EXCEPT ![a] = [NoTurn EXCEPT !.pc = "mkdir", !.mode = m]]
  /\ UNCHANGED <<kind, dir, final, swept, left>>

\* The heartbeat saves the live object, whatever the thread has put there.
Heartbeat(a) ==
  /\ holder = a /\ Live(a)
  /\ rec' = copy[a]
  /\ UNCHANGED <<kind, dir, thread, copy, holder, final, swept, left>>

\* The thread is over and the lease still held: the result is saved.
SaveResult(a) ==
  /\ holder = a /\ thread[a].pc = "over"
  /\ rec' = copy[a] /\ holder' = 0 /\ final' = a
  /\ UNCHANGED <<kind, dir, thread, copy, swept, left>>

\* The job is requeued, by a worker that finds its lease gone.
Requeued == rec' = [rec EXCEPT !.status = "queued"] /\ holder' = 0

\* The lease lapses under a worker that lives: its thread runs on.
Lose(a) ==
  /\ holder = a /\ left.lose > 0
  /\ left' = [left EXCEPT !.lose = @ - 1]
  /\ Requeued
  /\ UNCHANGED <<kind, dir, thread, copy, final, swept>>

\* The process dies, with its thread, wherever that was.
Crash(a) ==
  /\ holder = a /\ left.crash > 0
  /\ left' = [left EXCEPT !.crash = @ - 1]
  /\ thread' = [thread EXCEPT ![a].pc = "off"]
  /\ Requeued
  /\ UNCHANGED <<kind, dir, copy, final, swept>>

\* The job was requeued once too often.
GiveUp ==
  /\ holder = 0 /\ rec.status = "queued"
  /\ \A a \in Attempts : copy[a].status # "queued"
  /\ rec' = [rec EXCEPT !.status = "failed"]
  /\ UNCHANGED <<kind, dir, thread, copy, holder, final, swept, left>>

-----------------------------------------------------------------------------
\* The build thread.

At(a, p) == thread[a].pc = p
To(a, p) == thread' = [thread EXCEPT ![a].pc = p]
Keep     == UNCHANGED <<kind, rec, holder, final, swept, left>>

\* An exception in the thread, or an outcome without an APK.
Fail(a) == /\ To(a, "over")
           /\ copy' = [copy EXCEPT ![a].status = "failed"]
           /\ UNCHANGED dir /\ Keep

\* run_build reports: what the graph's final state says of the APK.
Packaged(a, p) ==
  /\ thread' = [thread EXCEPT ![a].pc = "decide", ![a].apk = p]
  /\ UNCHANGED <<dir, copy>> /\ Keep

\* build_work puts the outcome on the job object.
Outcome(a, ok) ==
  LET p == thread[a].apk
      job == IF ~ok THEN [copy[a] EXCEPT !.status = "failed"]
             ELSE [status |-> "succeeded", apk |-> p]
  IN copy' = [copy EXCEPT ![a] =
       IF kind = "preview" /\ job.apk.at # "nowhere"
       THEN [status |-> "failed", apk |-> Nowhere] ELSE job]

Mkdir(a) ==
  /\ At(a, "mkdir")
  /\ dir' = IF dir.there THEN dir ELSE [NoDir EXCEPT !.there = TRUE]
  /\ To(a, "generate")
  /\ UNCHANGED copy /\ Keep

\* Generation, checks and repairs; what is written stays, clean or not.
Generate(a) ==
  /\ At(a, "generate")
  /\ dir' = [dir EXCEPT !.there = TRUE, !.src = TRUE,
                        !.old = @ /\ dir.src]
  /\ \/ To(a, "package") /\ UNCHANGED copy
     \/ Outcome(a, FALSE)
        /\ To(a, IF kind = "paid" THEN "prune" ELSE "sweep")
  /\ Keep

PackageGateOpen(a) == kind # "none"
PackageGate(a) == kind = "paid"

\* The payment gate comes first, then the toolchain.
Package(a) ==
  /\ At(a, "package")
  /\ \/ Packaged(a, Nowhere)    \* the gate is closed, or there is no Flutter
     \/ /\ PackageGate(a) /\ To(a, IF dir.android = "none" THEN "create"
                                   ELSE IF thread[a].mode = "release"
                                   THEN "unsign" ELSE "gradle")
        /\ UNCHANGED <<dir, copy>> /\ Keep

PackageFailed(a) ==
  /\ Outcome(a, FALSE) /\ To(a, "prune")
  /\ UNCHANGED dir /\ Keep

Create(a) ==
  /\ At(a, "create")
  /\ \/ PackageFailed(a)
     \/ To(a, "copy") /\ UNCHANGED <<dir, copy>> /\ Keep

\* rmtree of what another attempt has put there, then copytree, file by file.
Copy(a) ==
  /\ At(a, "copy")
  /\ dir' = [dir EXCEPT !.there = TRUE, !.old = FALSE,
                        !.android = "partial", !.gradle = "none"]
  /\ To(a, "copyfile")
  /\ UNCHANGED copy /\ Keep

CopyFile(a) ==
  /\ At(a, "copyfile")
  /\ IF dir.android = "none" THEN Fail(a)
     ELSE /\ dir' = [dir EXCEPT !.gradle = "signs"]
          /\ To(a, "copyend")
          /\ UNCHANGED copy /\ Keep

CopyEnd(a) ==
  /\ At(a, "copyend")
  /\ IF dir.android = "none" THEN Fail(a)
     ELSE /\ dir' = [dir EXCEPT !.android = "whole"]
          /\ To(a, IF thread[a].mode = "release" THEN "unsign" ELSE "gradle")
          /\ UNCHANGED copy /\ Keep

\* The pattern may not know the template's spelling of the signing config.
Patched == IF dir.gradle = "signs" THEN {"patched", "signs"} ELSE {dir.gradle}

Unsign(a) ==
  /\ At(a, "unsign")
  /\ \E g \in Patched : dir' = [dir EXCEPT !.gradle = g]
  /\ To(a, "gradle")
  /\ UNCHANGED copy /\ Keep

\* Gradle reads its configuration when it starts.
Gradle(a) ==
  /\ At(a, "gradle")
  /\ IF ~dir.there THEN Fail(a)
     ELSE /\ thread' = [thread EXCEPT ![a].pc = "output",
                                      ![a].signs = dir.gradle = "signs"]
          /\ UNCHANGED <<dir, copy>> /\ Keep

\* It fails, or leaves an APK, or says it succeeded and leaves none.
Output(a) ==
  /\ At(a, "output")
  /\ \/ PackageFailed(a)
     \/ /\ dir.gradle # "none"
        /\ \/ dir' = [dir EXCEPT !.inner[thread[a].mode] =
                        ApkOf(thread[a].mode, thread[a].signs),
                      !.old = @ /\ dir.inner # NoFiles]
           \/ UNCHANGED dir
        /\ To(a, "artifact")
        /\ UNCHANGED copy /\ Keep

\* _artifact: the APK of this mode under build/.
ArtifactFirst(a) ==
  Path("inner", IF dir.inner["debug"] # NoApk THEN "debug" ELSE "release")
ArtifactOf(a) == Path("inner", thread[a].mode)

Artifact(a) ==
  /\ At(a, "artifact")
  /\ IF ~Exists(ArtifactOf(a)) THEN PackageFailed(a)
     ELSE IF thread[a].mode = "debug" THEN Packaged(a, ArtifactOf(a))
     ELSE To(a, "inspect") /\ UNCHANGED <<dir, copy>> /\ Keep

\* What inspect_signature may find: without apksigner, never "unsigned".
Signature(p) == IF File(p) = "unsigned" THEN {"unsigned", "unknown"}
                ELSE IF File(p) = NoApk THEN {"unknown"} ELSE {"signed", "unknown"}

InspectLenient(a) ==
  /\ At(a, "inspect")
  /\ \E s \in Signature(ArtifactOf(a)) :
       IF s # "signed" THEN Packaged(a, ArtifactOf(a)) ELSE PackageFailed(a)
Inspect(a) ==
  /\ At(a, "inspect")
  /\ \E s \in Signature(ArtifactOf(a)) :
       IF s = "unsigned" THEN Packaged(a, ArtifactOf(a)) ELSE PackageFailed(a)

DecideAlike(a) ==
  /\ At(a, "decide")
  /\ Outcome(a, TRUE)
  /\ To(a, "prune")
  /\ UNCHANGED dir /\ Keep
Decide(a) ==
  /\ At(a, "decide")
  /\ Outcome(a, TRUE)
  /\ To(a, IF kind = "paid" THEN "prune" ELSE "sweep")
  /\ UNCHANGED dir /\ Keep

-----------------------------------------------------------------------------
\* keep_only_the_artifact and sweep_expired, at the end of build_work.

\* Is there a tree, and is the APK in it?  thread.apk becomes what is kept.
Prune(a) ==
  /\ At(a, "prune")
  /\ LET p == copy[a].apk IN
       thread' = [thread EXCEPT
         ![a].pc = IF ~dir.there THEN "sweep"
                   ELSE IF p.at = "inner" /\ Exists(p)
                   THEN IF dir.top[p.mode] # NoApk THEN "unlink" ELSE "move"
                   ELSE "delete",
         ![a].apk = IF p.at = "inner" /\ Exists(p) THEN Path("top", p.mode)
                    ELSE IF Exists(p) THEN p ELSE Nowhere]
  /\ UNCHANGED <<dir, copy>> /\ Keep

\* A stale artifact of the same name goes first.
Unlink(a) ==
  /\ At(a, "unlink")
  /\ IF dir.top[thread[a].apk.mode] = NoApk THEN Fail(a)
     ELSE /\ dir' = [dir EXCEPT !.top[thread[a].apk.mode] = NoApk]
          /\ To(a, "move")
          /\ UNCHANGED copy /\ Keep

Move(a) ==
  /\ At(a, "move")
  /\ LET m == thread[a].apk.mode IN
       IF dir.inner[m] = NoApk THEN Fail(a)
       ELSE /\ dir' = [dir EXCEPT !.top[m] = dir.inner[m], !.inner[m] = NoApk,
                                  !.old = FALSE]
            /\ To(a, "delete")
            /\ UNCHANGED copy /\ Keep

\* Everything goes but what is kept; only then does the job know its new path.
OnlyMoved(p) == [m \in Modes |-> IF p = Path("inner", m) THEN dir.top[m] ELSE NoApk]
OnlyKept(p) == [m \in Modes |-> IF p = Path("top", m) THEN dir.top[m] ELSE NoApk]

Delete(a) ==
  /\ At(a, "delete")
  /\ IF ~dir.there THEN Fail(a)
     ELSE /\ dir' = [NoDir EXCEPT !.there = TRUE, !.top = OnlyKept(thread[a].apk)]
          /\ copy' = [copy EXCEPT ![a].apk = thread[a].apk]
          /\ To(a, "sweep")
          /\ Keep

\* sweep_expired: removes any directory whose own mtime is too old.
Sweepable == dir.there /\ dir.old
Removed   == IF Sweepable THEN dir' = NoDir /\ swept' = TRUE
             ELSE UNCHANGED <<dir, swept>>

Sweep(a) ==
  /\ At(a, "sweep")
  /\ Removed
  /\ To(a, "over")
  /\ UNCHANGED <<kind, copy, rec, holder, final, left>>

\* The end of another job's build sweeps this job's directory too.
SweepByOther ==
  /\ Sweepable /\ Removed
  /\ UNCHANGED <<kind, thread, loop, left>>

\* The retention passes while nobody works on the job.
Age ==
  /\ left.age > 0 /\ dir.there /\ ~dir.old
  /\ holder = 0 /\ \A a \in Attempts : ~Live(a)
  /\ dir' = [dir EXCEPT !.old = TRUE]
  /\ left' = [left EXCEPT !.age = @ - 1]
  /\ UNCHANGED <<kind, thread, loop, swept>>

-----------------------------------------------------------------------------
Work(a) ==
  \/ Mkdir(a) \/ Generate(a) \/ Package(a) \/ Create(a) \/ Copy(a)
  \/ CopyFile(a) \/ CopyEnd(a) \/ Unsign(a) \/ Gradle(a) \/ Output(a)
  \/ Artifact(a) \/ Inspect(a) \/ Decide(a) \/ Prune(a) \/ Unlink(a)
  \/ Move(a) \/ Delete(a) \/ Sweep(a)

Next ==
  \/ \E a \in Attempts : \/ Start(a) \/ Heartbeat(a) \/ SaveResult(a)
                         \/ Lose(a) \/ Crash(a) \/ Work(a)
  \/ GiveUp \/ SweepByOther \/ Age

Spec == Init /\ [][Next]_vars

-----------------------------------------------------------------------------
\* Properties.

\* Types of the directory, the threads, the job objects and the record.
TypeOK ==
  /\ kind \in {"paid", "preview"}
  /\ dir \in Dirs
  /\ thread \in [Attempts -> Threads]
  /\ copy \in [Attempts -> Jobs] /\ rec \in Jobs
  /\ holder \in Attempts \cup {0} /\ final \in Attempts \cup {0}
  /\ swept \in BOOLEAN /\ left \in [crash : Nat, lose : Nat, age : Nat]

\* No step of any attempt makes an APK for a free preview: none on disk, none
\* on a job object, none on the record (app.py, build_work: "the gate is not
\* bypassed for previews, it is exercised").
PreviewFree ==
  kind = "preview" =>
    /\ dir.inner = NoFiles /\ dir.top = NoFiles
    /\ rec.apk = Nowhere
    /\ \A a \in Attempts : copy[a].apk = Nowhere /\ thread[a].apk = Nowhere

\* GET /builds/{id}/apk, and whether GET /builds/{id}/files has any source.
GetApk     == IF rec.status # "succeeded" THEN 409
              ELSE IF Exists(rec.apk) THEN 200 ELSE 404
BuildFiles == dir.there /\ dir.src

Delivered == final # 0 /\ rec.status = "succeeded"
LeaseKept == left.lose = Losses

\* The release APK that GET /builds/{id}/apk serves never carries the debug
\* key, although an attempt that died may have left the Android project half
\* copied or not yet patched, and an APK behind.  (It needs the lease: the APK
\* is inspected, and moved later; a zombie's Gradle may write in between.)
UnsignedRelease == Delivered /\ LeaseKept => File(rec.apk) # "signed"

\* The saved record of a build points beside the pruned tree, at an APK of the
\* mode its own attempt was configured for, never at what another left there.
OwnMode ==
  Delivered /\ rec.apk.at # "nowhere" =>
    /\ rec.apk.mode = thread[final].mode
    /\ rec.apk.at = "top" \/ swept

\* What the buyer paid for stays there until the retention removes it: crashes
\* in the middle of pruning, and the attempts after them, do not lose it.
ArtifactKept ==
  Delivered /\ rec.apk.at # "nowhere" /\ LeaseKept => GetApk = 200 \/ swept

\* The same with a lost lease, as build_work says of pruning (app.py:1247-1249).
ArtifactStays ==
  Delivered /\ rec.apk.at # "nowhere" => GetApk = 200 \/ swept

\* After a paid build nothing but the APK occupies the disk; after a preview
\* the source, its whole deliverable, is there.
Leftover ==
  Delivered /\ LeaseKept =>
    /\ kind = "paid" => ~dir.src /\ dir.android = "none" /\ dir.inner = NoFiles
    /\ kind = "preview" => BuildFiles \/ swept

\* A retry is measured from the retry (artifacts.py:107-109, of the directory's
\* mtime): no sweep takes the tree that an attempt is working in.
RetryMeasured == [][swept' # swept => \A a \in Attempts : ~Live(a)]_vars

\* BUILD_OUTPUT_SCHEMA says of apk_available "when true, GET /builds/{id}/apk
\* returns the APK": what a poll saw there is still there a step later, unless
\* the job was requeued or its directory swept.
Available(job) == job.apk.at # "nowhere" /\ Exists(job.apk)
AvailableServes ==
  [][Available(rec) /\ rec'.status # "queued" /\ swept' = swept => Available(rec)']_vars
=============================================================================
