-------------------------- MODULE BuildTreeProofs --------------------------
(***************************************************************************)
(* Theorems about BuildTree, for any number of attempts, crashes, lost     *)
(* leases and retentions that pass.                                        *)
(***************************************************************************)
EXTENDS BuildTree, TLAPS

-----------------------------------------------------------------------------
(* Types.                                                                  *)

LEMMA TypeInit == Init => TypeOK
<1> SUFFICES ASSUME Init PROVE TypeOK
  OBVIOUS
<1>1. dir \in Dirs /\ NoFiles \in [Modes -> Apks]
  BY DEF Init, Dirs, NoDir, NoFiles, Apks, NoApk
<1>2. Nowhere \in Paths
  BY DEF Nowhere, Path, Paths, Modes
<1>3. thread \in [Attempts -> Threads] /\ copy \in [Attempts -> Jobs] /\ rec \in Jobs
  BY <1>2 DEF Init, Threads, NoTurn, PCs, Modes, Jobs
<1>4. left \in [crash : Nat, lose : Nat, age : Nat]
  BY BoundsAssumption DEF Init
<1> QED
  BY <1>1, <1>3, <1>4 DEF Init, TypeOK

LEMMA FilesTyped ==
  /\ NoFiles \in [Modes -> Apks] /\ NoDir \in Dirs /\ Nowhere \in Paths
  /\ \A m \in Modes, s \in BOOLEAN : ApkOf(m, s) \in Apks
  /\ \A m \in Modes : Path("inner", m) \in Paths /\ Path("top", m) \in Paths
  /\ NoApk \in Apks
<1>1. NoFiles \in [Modes -> Apks] /\ NoApk \in Apks
  BY DEF NoFiles, Apks, NoApk
<1>2. NoDir \in Dirs
  BY <1>1 DEF Dirs, NoDir
<1>3. \A m \in Modes : Path("inner", m) \in Paths /\ Path("top", m) \in Paths
  BY DEF Path, Paths
<1>4. Nowhere \in Paths
  BY DEF Nowhere, Path, Paths, Modes
<1>5. \A m \in Modes, s \in BOOLEAN : ApkOf(m, s) \in Apks
  BY DEF ApkOf, Apks
<1> QED
  BY <1>1, <1>2, <1>3, <1>4, <1>5

\* A thread that goes on, a job object that gets its outcome.
LEMMA ToTyped ==
  ASSUME TypeOK, NEW a \in Attempts, NEW p \in PCs, To(a, p)
  PROVE  thread' \in [Attempts -> Threads]
<1>1. ASSUME NEW t \in Threads PROVE [t EXCEPT !.pc = p] \in Threads
  BY DEF Threads
<1> QED
  BY <1>1 DEF TypeOK, To

LEMMA OutcomeTyped ==
  ASSUME TypeOK, NEW a \in Attempts, NEW ok \in BOOLEAN, Outcome(a, ok)
  PROVE  copy' \in [Attempts -> Jobs]
<1>1. thread[a].apk \in Paths /\ copy[a] \in Jobs
  BY DEF TypeOK, Threads
<1>2. [copy[a] EXCEPT !.status = "failed"] \in Jobs
  BY <1>1 DEF Jobs
<1>3. [status |-> "succeeded", apk |-> thread[a].apk] \in Jobs
  BY <1>1 DEF Jobs
<1>4. [status |-> "failed", apk |-> Nowhere] \in Jobs
  BY FilesTyped DEF Jobs
<1>5. \E j \in Jobs : copy' = [copy EXCEPT ![a] = j]
  BY <1>2, <1>3, <1>4 DEF Outcome
<1> QED
  BY <1>5 DEF TypeOK

LEMMA FailTyped ==
  ASSUME TypeOK, NEW a \in Attempts, Fail(a) PROVE TypeOK'
<1>1. thread' \in [Attempts -> Threads]
  BY ToTyped DEF Fail, PCs
<1>2. ASSUME NEW j \in Jobs PROVE [j EXCEPT !.status = "failed"] \in Jobs
  BY DEF Jobs
<1>3. copy' \in [Attempts -> Jobs]
  BY <1>2 DEF Fail, TypeOK
<1> QED
  BY <1>1, <1>3 DEF Fail, Keep, TypeOK

LEMMA PackagedTyped ==
  ASSUME TypeOK, NEW a \in Attempts, NEW p \in Paths, Packaged(a, p) PROVE TypeOK'
<1>1. ASSUME NEW t \in Threads PROVE [t EXCEPT !.pc = "decide", !.apk = p] \in Threads
  BY DEF Threads, PCs
<1>2. thread' \in [Attempts -> Threads]
  BY <1>1 DEF Packaged, TypeOK
<1> QED
  BY <1>2 DEF Packaged, Keep, TypeOK

LEMMA PackageFailedTyped ==
  ASSUME TypeOK, NEW a \in Attempts, PackageFailed(a) PROVE TypeOK'
<1>1. thread' \in [Attempts -> Threads]
  BY ToTyped DEF PackageFailed, PCs
<1>2. copy' \in [Attempts -> Jobs]
  BY OutcomeTyped DEF PackageFailed
<1> QED
  BY <1>1, <1>2 DEF PackageFailed, Keep, TypeOK

\* A step of a thread that changes the directory and goes on.
LEMMA DirTyped ==
  ASSUME TypeOK, NEW a \in Attempts, NEW p \in PCs, To(a, p), dir' \in Dirs,
         UNCHANGED copy, Keep
  PROVE  TypeOK'
<1>1. thread' \in [Attempts -> Threads]
  BY ToTyped
<1> QED
  BY <1>1 DEF Keep, TypeOK

\* What may become of a directory.
LEMMA DirParts ==
  ASSUME NEW d \in Dirs, NEW m \in Modes, NEW k \in Apks, NEW b \in BOOLEAN
  PROVE  /\ [d EXCEPT !.there = TRUE, !.src = TRUE, !.old = b] \in Dirs
         /\ [d EXCEPT !.there = TRUE, !.old = FALSE, !.android = "partial",
                      !.gradle = "none"] \in Dirs
         /\ [d EXCEPT !.gradle = "signs"] \in Dirs
         /\ [d EXCEPT !.gradle = "patched"] \in Dirs
         /\ [d EXCEPT !.android = "whole"] \in Dirs
         /\ [d EXCEPT !.inner[m] = k, !.old = b] \in Dirs
         /\ [d EXCEPT !.top[m] = k] \in Dirs
         /\ [d EXCEPT !.top[m] = d.inner[m], !.inner[m] = NoApk, !.old = FALSE] \in Dirs
         /\ [d EXCEPT !.old = TRUE] \in Dirs
         /\ d.inner[m] \in Apks
<1>1. NoApk \in Apks
  BY FilesTyped
<1> QED
  BY <1>1 DEF Dirs

LEMMA StartTyped ==
  ASSUME TypeOK, NEW a \in Attempts, Start(a) PROVE TypeOK'
<1>1. [rec EXCEPT !.status = "running"] \in Jobs
  BY DEF TypeOK, Jobs
<1>2. ASSUME NEW m \in Modes PROVE [NoTurn EXCEPT !.pc = "mkdir", !.mode = m] \in Threads
  BY FilesTyped, <1>2 DEF NoTurn, Threads, PCs
<1>3. thread' \in [Attempts -> Threads]
  <2>1. PICK m \in Modes :
          thread' = [thread EXCEPT ![a] = [NoTurn EXCEPT !.pc = "mkdir", !.mode = m]]
    BY DEF Start
  <2> QED
    BY <2>1, <1>2 DEF TypeOK
<1>4. copy' \in [Attempts -> Jobs]
  BY <1>1 DEF Start, TypeOK
<1> QED
  BY <1>1, <1>3, <1>4 DEF Start, TypeOK

\* The worker's main loop.
LEMMA LoopTyped ==
  ASSUME TypeOK, NEW a \in Attempts,
         Start(a) \/ Heartbeat(a) \/ SaveResult(a) \/ Lose(a) \/ Crash(a)
  PROVE  TypeOK'
<1>1. ASSUME NEW j \in Jobs, NEW s \in {"queued", "failed"}
      PROVE  [j EXCEPT !.status = s] \in Jobs
  BY DEF Jobs
<1>2. CASE Start(a)
  BY <1>2, StartTyped
<1>3. CASE Heartbeat(a)
  BY <1>3 DEF Heartbeat, TypeOK
<1>4. CASE SaveResult(a)
  BY <1>4 DEF SaveResult, TypeOK
<1>5. CASE Lose(a)
  <2>1. left' \in [crash : Nat, lose : Nat, age : Nat]
    BY <1>5 DEF Lose, TypeOK
  <2> QED
    BY <1>1, <1>5, <2>1 DEF Lose, Requeued, TypeOK
<1>6. CASE Crash(a)
  <2>1. left' \in [crash : Nat, lose : Nat, age : Nat]
    BY <1>6 DEF Crash, TypeOK
  <2>2. ASSUME NEW t \in Threads PROVE [t EXCEPT !.pc = "off"] \in Threads
    BY DEF Threads, PCs
  <2>3. thread' \in [Attempts -> Threads]
    BY <1>6, <2>2 DEF Crash, TypeOK
  <2> QED
    BY <1>1, <1>6, <2>1, <2>3 DEF Crash, Requeued, TypeOK
<1> QED
  BY <1>2, <1>3, <1>4, <1>5, <1>6

\* The build thread up to the point where the outcome is known.
LEMMA BuildTyped ==
  ASSUME TypeOK, NEW a \in Attempts,
         \/ Mkdir(a) \/ Generate(a) \/ Package(a) \/ Create(a) \/ Copy(a)
         \/ CopyFile(a) \/ CopyEnd(a) \/ Unsign(a) \/ Gradle(a)
  PROVE  TypeOK'
<1>1. dir \in Dirs /\ thread[a] \in Threads /\ thread[a].mode \in Modes
  BY DEF TypeOK, Threads
<1>2. dir.there \in BOOLEAN /\ dir.old \in BOOLEAN /\ dir.src \in BOOLEAN
  BY <1>1 DEF Dirs
<1>3. \A m \in Modes, k \in Apks, b \in BOOLEAN :
        /\ [dir EXCEPT !.there = TRUE, !.src = TRUE, !.old = b] \in Dirs
        /\ [dir EXCEPT !.there = TRUE, !.old = FALSE, !.android = "partial",
                       !.gradle = "none"] \in Dirs
        /\ [dir EXCEPT !.gradle = "signs"] \in Dirs
        /\ [dir EXCEPT !.gradle = "patched"] \in Dirs
        /\ [dir EXCEPT !.android = "whole"] \in Dirs
  BY <1>1, DirParts
<1>4. "debug" \in Modes /\ NoApk \in Apks /\ TRUE \in BOOLEAN
  BY FilesTyped DEF Modes
<1>5. CASE Mkdir(a)
  <2>1. [NoDir EXCEPT !.there = TRUE] \in Dirs
    BY FilesTyped DEF Dirs
  <2>2. dir' \in Dirs
    BY <1>1, <1>5, <2>1 DEF Mkdir
  <2> QED
    BY <1>5, <2>2, DirTyped DEF Mkdir, PCs
<1>6. CASE Generate(a)
  <2>1. dir' \in Dirs
    <3> DEFINE b == dir.old /\ dir.src
    <3>1. b \in BOOLEAN
      BY <1>2
    <3>2. dir' = [dir EXCEPT !.there = TRUE, !.src = TRUE, !.old = b]
      BY <1>6 DEF Generate
    <3> HIDE DEF b
    <3> QED
      BY <1>3, <1>4, <3>1, <3>2
  <2>2. CASE To(a, "package") /\ UNCHANGED copy
    BY <1>6, <2>1, <2>2, DirTyped DEF Generate, PCs
  <2>3. CASE Outcome(a, FALSE) /\ To(a, IF kind = "paid" THEN "prune" ELSE "sweep")
    <3>1. copy' \in [Attempts -> Jobs]
      BY <2>3, OutcomeTyped
    <3>2. thread' \in [Attempts -> Threads]
      BY <2>3, ToTyped DEF PCs
    <3> QED
      BY <1>6, <2>1, <3>1, <3>2 DEF Generate, Keep, TypeOK
  <2> QED
    BY <1>6, <2>2, <2>3 DEF Generate
<1>7. CASE Package(a)
  <2>1. CASE Packaged(a, Nowhere)
    BY <2>1, PackagedTyped, FilesTyped
  <2>2. CASE ~Packaged(a, Nowhere)
    <3>1. PICK p \in {"create", "unsign", "gradle"} :
            To(a, p) /\ UNCHANGED <<dir, copy>> /\ Keep
      BY <1>7, <2>2 DEF Package
    <3> QED
      BY <1>1, <3>1, DirTyped DEF PCs
  <2> QED
    BY <2>1, <2>2
<1>8. CASE Create(a)
  <2>1. CASE PackageFailed(a)
    BY <2>1, PackageFailedTyped
  <2>2. CASE To(a, "copy") /\ UNCHANGED <<dir, copy>> /\ Keep
    BY <1>1, <2>2, DirTyped DEF PCs
  <2> QED
    BY <1>8, <2>1, <2>2 DEF Create
<1>9. CASE Copy(a)
  <2>1. dir' \in Dirs
    BY <1>3, <1>4, <1>9 DEF Copy
  <2> QED
    BY <1>9, <2>1, DirTyped DEF Copy, PCs
<1>10. CASE CopyFile(a)
  <2>1. CASE Fail(a)
    BY <2>1, FailTyped
  <2>2. CASE ~Fail(a)
    <3>1. dir' \in Dirs /\ To(a, "copyend") /\ UNCHANGED copy /\ Keep
      BY <1>3, <1>4, <1>10, <2>2 DEF CopyFile
    <3> QED
      BY <3>1, DirTyped DEF PCs
  <2> QED
    BY <2>1, <2>2
<1>11. CASE CopyEnd(a)
  <2>1. CASE Fail(a)
    BY <2>1, FailTyped
  <2>2. CASE ~Fail(a)
    <3>1. PICK p \in {"unsign", "gradle"} :
            dir' \in Dirs /\ To(a, p) /\ UNCHANGED copy /\ Keep
      BY <1>3, <1>4, <1>11, <2>2 DEF CopyEnd
    <3> QED
      BY <3>1, DirTyped DEF PCs
  <2> QED
    BY <2>1, <2>2
<1>12. CASE Unsign(a)
  <2>1. PICK g \in Patched : dir' = [dir EXCEPT !.gradle = g]
    BY <1>12 DEF Unsign
  <2>2. dir' \in Dirs
    BY <1>1, <2>1 DEF Patched, Dirs
  <2> QED
    BY <1>12, <2>2, DirTyped DEF Unsign, PCs
<1>13. CASE Gradle(a)
  <2>1. CASE Fail(a)
    BY <2>1, FailTyped
  <2>2. CASE ~Fail(a)
    <3>1. ASSUME NEW t \in Threads, NEW b \in BOOLEAN
          PROVE  [t EXCEPT !.pc = "output", !.signs = b] \in Threads
      BY DEF Threads, PCs
    <3>2. thread' \in [Attempts -> Threads]
      <4> DEFINE b == dir.gradle = "signs"
      <4>1. thread' = [thread EXCEPT ![a].pc = "output", ![a].signs = b]
        BY <1>13, <2>2 DEF Gradle
      <4>2. b \in BOOLEAN
        OBVIOUS
      <4> HIDE DEF b
      <4> QED
        BY <3>1, <4>1, <4>2 DEF TypeOK
    <3> QED
      BY <1>13, <2>2, <3>2 DEF Gradle, Keep, TypeOK
  <2> QED
    BY <2>1, <2>2
<1> QED
  BY <1>5, <1>6, <1>7, <1>8, <1>9, <1>10, <1>11, <1>12, <1>13

\* The rest of the build thread: the APK, the outcome, pruning and the sweep.
LEMMA EndTyped ==
  ASSUME TypeOK, NEW a \in Attempts,
         \/ Output(a) \/ Artifact(a) \/ Inspect(a) \/ Decide(a) \/ Prune(a)
         \/ Unlink(a) \/ Move(a) \/ Delete(a) \/ Sweep(a)
  PROVE  TypeOK'
<1>1. /\ dir \in Dirs /\ thread[a] \in Threads /\ copy[a] \in Jobs
      /\ thread[a].mode \in Modes /\ thread[a].signs \in BOOLEAN
      /\ thread[a].apk \in Paths /\ copy[a].apk \in Paths
  BY DEF TypeOK, Threads, Jobs
<1>2. thread[a].apk.mode \in Modes /\ copy[a].apk.mode \in Modes
  BY <1>1 DEF Paths
<1>3. ArtifactOf(a) \in Paths
  BY <1>1, FilesTyped DEF ArtifactOf
<1>4. CASE Output(a)
  <2>1. CASE PackageFailed(a)
    BY <2>1, PackageFailedTyped
  <2>2. CASE ~PackageFailed(a)
    <3> DEFINE m == thread[a].mode
               k == ApkOf(thread[a].mode, thread[a].signs)
               b == dir.old /\ dir.inner # NoFiles
    <3>1. m \in Modes /\ k \in Apks /\ b \in BOOLEAN
      BY <1>1, FilesTyped DEF Dirs
    <3>2. [dir EXCEPT !.inner[m] = k, !.old = b] \in Dirs
      BY <1>1, <3>1, DirParts
    <3>3. dir' = dir \/ dir' = [dir EXCEPT !.inner[m] = k, !.old = b]
      BY <1>4, <2>2 DEF Output
    <3>4. dir' \in Dirs
      BY <1>1, <3>2, <3>3
    <3> QED
      BY <1>4, <2>2, <3>4, DirTyped DEF Output, PCs
  <2> QED
    BY <2>1, <2>2
<1>5. CASE Artifact(a)
  <2>1. CASE PackageFailed(a)
    BY <2>1, PackageFailedTyped
  <2>2. CASE Packaged(a, ArtifactOf(a))
    BY <1>3, <2>2, PackagedTyped
  <2>3. CASE To(a, "inspect") /\ UNCHANGED <<dir, copy>> /\ Keep
    BY <1>1, <2>3, DirTyped DEF PCs
  <2> QED
    BY <1>5, <2>1, <2>2, <2>3 DEF Artifact
<1>6. CASE Inspect(a)
  <2>1. CASE PackageFailed(a)
    BY <2>1, PackageFailedTyped
  <2>2. CASE Packaged(a, ArtifactOf(a))
    BY <1>3, <2>2, PackagedTyped
  <2> QED
    BY <1>6, <2>1, <2>2 DEF Inspect
<1>7. CASE Decide(a)
  <2>1. copy' \in [Attempts -> Jobs]
    BY <1>7, OutcomeTyped DEF Decide
  <2>2. thread' \in [Attempts -> Threads]
    BY <1>7, ToTyped DEF Decide, PCs
  <2> QED
    BY <1>7, <2>1, <2>2 DEF Decide, Keep, TypeOK
<1>8. CASE Prune(a)
  <2>1. ASSUME NEW t \in Threads, NEW p \in PCs, NEW q \in Paths
        PROVE  [t EXCEPT !.pc = p, !.apk = q] \in Threads
    BY DEF Threads
  <2>2. PICK p \in {"sweep", "unlink", "move", "delete"},
             q \in {Path("top", copy[a].apk.mode), copy[a].apk, Nowhere} :
          thread' = [thread EXCEPT ![a].pc = p, ![a].apk = q]
    BY <1>8 DEF Prune
  <2>3. q \in Paths /\ p \in PCs
    BY <1>1, <1>2, FilesTyped DEF PCs
  <2>4. thread' \in [Attempts -> Threads]
    BY <2>1, <2>2, <2>3 DEF TypeOK
  <2> QED
    BY <1>8, <2>4 DEF Prune, Keep, TypeOK
<1>9. CASE Unlink(a)
  <2>1. CASE Fail(a)
    BY <2>1, FailTyped
  <2>2. CASE ~Fail(a)
    <3> DEFINE m == thread[a].apk.mode
    <3>1. dir' \in Dirs
      <4>1. dir' = [dir EXCEPT !.top[m] = NoApk] /\ m \in Modes /\ NoApk \in Apks
        BY <1>2, <1>9, <2>2, FilesTyped DEF Unlink
      <4> HIDE DEF m
      <4> QED
        BY <1>1, <4>1 DEF Dirs
    <3> QED
      BY <1>9, <2>2, <3>1, DirTyped DEF Unlink, PCs
  <2> QED
    BY <2>1, <2>2
<1>10. CASE Move(a)
  <2>1. CASE Fail(a)
    BY <2>1, FailTyped
  <2>2. CASE ~Fail(a)
    <3> DEFINE m == thread[a].apk.mode
    <3>1. dir' = [dir EXCEPT !.top[m] = dir.inner[m], !.inner[m] = NoApk, !.old = FALSE]
      BY <1>10, <2>2 DEF Move
    <3>2. m \in Modes /\ NoApk \in Apks /\ TRUE \in BOOLEAN
      BY <1>2, FilesTyped
    <3> HIDE DEF m
    <3>3. dir' \in Dirs
      BY <1>1, <3>1, <3>2, DirParts
    <3> QED
      BY <1>10, <2>2, <3>3, DirTyped DEF Move, PCs
  <2> QED
    BY <2>1, <2>2
<1>11. CASE Delete(a)
  <2>1. CASE Fail(a)
    BY <2>1, FailTyped
  <2>2. CASE ~Fail(a)
    <3>1. OnlyKept(thread[a].apk) \in [Modes -> Apks]
      BY <1>1, FilesTyped DEF OnlyKept, Dirs
    <3>2. dir' \in Dirs
      BY <1>11, <2>2, <3>1, FilesTyped DEF Delete, Dirs
    <3>3. thread' \in [Attempts -> Threads]
      BY <1>11, <2>2, ToTyped DEF Delete, PCs
    <3>4. ASSUME NEW j \in Jobs PROVE [j EXCEPT !.apk = thread[a].apk] \in Jobs
      BY <1>1 DEF Jobs
    <3>5. copy' \in [Attempts -> Jobs]
      BY <1>11, <2>2, <3>4 DEF Delete, TypeOK
    <3> QED
      BY <1>11, <2>2, <3>2, <3>3, <3>5 DEF Delete, Keep, TypeOK
  <2> QED
    BY <2>1, <2>2
<1>12. CASE Sweep(a)
  <2>1. thread' \in [Attempts -> Threads]
    BY <1>12, ToTyped DEF Sweep, PCs
  <2> QED
    BY <1>12, <2>1, FilesTyped DEF Sweep, Removed, TypeOK
<1> QED
  BY <1>4, <1>5, <1>6, <1>7, <1>8, <1>9, <1>10, <1>11, <1>12

LEMMA TypeStep == TypeOK /\ [Next]_vars => TypeOK'
<1> SUFFICES ASSUME TypeOK, [Next]_vars PROVE TypeOK'
  OBVIOUS
<1>1. CASE UNCHANGED vars
  BY <1>1 DEF vars, TypeOK
<1>2. ASSUME NEW a \in Attempts,
             Start(a) \/ Heartbeat(a) \/ SaveResult(a) \/ Lose(a) \/ Crash(a)
      PROVE  TypeOK'
  BY <1>2, LoopTyped
<1>3. ASSUME NEW a \in Attempts, Work(a) PROVE TypeOK'
  BY <1>3, BuildTyped, EndTyped DEF Work
<1>4. CASE GiveUp \/ SweepByOther \/ Age
  <2>1. CASE GiveUp
    BY <2>1, FilesTyped DEF GiveUp, TypeOK, Jobs
  <2>2. CASE SweepByOther
    BY <2>2, FilesTyped DEF SweepByOther, Removed, loop, TypeOK
  <2>3. CASE Age
    <3>1. left' \in [crash : Nat, lose : Nat, age : Nat]
      BY <2>3 DEF Age, TypeOK
    <3>2. dir' \in Dirs
      BY <2>3 DEF Age, TypeOK, Dirs
    <3> QED
      BY <2>3, <3>1, <3>2 DEF Age, loop, TypeOK
  <2> QED
    BY <1>4, <2>1, <2>2, <2>3
<1> QED
  BY <1>1, <1>2, <1>3, <1>4 DEF Next

\* Whatever the number of attempts and faults, the directory, the threads, the
\* job objects and the record keep the shapes that build_work gives them.
THEOREM TypeCorrect == Spec => []TypeOK
<1>1. Init => TypeOK
  BY TypeInit
<1>2. TypeOK /\ [Next]_vars => TypeOK'
  BY TypeStep
<1> QED
  BY <1>1, <1>2, PTL DEF Spec

-----------------------------------------------------------------------------
(* Free previews.  The threads of a preview never get past the payment     *)
(* gate, so none of them is where an APK is made, inspected or moved.      *)

Ungated == {"off", "mkdir", "generate", "package", "decide", "sweep", "over"}

PreviewInv ==
  /\ TypeOK
  /\ PreviewFree
  /\ kind = "preview" => \A a \in Attempts : thread[a].pc \in Ungated

LEMMA PreviewInit == Init => PreviewInv
<1> SUFFICES ASSUME Init PROVE PreviewInv
  OBVIOUS
<1>1. TypeOK
  BY TypeInit
<1>2. PreviewFree
  BY DEF Init, PreviewFree, NoDir, NoTurn
<1>3. \A a \in Attempts : thread[a].pc \in Ungated
  BY DEF Init, NoTurn, Ungated
<1> QED
  BY <1>1, <1>2, <1>3 DEF PreviewInv

\* What PreviewInv says of a preview, part by part.
Free == /\ dir.inner = NoFiles /\ dir.top = NoFiles /\ rec.apk = Nowhere
        /\ \A a \in Attempts : /\ copy[a].apk = Nowhere /\ thread[a].apk = Nowhere
                               /\ thread[a].pc \in Ungated

LEMMA PreviewTurn ==
  ASSUME TypeOK, kind = "preview", Free, NEW a \in Attempts,
         Start(a) \/ Heartbeat(a) \/ SaveResult(a) \/ Lose(a) \/ Crash(a)
  PROVE  Free'
<1> USE DEF Free
<1>1. CASE Start(a)
  <2>1. [rec EXCEPT !.status = "running"].apk = Nowhere
    BY DEF TypeOK, Jobs
  <2>2. PICK m \in Modes :
          thread' = [thread EXCEPT ![a] = [NoTurn EXCEPT !.pc = "mkdir", !.mode = m]]
    BY <1>1 DEF Start
  <2>3. \A b \in Attempts : thread'[b].apk = Nowhere /\ thread'[b].pc \in Ungated
    BY <2>2 DEF TypeOK, NoTurn, Ungated
  <2>4. \A b \in Attempts : copy'[b].apk = Nowhere
    BY <1>1, <2>1 DEF Start, TypeOK
  <2> QED
    BY <1>1, <2>1, <2>3, <2>4 DEF Start
<1>2. CASE Heartbeat(a)
  BY <1>2 DEF Heartbeat
<1>3. CASE SaveResult(a)
  BY <1>3 DEF SaveResult
<1>4. CASE Lose(a)
  BY <1>4 DEF Lose, Requeued, TypeOK, Jobs
<1>5. CASE Crash(a)
  BY <1>5 DEF Crash, Requeued, TypeOK, Jobs, Ungated, Threads
<1> QED
  BY <1>1, <1>2, <1>3, <1>4, <1>5

LEMMA PreviewWork ==
  ASSUME TypeOK, kind = "preview", Free, NEW a \in Attempts, Work(a)
  PROVE  Free'
<1>1. /\ thread \in [Attempts -> Threads] /\ copy \in [Attempts -> Jobs]
      /\ thread[a].pc \in Ungated /\ dir \in Dirs /\ NoDir.inner = NoFiles
      /\ NoDir.top = NoFiles /\ Nowhere.at = "nowhere"
  BY DEF TypeOK, Free, NoDir, Nowhere, Path
<1>2. ASSUME NEW ok \in BOOLEAN, Outcome(a, ok)
      PROVE  \A b \in Attempts : copy'[b].apk = Nowhere
  <2>1. copy[a].apk = Nowhere /\ thread[a].apk = Nowhere
    BY DEF Free
  <2>2. [copy[a] EXCEPT !.status = "failed"].apk = Nowhere
    BY <1>1, <2>1 DEF Jobs
  <2>3. \E j \in Jobs : j.apk = Nowhere /\ copy' = [copy EXCEPT ![a] = j]
    BY <1>1, <1>2, <2>1, <2>2, FilesTyped DEF Outcome, Jobs
  <2> QED
    BY <1>1, <2>3 DEF Free
<1>3. ASSUME NEW p \in Ungated, To(a, p)
      PROVE  \A b \in Attempts : thread'[b].apk = Nowhere /\ thread'[b].pc \in Ungated
  BY <1>1, <1>3 DEF To, Free, Threads
<1>4. CASE Mkdir(a)
  BY <1>1, <1>3, <1>4 DEF Mkdir, Keep, Free, Ungated, Dirs
<1>5. CASE Generate(a)
  <2>1. PICK p \in {"package", "sweep"} : To(a, p)
    BY <1>5 DEF Generate
  <2>2. \A b \in Attempts : copy'[b].apk = Nowhere
    BY <1>2, <1>5 DEF Generate, Free
  <2>3. dir'.inner = NoFiles /\ dir'.top = NoFiles
    BY <1>1, <1>5 DEF Generate, Free, Dirs
  <2> QED
    BY <1>3, <1>5, <2>1, <2>2, <2>3 DEF Generate, Keep, Free, Ungated
<1>6. CASE Package(a)
  <2>1. Packaged(a, Nowhere)
    BY <1>6 DEF Package, PackageGate
  <2> QED
    BY <1>1, <2>1 DEF Packaged, Keep, Free, Ungated, Threads
<1>7. CASE Decide(a)
  <2>1. To(a, "sweep") /\ \A b \in Attempts : copy'[b].apk = Nowhere
    BY <1>2, <1>7 DEF Decide
  <2> QED
    BY <1>3, <1>7, <2>1 DEF Decide, Keep, Free, Ungated
<1>8. CASE Sweep(a)
  BY <1>1, <1>3, <1>8 DEF Sweep, Removed, Free, Ungated
<1>9. thread[a].pc \notin {"create", "copy", "copyfile", "copyend", "unsign", "gradle",
         "output", "artifact", "inspect", "prune", "unlink", "move", "delete"}
  BY <1>1 DEF Ungated
<1> QED
  BY <1>4, <1>5, <1>6, <1>7, <1>8, <1>9
  DEF Work, At, Create, Copy, CopyFile, CopyEnd, Unsign, Gradle, Output, Artifact,
      Inspect, Prune, Unlink, Move, Delete

LEMMA PreviewStep == PreviewInv /\ [Next]_vars => PreviewInv'
<1> SUFFICES ASSUME PreviewInv, [Next]_vars PROVE PreviewInv'
  OBVIOUS
<1>1. TypeOK'
  BY TypeStep DEF PreviewInv
<1>2. kind' = kind
  <2>1. ASSUME NEW a \in Attempts, Work(a) PROVE kind' = kind
    <3>1. CASE Mkdir(a) \/ Generate(a) \/ Package(a) \/ Decide(a)
      BY <3>1 DEF Mkdir, Generate, Package, Decide, Keep, Fail, Packaged, PackageFailed
    <3>2. CASE Create(a) \/ Copy(a) \/ CopyFile(a) \/ CopyEnd(a) \/ Unsign(a)
      BY <3>2 DEF Create, Copy, CopyFile, CopyEnd, Unsign, Keep, Fail, PackageFailed
    <3>3. CASE Gradle(a) \/ Output(a) \/ Artifact(a) \/ Inspect(a)
      BY <3>3 DEF Gradle, Output, Artifact, Inspect, Keep, Fail, Packaged, PackageFailed
    <3>4. CASE Prune(a) \/ Unlink(a) \/ Move(a) \/ Delete(a) \/ Sweep(a)
      BY <3>4 DEF Prune, Unlink, Move, Delete, Sweep, Keep, Fail
    <3> QED
      BY <2>1, <3>1, <3>2, <3>3, <3>4 DEF Work
  <2>2. ASSUME NEW a \in Attempts,
               Start(a) \/ Heartbeat(a) \/ SaveResult(a) \/ Lose(a) \/ Crash(a)
        PROVE  kind' = kind
    BY <2>2 DEF Start, Heartbeat, SaveResult, Lose, Crash
  <2>3. CASE GiveUp \/ SweepByOther \/ Age \/ UNCHANGED vars
    BY <2>3 DEF GiveUp, SweepByOther, Age, vars
  <2> QED
    BY <2>1, <2>2, <2>3 DEF Next
<1>3. CASE kind # "preview"
  BY <1>1, <1>2, <1>3 DEF PreviewInv, PreviewFree
<1>4. CASE kind = "preview"
  <2>1. TypeOK /\ Free
    BY <1>4 DEF PreviewInv, PreviewFree, Free
  <2>2. ASSUME UNCHANGED vars PROVE Free'
    BY <2>1, <2>2 DEF vars, Free
  <2>3. ASSUME NEW a \in Attempts,
               Start(a) \/ Heartbeat(a) \/ SaveResult(a) \/ Lose(a) \/ Crash(a)
        PROVE  Free'
    BY <1>4, <2>1, <2>3, PreviewTurn
  <2>4. ASSUME NEW a \in Attempts, Work(a) PROVE Free'
    BY <1>4, <2>1, <2>4, PreviewWork
  <2>5. ASSUME GiveUp PROVE Free'
    BY <2>1, <2>5 DEF GiveUp, Free, TypeOK, Jobs
  <2>6. ASSUME SweepByOther PROVE Free'
    BY <2>1, <2>6 DEF SweepByOther, Removed, loop, Free, NoDir
  <2>7. ASSUME Age PROVE Free'
    BY <2>1, <2>7 DEF Age, loop, Free, TypeOK, Dirs
  <2>8. Free'
    BY <2>2, <2>3, <2>4, <2>5, <2>6, <2>7 DEF Next
  <2> QED
    BY <1>1, <2>8 DEF PreviewInv, PreviewFree, Free
<1> QED
  BY <1>3, <1>4

\* Whatever crashes, lost leases, retries and sweeps do to a free preview, no
\* APK of it exists anywhere: the gate in package_apk is what keeps it free.
THEOREM Previews == Spec => []PreviewFree
<1>1. Init => PreviewInv
  BY PreviewInit
<1>2. PreviewInv /\ [Next]_vars => PreviewInv'
  BY PreviewStep
<1>3. PreviewInv => PreviewFree
  BY DEF PreviewInv
<1> QED
  BY <1>1, <1>2, <1>3, PTL DEF Spec

-----------------------------------------------------------------------------
(* The record of a build names its own APK.  What the job object carries   *)
(* from an earlier attempt is harmless: it stays only with a failure.      *)

Own(p, m) == p.at = "nowhere" \/ p.mode = m
Ending    == {"prune", "unlink", "move", "delete", "sweep", "over"}

\* An attempt and its job object, with the directory as it is.
Turn(t, c, there, gone) ==
  /\ t.pc = "decide" => Own(t.apk, t.mode)
  /\ t.pc \in Ending => Terminal(c)
  /\ c.status = "succeeded" =>
       /\ Own(c.apk, t.mode)
       /\ t.pc \in {"unlink", "move", "delete"} =>
            Own(t.apk, t.mode) /\ t.apk.at # "inner"
       /\ t.pc \in {"sweep", "over"} => c.apk.at # "inner" \/ gone
  /\ t.pc \in Building \ {"mkdir"} => there \/ gone

Turns == \A a \in Attempts : Turn(thread[a], copy[a], dir.there, swept)

\* The result that was saved under the lease is the last word on the job.
Saved ==
  final # 0 =>
    /\ holder = 0 /\ Terminal(rec) /\ thread[final].pc = "over"
    /\ rec.status = "succeeded" =>
         Own(rec.apk, thread[final].mode) /\ (rec.apk.at # "inner" \/ swept)

ModeInv == TypeOK /\ Turns /\ Saved

LEMMA ModeInit == Init => ModeInv
<1> SUFFICES ASSUME Init PROVE ModeInv
  OBVIOUS
<1>1. TypeOK
  BY TypeInit
<1>2. Turns
  BY DEF Init, Turns, Turn, NoTurn, Ending, Building, PCs
<1>3. Saved
  BY DEF Init, Saved
<1> QED
  BY <1>1, <1>2, <1>3 DEF ModeInv

\* A thread's step leaves the other attempts and the record as they are, and
\* the directory goes only when it is swept.
LEMMA OthersKept ==
  ASSUME ModeInv, TypeOK', NEW a \in Attempts, thread[a].pc \in Building,
         \A b \in Attempts \ {a} : thread'[b] = thread[b] /\ copy'[b] = copy[b],
         Turn(thread'[a], copy'[a], dir'.there, swept'),
         dir.there => dir'.there \/ swept', swept => swept',
         UNCHANGED <<rec, holder, final>>
  PROVE  ModeInv'
<1>1. \A b \in Attempts \ {a} : Turn(thread'[b], copy'[b], dir'.there, swept')
  BY DEF ModeInv, Turns, Turn
<1>2. Turns'
  BY <1>1 DEF Turns
<1>3. final # a
  BY DEF ModeInv, Saved, Building, PCs, Attempts
<1>4. Saved'
  BY <1>3 DEF ModeInv, TypeOK, Saved, Terminal
<1> QED
  BY <1>2, <1>4 DEF ModeInv

\* The three ways in which a thread leaves packaging.
LEMMA FailKeeps ==
  ASSUME ModeInv, TypeOK', NEW a \in Attempts, thread[a].pc \in Building, Fail(a)
  PROVE  ModeInv'
<1>1. \A b \in Attempts \ {a} : thread'[b] = thread[b] /\ copy'[b] = copy[b]
  BY DEF Fail, To, ModeInv, TypeOK
<1>2. thread'[a].pc = "over" /\ copy'[a].status = "failed"
  BY DEF Fail, To, ModeInv, TypeOK, Threads, Jobs
<1>3. Turn(thread'[a], copy'[a], dir'.there, swept')
  BY <1>2 DEF Turn, Terminal, Ending, Building
<1> QED
  BY <1>1, <1>3, OthersKept DEF Fail, Keep

LEMMA PackageFailedKeeps ==
  ASSUME ModeInv, TypeOK', NEW a \in Attempts,
         thread[a].pc \in Building \ {"mkdir"}, PackageFailed(a)
  PROVE  ModeInv'
<1>1. \A b \in Attempts \ {a} : thread'[b] = thread[b] /\ copy'[b] = copy[b]
  BY DEF PackageFailed, Outcome, To, ModeInv, TypeOK
<1>2. thread'[a].pc = "prune" /\ copy'[a].status = "failed"
  BY DEF PackageFailed, Outcome, To, ModeInv, TypeOK, Threads, Jobs
<1>3. dir.there \/ swept
  BY DEF ModeInv, Turns, Turn
<1>4. Turn(thread'[a], copy'[a], dir'.there, swept')
  BY <1>2, <1>3 DEF Turn, Terminal, Ending, Building, PackageFailed, Keep
<1> QED
  BY <1>1, <1>4, OthersKept DEF PackageFailed, Keep, Building

LEMMA PackagedKeeps ==
  ASSUME ModeInv, TypeOK', NEW a \in Attempts,
         thread[a].pc \in Building \ ({"mkdir"} \cup Ending),
         NEW p \in Paths, Own(p, thread[a].mode), Packaged(a, p)
  PROVE  ModeInv'
<1>1. \A b \in Attempts \ {a} : thread'[b] = thread[b] /\ copy'[b] = copy[b]
  BY DEF Packaged, ModeInv, TypeOK
<1>2. /\ thread'[a].pc = "decide" /\ thread'[a].apk = p
      /\ thread'[a].mode = thread[a].mode /\ copy'[a] = copy[a]
  BY DEF Packaged, ModeInv, TypeOK, Threads
<1>3. dir.there \/ swept
  BY DEF ModeInv, Turns, Turn
<1>4. Turn(thread[a], copy[a], dir.there, swept)
  BY DEF ModeInv, Turns
<1>5. Turn(thread'[a], copy'[a], dir'.there, swept')
  BY <1>2, <1>3, <1>4 DEF Turn, Ending, Packaged, Keep
<1> QED
  BY <1>1, <1>5, OthersKept DEF Packaged, Keep

\* A thread that goes on before its outcome, whatever it does to the tree.
LEMMA GoesOn ==
  ASSUME ModeInv, TypeOK', NEW a \in Attempts, NEW q \in Building,
         thread[a].pc \in Building \ Ending, q \notin Ending \cup {"decide", "mkdir"},
         \A b \in Attempts \ {a} : thread'[b] = thread[b],
         thread'[a].pc = q, thread'[a].mode = thread[a].mode,
         UNCHANGED copy, Keep, dir'.there = dir.there \/ dir'.there,
         thread[a].pc = "mkdir" => dir'.there
  PROVE  ModeInv'
<1>1. Turn(thread[a], copy[a], dir.there, swept)
  BY DEF ModeInv, Turns
<1>2. dir'.there \/ swept
  BY <1>1 DEF Turn
<1>3. Turn(thread'[a], copy'[a], dir'.there, swept')
  BY <1>1, <1>2 DEF Turn, Ending, Keep
<1> QED
  BY <1>3, OthersKept DEF Keep

LEMMA ModeLoop ==
  ASSUME ModeInv, TypeOK', NEW a \in Attempts,
         Start(a) \/ Heartbeat(a) \/ SaveResult(a) \/ Lose(a) \/ Crash(a)
  PROVE  ModeInv'
<1> USE DEF ModeInv
<1>1. CASE Start(a)
  <2>1. final = 0
    BY <1>1 DEF Start, Saved
  <2>2. \A b \in Attempts \ {a} : thread'[b] = thread[b] /\ copy'[b] = copy[b]
    BY <1>1 DEF Start, TypeOK
  <2>3. thread'[a].pc = "mkdir" /\ copy'[a].status = "running"
    <3>1. PICK m \in Modes :
            thread' = [thread EXCEPT ![a] = [NoTurn EXCEPT !.pc = "mkdir", !.mode = m]]
      BY <1>1 DEF Start
    <3> QED
      BY <1>1, <3>1 DEF Start, TypeOK, NoTurn, Jobs
  <2>4. Turn(thread'[a], copy'[a], dir'.there, swept')
    BY <2>3 DEF Turn, Ending, Terminal
  <2>5. Turns'
    BY <1>1, <2>2, <2>4 DEF Turns, Start
  <2> QED
    BY <1>1, <2>1, <2>5 DEF Saved, Start
<1>2. CASE Heartbeat(a)
  <2>1. final = 0
    BY <1>2 DEF Heartbeat, Saved, TypeOK, BoundsAssumption, Attempts
  <2> QED
    BY <1>2, <2>1 DEF Heartbeat, Saved, Turns
<1>3. CASE SaveResult(a)
  <2>1. Turn(thread[a], copy[a], dir.there, swept)
    BY DEF Turns
  <2>2. Saved'
    BY <1>3, <2>1 DEF SaveResult, Saved, Turn, Ending, Terminal
  <2> QED
    BY <1>3, <2>2 DEF SaveResult, Turns
<1>4. CASE Lose(a)
  <2>1. final = 0
    BY <1>4 DEF Lose, Saved, Attempts
  <2> QED
    BY <1>4, <2>1 DEF Lose, Requeued, Saved, Turns
<1>5. CASE Crash(a)
  <2>1. final = 0
    BY <1>5 DEF Crash, Saved, Attempts
  <2>2. \A b \in Attempts \ {a} : thread'[b] = thread[b]
    BY <1>5 DEF Crash, TypeOK
  <2>3. thread'[a].pc = "off" /\ thread'[a].mode = thread[a].mode
    BY <1>5 DEF Crash, TypeOK, Threads
  <2>4. Turns'
    BY <1>5, <2>2, <2>3 DEF Crash, Turns, Turn, Ending, Building
  <2> QED
    BY <1>5, <2>1, <2>4 DEF Crash, Requeued, Saved
<1> QED
  BY <1>1, <1>2, <1>3, <1>4, <1>5

\* A thread before its outcome.
LEMMA ModeBuild ==
  ASSUME ModeInv, TypeOK', NEW a \in Attempts,
         \/ Mkdir(a) \/ Generate(a) \/ Package(a) \/ Create(a) \/ Copy(a)
         \/ CopyFile(a) \/ CopyEnd(a) \/ Unsign(a) \/ Gradle(a)
         \/ Output(a) \/ Artifact(a) \/ Inspect(a)
  PROVE  ModeInv'
<1>1. /\ dir \in Dirs /\ thread \in [Attempts -> Threads] /\ copy \in [Attempts -> Jobs]
      /\ thread[a].mode \in Modes
  BY DEF ModeInv, TypeOK, Threads
<1>2. Own(Nowhere, thread[a].mode) /\ Own(ArtifactOf(a), thread[a].mode)
  BY DEF Own, Nowhere, ArtifactOf, Path
<1>3. Nowhere \in Paths /\ ArtifactOf(a) \in Paths
  BY <1>1, FilesTyped DEF ArtifactOf
<1>4. ASSUME NEW q \in PCs, To(a, q)
      PROVE  /\ \A b \in Attempts \ {a} : thread'[b] = thread[b]
             /\ thread'[a].pc = q /\ thread'[a].mode = thread[a].mode
  BY <1>1, <1>4 DEF To, Threads
<1>5. CASE Mkdir(a)
  <2>1. dir'.there
    BY <1>1, <1>5 DEF Mkdir, NoDir, Dirs
  <2> QED
    BY <1>4, <1>5, <2>1, GoesOn DEF Mkdir, At, Building, Ending, PCs
<1>6. CASE Generate(a)
  <2>1. dir'.there
    BY <1>1, <1>6 DEF Generate, Dirs
  <2>2. CASE To(a, "package") /\ UNCHANGED copy
    BY <1>4, <1>6, <2>1, <2>2, GoesOn DEF Generate, At, Building, Ending, PCs
  <2>3. CASE Outcome(a, FALSE) /\ To(a, IF kind = "paid" THEN "prune" ELSE "sweep")
    <3>1. copy'[a].status = "failed" /\ \A b \in Attempts \ {a} : copy'[b] = copy[b]
      BY <1>1, <2>3 DEF Outcome, Jobs
    <3>2. PICK q \in {"prune", "sweep"} : To(a, q)
      BY <2>3
    <3>3. Turn(thread'[a], copy'[a], dir'.there, swept')
      BY <1>4, <2>1, <3>1, <3>2 DEF Turn, Terminal, Ending, PCs
    <3> QED
      BY <1>4, <1>6, <2>1, <3>1, <3>2, <3>3, OthersKept DEF Generate, At, Keep, Building, PCs
  <2> QED
    BY <1>6, <2>2, <2>3 DEF Generate
<1>7. CASE Package(a)
  <2>1. CASE Packaged(a, Nowhere)
    BY <1>2, <1>3, <1>7, <2>1, PackagedKeeps DEF Package, At, Building, Ending, PCs
  <2>2. CASE ~Packaged(a, Nowhere)
    <3>1. PICK p \in {"create", "unsign", "gradle"} :
            To(a, p) /\ UNCHANGED <<dir, copy>> /\ Keep
      BY <1>7, <2>2 DEF Package
    <3> QED
      BY <1>4, <1>7, <3>1, GoesOn DEF Package, At, Building, Ending, PCs
  <2> QED
    BY <2>1, <2>2
<1>8. CASE Create(a)
  <2>1. CASE PackageFailed(a)
    BY <1>8, <2>1, PackageFailedKeeps DEF Create, At, Building, PCs
  <2>2. CASE To(a, "copy") /\ UNCHANGED <<dir, copy>> /\ Keep
    BY <1>4, <1>8, <2>2, GoesOn DEF Create, At, Building, Ending, PCs
  <2> QED
    BY <1>8, <2>1, <2>2 DEF Create
<1>9. CASE Copy(a)
  <2>1. dir'.there
    BY <1>1, <1>9 DEF Copy, Dirs
  <2> QED
    BY <1>4, <1>9, <2>1, GoesOn DEF Copy, At, Building, Ending, PCs
<1>10. CASE CopyFile(a)
  <2>1. CASE Fail(a)
    BY <1>10, <2>1, FailKeeps DEF CopyFile, At, Building, PCs
  <2>2. CASE ~Fail(a)
    <3>1. dir'.there = dir.there /\ To(a, "copyend") /\ UNCHANGED copy /\ Keep
      BY <1>1, <1>10, <2>2 DEF CopyFile, Dirs
    <3> QED
      BY <1>4, <1>10, <3>1, GoesOn DEF CopyFile, At, Building, Ending, PCs
  <2> QED
    BY <2>1, <2>2
<1>11. CASE CopyEnd(a)
  <2>1. CASE Fail(a)
    BY <1>11, <2>1, FailKeeps DEF CopyEnd, At, Building, PCs
  <2>2. CASE ~Fail(a)
    <3>1. PICK p \in {"unsign", "gradle"} :
            dir'.there = dir.there /\ To(a, p) /\ UNCHANGED copy /\ Keep
      BY <1>1, <1>11, <2>2 DEF CopyEnd, Dirs
    <3> QED
      BY <1>4, <1>11, <3>1, GoesOn DEF CopyEnd, At, Building, Ending, PCs
  <2> QED
    BY <2>1, <2>2
<1>12. CASE Unsign(a)
  <2>1. dir'.there = dir.there
    BY <1>1, <1>12 DEF Unsign, Dirs
  <2> QED
    BY <1>4, <1>12, <2>1, GoesOn DEF Unsign, At, Building, Ending, PCs
<1>13. CASE Gradle(a)
  <2>1. CASE Fail(a)
    BY <1>13, <2>1, FailKeeps DEF Gradle, At, Building, PCs
  <2>2. CASE ~Fail(a)
    <3>1. /\ \A b \in Attempts \ {a} : thread'[b] = thread[b]
          /\ thread'[a].pc = "output" /\ thread'[a].mode = thread[a].mode
      BY <1>1, <1>13, <2>2 DEF Gradle, Threads
    <3> QED
      BY <1>13, <2>2, <3>1, GoesOn DEF Gradle, At, Building, Ending, PCs
  <2> QED
    BY <2>1, <2>2
<1>14. CASE Output(a)
  <2>1. CASE PackageFailed(a)
    BY <1>14, <2>1, PackageFailedKeeps DEF Output, At, Building, PCs
  <2>2. CASE ~PackageFailed(a)
    <3>1. dir'.there = dir.there
      BY <1>1, <1>14, <2>2 DEF Output, Dirs
    <3> QED
      BY <1>4, <1>14, <2>2, <3>1, GoesOn DEF Output, At, Building, Ending, PCs
  <2> QED
    BY <2>1, <2>2
<1>15. CASE Artifact(a)
  <2>1. CASE PackageFailed(a)
    BY <1>15, <2>1, PackageFailedKeeps DEF Artifact, At, Building, PCs
  <2>2. CASE Packaged(a, ArtifactOf(a))
    BY <1>2, <1>3, <1>15, <2>2, PackagedKeeps DEF Artifact, At, Building, Ending, PCs
  <2>3. CASE To(a, "inspect") /\ UNCHANGED <<dir, copy>> /\ Keep
    BY <1>4, <1>15, <2>3, GoesOn DEF Artifact, At, Building, Ending, PCs
  <2> QED
    BY <1>15, <2>1, <2>2, <2>3 DEF Artifact
<1>16. CASE Inspect(a)
  <2>1. CASE PackageFailed(a)
    BY <1>16, <2>1, PackageFailedKeeps DEF Inspect, At, Building, PCs
  <2>2. CASE Packaged(a, ArtifactOf(a))
    BY <1>2, <1>3, <1>16, <2>2, PackagedKeeps DEF Inspect, At, Building, Ending, PCs
  <2> QED
    BY <1>16, <2>1, <2>2 DEF Inspect
<1> QED
  BY <1>5, <1>6, <1>7, <1>8, <1>9, <1>10, <1>11, <1>12, <1>13, <1>14, <1>15, <1>16

\* A thread that decides, prunes and sweeps.
LEMMA ModeEnd ==
  ASSUME ModeInv, TypeOK', NEW a \in Attempts,
         \/ Decide(a) \/ Prune(a) \/ Unlink(a) \/ Move(a) \/ Delete(a) \/ Sweep(a)
  PROVE  ModeInv'
<1>1. /\ dir \in Dirs /\ thread \in [Attempts -> Threads] /\ copy \in [Attempts -> Jobs]
      /\ thread[a].apk \in Paths /\ copy[a].apk \in Paths
  BY DEF ModeInv, TypeOK, Threads, Jobs
<1>2. Turn(thread[a], copy[a], dir.there, swept)
  BY DEF ModeInv, Turns
<1>3. ASSUME NEW q \in PCs, To(a, q)
      PROVE  /\ \A b \in Attempts \ {a} : thread'[b] = thread[b]
             /\ thread'[a] = [thread[a] EXCEPT !.pc = q]
             /\ thread'[a].pc = q /\ thread'[a].mode = thread[a].mode
             /\ thread'[a].apk = thread[a].apk
  BY <1>1, <1>3 DEF To, Threads
<1>4. CASE Decide(a)
  <2>1. PICK q \in {"prune", "sweep"} :
          To(a, q) /\ (q = "sweep" => kind = "preview")
    BY <1>4 DEF Decide, ModeInv, TypeOK
  <2>2. \A b \in Attempts \ {a} : copy'[b] = copy[b]
    BY <1>1, <1>4 DEF Decide, Outcome
  <2>3. \/ copy'[a].status = "failed"
        \/ /\ copy'[a] = [status |-> "succeeded", apk |-> thread[a].apk]
           /\ q = "sweep" => thread[a].apk.at = "nowhere"
    BY <1>1, <1>4, <2>1 DEF Decide, Outcome
  <2>4. Own(thread[a].apk, thread[a].mode) /\ (dir.there \/ swept)
    BY <1>2, <1>4 DEF Decide, At, Turn, Building, PCs
  <2>5. Turn(thread'[a], copy'[a], dir'.there, swept')
    BY <1>3, <1>4, <2>1, <2>3, <2>4 DEF Turn, Terminal, Ending, Decide, Keep, PCs
  <2> QED
    BY <1>3, <1>4, <2>1, <2>2, <2>5, OthersKept DEF Decide, At, Keep, Building, PCs
<1>5. CASE Prune(a)
  <2>1. /\ \A b \in Attempts \ {a} : thread'[b] = thread[b]
        /\ thread'[a].pc \in {"sweep", "unlink", "move", "delete"}
        /\ thread'[a].pc = "sweep" => ~dir.there
        /\ thread'[a].mode = thread[a].mode
        /\ \/ thread'[a].apk = Path("top", copy[a].apk.mode) /\ copy[a].apk.at = "inner"
           \/ thread'[a].apk = copy[a].apk /\ copy[a].apk.at # "inner"
           \/ thread'[a].apk = Nowhere
    <3>1. PICK q \in {"sweep", "unlink", "move", "delete"}, p \in Paths :
            /\ thread' = [thread EXCEPT ![a].pc = q, ![a].apk = p]
            /\ q = "sweep" => ~dir.there
            /\ \/ p = Path("top", copy[a].apk.mode) /\ copy[a].apk.at = "inner"
               \/ p = copy[a].apk /\ copy[a].apk.at # "inner"
               \/ p = Nowhere
      <4> DEFINE c == copy[a].apk
                 q == IF ~dir.there THEN "sweep"
                      ELSE IF c.at = "inner" /\ Exists(c)
                      THEN IF dir.top[c.mode] # NoApk THEN "unlink" ELSE "move"
                      ELSE "delete"
                 p == IF c.at = "inner" /\ Exists(c) THEN Path("top", c.mode)
                      ELSE IF Exists(c) THEN c ELSE Nowhere
      <4>1. thread' = [thread EXCEPT ![a].pc = q, ![a].apk = p]
        BY <1>5 DEF Prune
      <4>2. q \in {"sweep", "unlink", "move", "delete"} /\ (q = "sweep" => ~dir.there)
        OBVIOUS
      <4>3. \/ p = Path("top", c.mode) /\ c.at = "inner"
            \/ p = c /\ c.at # "inner"
            \/ p = Nowhere
        OBVIOUS
      <4>4. c.mode \in Modes
        BY <1>1 DEF Paths
      <4>5. p \in Paths
        BY <1>1, <4>3, <4>4, FilesTyped
      <4> HIDE DEF q, p
      <4> QED
        BY <4>1, <4>2, <4>3, <4>5
    <3> QED
      BY <1>1, <3>1 DEF Threads
  <2>2. copy' = copy /\ dir' = dir /\ swept' = swept
    BY <1>5 DEF Prune, Keep
  <2>3. (dir.there \/ swept) /\ Terminal(copy[a])
    BY <1>2, <1>5 DEF Prune, At, Turn, Building, Ending, PCs
  <2>4. copy[a].status = "succeeded" => Own(thread'[a].apk, thread'[a].mode)
    BY <1>2, <2>1 DEF Turn, Own, Path, Nowhere
  <2>5. thread'[a].apk.at # "inner"
    BY <2>1 DEF Path, Nowhere
  <2>6. Turn(thread'[a], copy'[a], dir'.there, swept')
    BY <1>2, <2>1, <2>2, <2>3, <2>4, <2>5 DEF Turn, Ending
  <2>7. thread[a].pc = "prune" /\ UNCHANGED <<rec, holder, final>>
    BY <1>5 DEF Prune, At, Keep
  <2> QED
    BY <2>1, <2>2, <2>6, <2>7, OthersKept DEF Building, PCs
<1>6. CASE Unlink(a) \/ Move(a)
  <2>1. CASE Fail(a)
    BY <1>6, <2>1, FailKeeps DEF Unlink, Move, At, Building, PCs
  <2>2. CASE ~Fail(a)
    <3>1. PICK q \in {"move", "delete"} : To(a, q)
      BY <1>6, <2>2 DEF Unlink, Move
    <3>2. dir'.there = dir.there /\ copy' = copy /\ Keep
      BY <1>1, <1>6, <2>2 DEF Unlink, Move, Dirs
    <3>3. thread[a].pc \in {"unlink", "move"}
      BY <1>6 DEF Unlink, Move, At
    <3>4. Turn(thread'[a], copy'[a], dir'.there, swept')
      BY <1>2, <1>3, <3>1, <3>2, <3>3 DEF Turn, Ending, Keep, Building, PCs
    <3> QED
      BY <1>3, <3>1, <3>2, <3>3, <3>4, OthersKept DEF Keep, Building, PCs
  <2> QED
    BY <2>1, <2>2
<1>7. CASE Delete(a)
  <2>1. CASE Fail(a)
    BY <1>7, <2>1, FailKeeps DEF Delete, At, Building, PCs
  <2>2. CASE ~Fail(a)
    <3>1. To(a, "sweep") /\ Keep /\ thread[a].pc = "delete"
      BY <1>7, <2>2 DEF Delete, At
    <3>2. dir'.there
      BY <1>7, <2>2 DEF Delete, NoDir
    <3>3. copy' = [copy EXCEPT ![a].apk = thread[a].apk]
      BY <1>7, <2>2 DEF Delete
    <3>4. /\ \A b \in Attempts \ {a} : copy'[b] = copy[b]
          /\ copy'[a].status = copy[a].status /\ copy'[a].apk = thread[a].apk
      BY <1>1, <3>3 DEF Jobs
    <3>5. Turn(thread'[a], copy'[a], dir'.there, swept')
      BY <1>2, <1>3, <3>1, <3>2, <3>4 DEF Turn, Terminal, Ending, PCs
    <3> QED
      BY <1>3, <3>1, <3>2, <3>4, <3>5, OthersKept DEF Keep, Building, PCs
  <2> QED
    BY <2>1, <2>2
<1>8. CASE Sweep(a)
  <2>1. /\ To(a, "over") /\ thread[a].pc = "sweep" /\ copy' = copy
        /\ UNCHANGED <<rec, holder, final>>
    BY <1>8 DEF Sweep, At
  <2>2. swept => swept' /\ (dir.there => dir'.there \/ swept')
    BY <1>8 DEF Sweep, Removed
  <2>3. dir.there => dir'.there \/ swept'
    BY <1>8 DEF Sweep, Removed
  <2>4. Turn(thread'[a], copy'[a], dir'.there, swept')
    BY <1>2, <1>3, <2>1, <2>2 DEF Turn, Ending, Building, PCs
  <2> QED
    BY <1>3, <2>1, <2>2, <2>3, <2>4, OthersKept DEF Building, PCs
<1> QED
  BY <1>4, <1>5, <1>6, <1>7, <1>8

LEMMA ModeStep == ModeInv /\ [Next]_vars => ModeInv'
<1> SUFFICES ASSUME ModeInv, [Next]_vars PROVE ModeInv'
  OBVIOUS
<1>1. TypeOK'
  BY TypeStep DEF ModeInv
<1>2. CASE UNCHANGED vars
  BY <1>1, <1>2 DEF vars, ModeInv, Turns, Saved
<1>3. ASSUME NEW a \in Attempts,
             Start(a) \/ Heartbeat(a) \/ SaveResult(a) \/ Lose(a) \/ Crash(a)
      PROVE  ModeInv'
  BY <1>1, <1>3, ModeLoop
<1>4. ASSUME NEW a \in Attempts, Work(a) PROVE ModeInv'
  BY <1>1, <1>4, ModeBuild, ModeEnd DEF Work
<1>5. CASE GiveUp
  <2>1. final = 0
    BY <1>5 DEF GiveUp, ModeInv, Saved, Terminal
  <2> QED
    BY <1>1, <1>5, <2>1 DEF GiveUp, ModeInv, Turns, Saved
<1>6. CASE SweepByOther
  <2>1. swept' /\ UNCHANGED <<thread, copy, rec, holder, final>>
    BY <1>6 DEF SweepByOther, Removed, loop
  <2> QED
    BY <1>1, <2>1 DEF ModeInv, Turns, Turn, Saved
<1>7. CASE Age
  <2>1. dir'.there = dir.there
    BY <1>7 DEF Age, ModeInv, TypeOK, Dirs
  <2> QED
    BY <1>1, <1>7, <2>1 DEF Age, loop, ModeInv, Turns, Saved
<1> QED
  BY <1>2, <1>3, <1>4, <1>5, <1>6, <1>7 DEF Next

\* Whatever crashes, lost leases and zombies leave in the directory and on the
\* job object, the saved record of a build that succeeded points at an APK of
\* the mode its own attempt was configured for, beside the pruned tree.
THEOREM OwnApk == Spec => []OwnMode
<1>1. Init => ModeInv
  BY ModeInit
<1>2. ModeInv /\ [Next]_vars => ModeInv'
  BY ModeStep
<1>3. ModeInv => OwnMode
  BY DEF ModeInv, TypeOK, Jobs, Paths, Saved, OwnMode, Delivered, Own
<1> QED
  BY <1>1, <1>2, <1>3, PTL DEF Spec

=============================================================================
