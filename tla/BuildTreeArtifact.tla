------------------------- MODULE BuildTreeArtifact -------------------------
(***************************************************************************)
(* What is left of a build whose worker kept its lease: its APK, unsigned  *)
(* if it is a release, and nothing else; or the source of a preview.  For  *)
(* any number of attempts, crashes and retentions that pass.               *)
(***************************************************************************)
EXTENDS BuildTreeProofs

\* With every lease kept, only the holder's thread touches the directory.
Lone ==
  /\ left.lose <= Losses
  /\ LeaseKept => \A a \in Attempts : Live(a) => holder = a

\* A removed directory is empty, and a debug build is never called signed.
Tree ==
  /\ ~dir.there => dir = NoDir
  /\ dir.inner["debug"] # "signed" /\ dir.top["debug"] # "signed"

\* What the directory holds for a job whose APK is at p.
Kept(p) ==
  /\ File(p) # "signed"
  /\ p.at # "nowhere" => Exists(p) \/ swept
  /\ kind = "paid" => ~dir.src /\ dir.android = "none" /\ dir.inner = NoFiles
  /\ kind = "preview" => BuildFiles \/ swept

\* How it comes about, from packaging to the sweep.
Good(t, c) ==
  /\ t.pc \in {"package", "decide"} /\ kind = "preview" => BuildFiles \/ swept
  /\ t.pc = "decide" => File(t.apk) # "signed"
  /\ c.status = "succeeded" =>
       /\ t.pc \in {"prune", "unlink", "move", "delete"} => kind = "paid"
       /\ t.pc = "prune" => File(c.apk) # "signed"
       /\ t.pc \in {"unlink", "move"} =>
            t.apk.at = "top" /\ dir.inner[t.apk.mode] # "signed"
       /\ t.pc = "delete" =>
            File(t.apk) # "signed" /\ (t.apk.at # "nowhere" => Exists(t.apk) \/ swept)
       /\ t.pc \in {"sweep", "over"} => Kept(c.apk)

Holder   == holder # 0 => Good(thread[holder], copy[holder])
Finished == final # 0 /\ rec.status = "succeeded" => Kept(rec.apk)

ArtifactInv ==
  /\ ModeInv /\ PreviewInv /\ Lone /\ Tree
  /\ LeaseKept => Holder /\ Finished

LEMMA ArtifactInit == Init => ArtifactInv
<1> SUFFICES ASSUME Init PROVE ArtifactInv
  OBVIOUS
<1>1. ModeInv /\ PreviewInv
  BY ModeInit, PreviewInit
<1>2. Lone
  BY BoundsAssumption DEF Init, Lone, Live, NoTurn, Building
<1>3. Tree
  BY DEF Init, Tree, NoDir, NoFiles, Modes, NoApk
<1>4. Holder /\ Finished
  BY DEF Init, Holder, Finished
<1> QED
  BY <1>1, <1>2, <1>3, <1>4 DEF ArtifactInv

-----------------------------------------------------------------------------
(* Parts that hold with and without the lease.                             *)

LEMMA TreeWork ==
  ASSUME TypeOK, Tree, NEW a \in Attempts, Work(a)
  PROVE  Tree'
<1>1. /\ dir \in Dirs /\ thread[a].mode \in Modes /\ thread[a].apk.mode \in Modes
      /\ "debug" \in Modes
  BY DEF TypeOK, Threads, Paths, Modes
<1>2. ASSUME UNCHANGED dir PROVE Tree'
  BY <1>2 DEF Tree
<1>3. ASSUME dir' = NoDir PROVE Tree'
  BY <1>3 DEF Tree, NoDir, NoFiles, Modes, NoApk
<1>4. ASSUME dir'.inner = dir.inner, dir'.top = dir.top, dir'.there PROVE Tree'
  BY <1>4 DEF Tree
<1>5. CASE Mkdir(a)
  <2>1. CASE dir.there
    BY <1>2, <1>5, <2>1 DEF Mkdir
  <2>2. CASE ~dir.there
    BY <1>4, <1>5, <2>2 DEF Mkdir, Tree, NoDir
  <2> QED
    BY <2>1, <2>2
<1>6. CASE Generate(a)
  BY <1>1, <1>4, <1>6 DEF Generate, Dirs
<1>7. CASE Package(a)
  BY <1>2, <1>7 DEF Package, Packaged
<1>8. CASE Create(a)
  BY <1>2, <1>8 DEF Create, PackageFailed
<1>9. CASE Copy(a)
  BY <1>1, <1>4, <1>9 DEF Copy, Dirs
<1>10. CASE CopyFile(a)
  <2>1. CASE dir.android = "none"
    BY <1>2, <1>10, <2>1 DEF CopyFile, Fail
  <2>2. CASE dir.android # "none"
    BY <1>1, <1>4, <1>10, <2>2 DEF CopyFile, Tree, NoDir, Dirs
  <2> QED
    BY <2>1, <2>2
<1>11. CASE CopyEnd(a)
  <2>1. CASE dir.android = "none"
    BY <1>2, <1>11, <2>1 DEF CopyEnd, Fail
  <2>2. CASE dir.android # "none"
    BY <1>1, <1>4, <1>11, <2>2 DEF CopyEnd, Tree, NoDir, Dirs
  <2> QED
    BY <2>1, <2>2
<1>12. CASE Unsign(a)
  <2>1. PICK g \in Patched : dir' = [dir EXCEPT !.gradle = g]
    BY <1>12 DEF Unsign
  <2>2. CASE dir.there
    BY <1>1, <1>4, <2>1, <2>2 DEF Dirs
  <2>3. CASE ~dir.there
    <3>1. dir = NoDir /\ g = "none"
      BY <2>3 DEF Tree, Patched, NoDir
    <3>2. dir' = NoDir
      BY <2>1, <3>1 DEF NoDir
    <3> QED
      BY <1>3, <3>2
  <2> QED
    BY <2>2, <2>3
<1>13. CASE Gradle(a)
  BY <1>2, <1>13 DEF Gradle, Fail
<1>14. CASE Output(a)
  <2>1. CASE UNCHANGED dir
    BY <1>2, <2>1
  <2>2. CASE ~UNCHANGED dir
    <3> DEFINE m == thread[a].mode
               k == ApkOf(thread[a].mode, thread[a].signs)
               b == dir.old /\ dir.inner # NoFiles
    <3>1. dir.gradle # "none" /\ dir' = [dir EXCEPT !.inner[m] = k, !.old = b]
      BY <1>14, <2>2 DEF Output, PackageFailed
    <3>2. dir.there
      BY <3>1 DEF Tree, NoDir
    <3>3. m = "debug" => k # "signed"
      BY DEF ApkOf
    <3>4. m \in Modes
      BY <1>1
    <3> HIDE DEF m, k, b
    <3>5. /\ dir'.there = dir.there /\ dir'.top = dir.top
          /\ dir'.inner["debug"] = IF m = "debug" THEN k ELSE dir.inner["debug"]
      BY <1>1, <3>1, <3>4 DEF Dirs
    <3> QED
      BY <3>2, <3>3, <3>5 DEF Tree
  <2> QED
    BY <2>1, <2>2
<1>15. CASE Artifact(a)
  BY <1>2, <1>15 DEF Artifact, PackageFailed, Packaged
<1>16. CASE Inspect(a)
  BY <1>2, <1>16 DEF Inspect, PackageFailed, Packaged
<1>17. CASE Decide(a) \/ Prune(a)
  BY <1>2, <1>17 DEF Decide, Prune
<1>18. CASE Unlink(a)
  <2> DEFINE m == thread[a].apk.mode
  <2>1. CASE UNCHANGED dir
    BY <1>2, <2>1
  <2>2. CASE ~UNCHANGED dir
    <3>1. dir.top[m] # NoApk /\ dir' = [dir EXCEPT !.top[m] = NoApk]
      BY <1>18, <2>2 DEF Unlink, Fail
    <3>2. m \in Modes
      BY <1>1
    <3> HIDE DEF m
    <3>3. dir.there
      BY <3>1, <3>2 DEF Tree, NoDir, NoFiles
    <3>4. /\ dir'.there = dir.there /\ dir'.inner = dir.inner
          /\ dir'.top["debug"] = IF m = "debug" THEN NoApk ELSE dir.top["debug"]
      BY <1>1, <3>1, <3>2 DEF Dirs
    <3> QED
      BY <3>3, <3>4 DEF Tree, NoApk
  <2> QED
    BY <2>1, <2>2
<1>19. CASE Move(a)
  <2> DEFINE m == thread[a].apk.mode
  <2>1. CASE UNCHANGED dir
    BY <1>2, <2>1
  <2>2. CASE ~UNCHANGED dir
    <3>1. /\ dir.inner[m] # NoApk
          /\ dir' = [dir EXCEPT !.top[m] = dir.inner[m], !.inner[m] = NoApk, !.old = FALSE]
      BY <1>19, <2>2 DEF Move, Fail
    <3>2. m \in Modes
      BY <1>1
    <3> HIDE DEF m
    <3>3. dir.there
      BY <3>1, <3>2 DEF Tree, NoDir, NoFiles
    <3>4. /\ dir'.there = dir.there
          /\ dir'.top["debug"] = IF m = "debug" THEN dir.inner["debug"] ELSE dir.top["debug"]
          /\ dir'.inner["debug"] = IF m = "debug" THEN NoApk ELSE dir.inner["debug"]
      BY <1>1, <3>1, <3>2 DEF Dirs
    <3> QED
      BY <3>3, <3>4 DEF Tree, NoApk
  <2> QED
    BY <2>1, <2>2
<1>20. CASE Delete(a)
  <2>1. CASE UNCHANGED dir
    BY <1>2, <2>1
  <2>2. CASE ~UNCHANGED dir
    <3>1. dir' = [NoDir EXCEPT !.there = TRUE, !.top = OnlyKept(thread[a].apk)]
      BY <1>20, <2>2 DEF Delete, Fail
    <3>2. dir'.there /\ dir'.inner = NoFiles /\ dir'.top = OnlyKept(thread[a].apk)
      BY <3>1 DEF NoDir
    <3>3. dir'.inner["debug"] = NoApk /\ dir'.top["debug"] \in {NoApk, dir.top["debug"]}
      BY <1>1, <3>2 DEF NoFiles, OnlyKept
    <3> QED
      BY <3>2, <3>3 DEF Tree, NoApk
  <2> QED
    BY <2>1, <2>2
<1>21. CASE Sweep(a)
  BY <1>2, <1>3, <1>21 DEF Sweep, Removed
<1> QED
  BY <1>5, <1>6, <1>7, <1>8, <1>9, <1>10, <1>11, <1>12, <1>13, <1>14, <1>15, <1>16,
     <1>17, <1>18, <1>19, <1>20, <1>21 DEF Work

LEMMA TreeStep == TypeOK /\ Tree /\ [Next]_vars => Tree'
<1> SUFFICES ASSUME TypeOK, Tree, [Next]_vars PROVE Tree'
  OBVIOUS
<1>1. CASE \E a \in Attempts : Work(a)
  BY <1>1, TreeWork
<1>2. CASE SweepByOther
  BY <1>2 DEF SweepByOther, Removed, Tree, NoDir, NoFiles, Modes, NoApk
<1>3. CASE Age
  BY <1>3 DEF Age, Tree, TypeOK, Dirs
<1>4. CASE UNCHANGED dir
  BY <1>4 DEF Tree
<1> QED
  BY <1>1, <1>2, <1>3, <1>4
  DEF Next, vars, Start, Heartbeat, SaveResult, Lose, Crash, GiveUp

\* A working thread stays a working thread or ends, and counts no lost lease.
LEMMA WorkAlone ==
  ASSUME TypeOK, NEW a \in Attempts, Work(a)
  PROVE  /\ Live(a)
         /\ \A b \in Attempts \ {a} : thread'[b] = thread[b] /\ copy'[b] = copy[b]
         /\ UNCHANGED <<kind, rec, holder, final, left>>
<1>1. thread[a].pc \in Building
  BY DEF Work, At, Building, PCs, Mkdir, Generate, Package, Create, Copy, CopyFile,
     CopyEnd, Unsign, Gradle, Output, Artifact, Inspect, Decide, Prune, Unlink, Move,
     Delete, Sweep
<1>2. UNCHANGED <<kind, rec, holder, final, left>>
  BY DEF Work, Keep, Fail, Packaged, PackageFailed, Mkdir, Generate, Package, Create,
     Copy, CopyFile, CopyEnd, Unsign, Gradle, Output, Artifact, Inspect, Decide, Prune,
     Unlink, Move, Delete, Sweep
<1>3. \E t : thread' = [thread EXCEPT ![a] = t]
  <2>1. CASE Gradle(a) \/ Prune(a)
    BY <2>1 DEF Gradle, Prune, Fail, To
  <2>2. CASE ~(Gradle(a) \/ Prune(a))
    BY <2>2 DEF Work, To, Fail, Packaged, PackageFailed, Mkdir, Generate, Package,
       Create, Copy, CopyFile, CopyEnd, Unsign, Output, Artifact, Inspect, Decide,
       Unlink, Move, Delete, Sweep
  <2> QED
    BY <2>1, <2>2
<1>4. copy' = copy \/ \E c : copy' = [copy EXCEPT ![a] = c]
  BY DEF Work, Outcome, Fail, Packaged, PackageFailed, Mkdir, Generate, Package,
     Create, Copy, CopyFile, CopyEnd, Unsign, Gradle, Output, Artifact, Inspect, Decide,
     Prune, Unlink, Move, Delete, Sweep
<1> QED
  BY <1>1, <1>2, <1>3, <1>4 DEF TypeOK, Live

LEMMA LoneStep ==
  ASSUME TypeOK, Lone, [Next]_vars
  PROVE  Lone'
<1>1. CASE UNCHANGED vars
  BY <1>1 DEF vars, Lone, LeaseKept, Live
<1>2. ASSUME NEW a \in Attempts, Start(a) PROVE Lone'
  <2>1. holder = 0 /\ holder' = a /\ left' = left
    BY <1>2 DEF Start
  <2>2. \A b \in Attempts \ {a} : thread'[b] = thread[b]
    BY <1>2 DEF Start, TypeOK
  <2>3. LeaseKept => \A b \in Attempts : ~Live(b)
    BY <2>1 DEF Lone, Attempts
  <2> QED
    BY <2>1, <2>2, <2>3 DEF Lone, LeaseKept, Live
<1>3. ASSUME NEW a \in Attempts, Heartbeat(a) PROVE Lone'
  BY <1>3 DEF Heartbeat, Lone, LeaseKept, Live
<1>4. ASSUME NEW a \in Attempts, SaveResult(a) PROVE Lone'
  <2>1. ~Live(a)
    BY <1>4 DEF SaveResult, Live, Building
  <2>2. LeaseKept => \A b \in Attempts : ~Live(b)
    BY <1>4, <2>1 DEF SaveResult, Lone
  <2> QED
    BY <1>4, <2>2 DEF SaveResult, Lone, LeaseKept, Live
<1>5. ASSUME NEW a \in Attempts, Lose(a) PROVE Lone'
  <2>1. left'.lose = left.lose - 1 /\ left.lose \in Nat /\ left.lose <= Losses
    BY <1>5 DEF Lose, TypeOK, Lone
  <2> QED
    BY <2>1, BoundsAssumption DEF Lone, LeaseKept
<1>6. ASSUME NEW a \in Attempts, Crash(a) PROVE Lone'
  <2>1. left'.lose = left.lose /\ holder = a
    BY <1>6 DEF Crash, TypeOK
  <2>2. /\ thread'[a].pc = "off"
        /\ \A b \in Attempts \ {a} : thread'[b] = thread[b]
    BY <1>6 DEF Crash, TypeOK, Threads
  <2>3. LeaseKept => \A b \in Attempts : ~Live(b)'
    BY <2>1, <2>2 DEF Lone, Live, Building
  <2> QED
    BY <2>1, <2>3 DEF Lone, LeaseKept
<1>7. ASSUME NEW a \in Attempts, Work(a) PROVE Lone'
  <2>1. /\ Live(a) /\ UNCHANGED <<holder, left>>
        /\ \A b \in Attempts \ {a} : thread'[b] = thread[b]
    BY <1>7, WorkAlone
  <2> QED
    BY <2>1 DEF Lone, LeaseKept, Live
<1>8. CASE GiveUp \/ SweepByOther
  BY <1>8 DEF GiveUp, SweepByOther, Removed, loop, Lone, LeaseKept, Live
<1>9. CASE Age
  <2>1. left'.lose = left.lose
    BY <1>9 DEF Age, TypeOK
  <2> QED
    BY <1>9, <2>1 DEF Age, loop, Lone, LeaseKept, Live
<1> QED
  BY <1>1, <1>2, <1>3, <1>4, <1>5, <1>6, <1>7, <1>8, <1>9 DEF Next

-----------------------------------------------------------------------------
(* The holder's thread.                                                    *)

\* Where nothing is known of the outcome yet, or it is a failure.
LEMMA GoodEarly ==
  ASSUME NEW t, NEW c,
         t.pc \in {"mkdir", "generate", "create", "copy", "copyfile", "copyend",
                   "unsign", "gradle", "output", "artifact", "inspect"}
  PROVE  Good(t, c)
  BY DEF Good

LEMMA GoodFailure ==
  ASSUME NEW t, NEW c, t.pc \notin {"package", "decide"}, c.status = "failed"
  PROVE  Good(t, c)
  BY DEF Good

\* A directory that was swept keeps nothing, and shows why.
LEMMA NoDirKept ==
  ASSUME dir' = NoDir, swept', NEW p \in Paths
  PROVE  Kept(p)'
<1>1. /\ ~dir'.src /\ dir'.android = "none" /\ dir'.inner = NoFiles /\ dir'.top = NoFiles
  BY DEF NoDir
<1>2. File(p)' = NoApk
  BY <1>1 DEF File, NoFiles, Paths
<1> QED
  BY <1>1, <1>2 DEF Kept, NoApk

LEMMA GoodWork ==
  ASSUME ArtifactInv, TypeOK', NEW a \in Attempts, Work(a), Good(thread[a], copy[a])
  PROVE  Good(thread[a], copy[a])'
<1>1. /\ TypeOK /\ dir \in Dirs
      /\ thread \in [Attempts -> Threads] /\ copy \in [Attempts -> Jobs]
      /\ thread[a] \in Threads /\ copy[a] \in Jobs
      /\ thread[a].mode \in Modes /\ thread[a].apk \in Paths /\ copy[a].apk \in Paths
      /\ thread[a].apk.mode \in Modes /\ copy[a].apk.mode \in Modes
  BY DEF ArtifactInv, ModeInv, TypeOK, Threads, Jobs, Paths
<1>2. Turn(thread[a], copy[a], dir.there, swept)
  BY DEF ArtifactInv, ModeInv, Turns
<1>3. kind' = kind /\ kind \in {"paid", "preview"}
  BY <1>1, WorkAlone DEF TypeOK
<1>4. kind = "preview" => thread[a].pc \in Ungated
  BY DEF ArtifactInv, PreviewInv
<1>5. ASSUME NEW q \in PCs, To(a, q)
      PROVE  /\ thread'[a].pc = q /\ thread'[a].mode = thread[a].mode
             /\ thread'[a].apk = thread[a].apk
  BY <1>1, <1>5 DEF To, Threads
<1>6. ASSUME Fail(a) PROVE Good(thread[a], copy[a])'
  <2>1. thread'[a].pc = "over" /\ copy'[a].status = "failed"
    BY <1>1, <1>6 DEF Fail, To, Threads, Jobs
  <2> QED
    BY <2>1 DEF Good
<1>7. ASSUME PackageFailed(a) PROVE Good(thread[a], copy[a])'
  <2>1. thread'[a].pc = "prune" /\ copy'[a].status = "failed"
    BY <1>1, <1>7 DEF PackageFailed, Outcome, To, Threads, Jobs
  <2> QED
    BY <2>1 DEF Good
<1>8. ASSUME NEW p \in Paths, Packaged(a, p), File(p) # "signed",
             kind = "preview" => BuildFiles \/ swept
      PROVE  Good(thread[a], copy[a])'
  <2>1. thread'[a].pc = "decide" /\ thread'[a].apk = p /\ dir' = dir /\ swept' = swept
    BY <1>1, <1>8 DEF Packaged, Keep, Threads
  <2> QED
    BY <1>3, <1>8, <2>1 DEF Good, File, BuildFiles
<1>9. ASSUME NEW q \in {"generate", "create", "copy", "copyfile", "copyend", "unsign",
                        "gradle", "output", "artifact", "inspect"},
             thread'[a].pc = q
      PROVE  Good(thread[a], copy[a])'
  BY <1>9 DEF Good
<1>10. CASE Mkdir(a)
  BY <1>5, <1>9, <1>10 DEF Mkdir, PCs
<1>11. CASE Generate(a)
  <2>1. CASE To(a, "package")
    <3>1. thread'[a].pc = "package" /\ BuildFiles'
      BY <1>1, <1>5, <1>11, <2>1 DEF Generate, BuildFiles, Dirs, PCs
    <3> QED
      BY <3>1 DEF Good
  <2>2. CASE Outcome(a, FALSE) /\ To(a, IF kind = "paid" THEN "prune" ELSE "sweep")
    <3>1. copy'[a].status = "failed"
      BY <1>1, <2>2 DEF Outcome, Jobs
    <3>2. thread'[a].pc \in {"prune", "sweep"}
      BY <1>5, <2>2 DEF PCs
    <3> QED
      BY <3>1, <3>2 DEF Good
  <2> QED
    BY <1>11, <2>1, <2>2 DEF Generate
<1>12. CASE Package(a)
  <2>1. CASE Packaged(a, Nowhere)
    <3>1. File(Nowhere) # "signed"
      BY DEF File, Nowhere, Path, NoApk
    <3>2. kind = "preview" => BuildFiles \/ swept
      BY <1>12 DEF Package, At, Good
    <3> QED
      BY <1>8, <2>1, <3>1, <3>2, FilesTyped
  <2>2. CASE ~Packaged(a, Nowhere)
    <3>1. PICK q \in {"create", "unsign", "gradle"} : To(a, q)
      BY <1>12, <2>2 DEF Package
    <3> QED
      BY <1>5, <1>9, <3>1 DEF PCs
  <2> QED
    BY <2>1, <2>2
<1>13. CASE Create(a) \/ Copy(a) \/ CopyFile(a) \/ CopyEnd(a) \/ Unsign(a)
  <2>1. CASE Fail(a) \/ PackageFailed(a)
    BY <1>6, <1>7, <2>1
  <2>2. CASE ~(Fail(a) \/ PackageFailed(a))
    <3>1. PICK q \in {"copy", "copyfile", "copyend", "unsign", "gradle"} : To(a, q)
      BY <1>13, <2>2 DEF Create, Copy, CopyFile, CopyEnd, Unsign
    <3> QED
      BY <1>5, <1>9, <3>1 DEF PCs
  <2> QED
    BY <2>1, <2>2
<1>14. CASE Gradle(a)
  <2>1. CASE Fail(a)
    BY <1>6, <2>1
  <2>2. CASE ~Fail(a)
    <3>1. thread'[a].pc = "output"
      BY <1>1, <1>14, <2>2 DEF Gradle, Threads
    <3> QED
      BY <1>9, <3>1
  <2> QED
    BY <2>1, <2>2
<1>15. CASE Output(a)
  <2>1. CASE PackageFailed(a)
    BY <1>7, <2>1
  <2>2. CASE ~PackageFailed(a)
    BY <1>5, <1>9, <1>15, <2>2 DEF Output, PCs
  <2> QED
    BY <2>1, <2>2
<1>16. ArtifactOf(a) \in Paths /\ File(ArtifactOf(a)) = dir.inner[thread[a].mode]
  BY <1>1, FilesTyped DEF ArtifactOf, File, Path
<1>17. CASE Artifact(a)
  <2>1. kind = "paid"
    BY <1>3, <1>4, <1>17 DEF Artifact, At, Ungated
  <2>2. CASE PackageFailed(a)
    BY <1>7, <2>2
  <2>3. CASE thread[a].mode = "debug" /\ Packaged(a, ArtifactOf(a))
    <3>1. File(ArtifactOf(a)) # "signed"
      BY <1>16, <2>3 DEF ArtifactInv, Tree
    <3> QED
      BY <1>8, <1>16, <2>1, <2>3, <3>1
  <2>4. CASE To(a, "inspect")
    BY <1>5, <1>9, <2>4 DEF PCs
  <2> QED
    BY <1>17, <2>2, <2>3, <2>4 DEF Artifact
<1>18. CASE Inspect(a)
  <2>1. kind = "paid"
    BY <1>3, <1>4, <1>18 DEF Inspect, At, Ungated
  <2>2. CASE PackageFailed(a)
    BY <1>7, <2>2
  <2>3. CASE "unsigned" \in Signature(ArtifactOf(a)) /\ Packaged(a, ArtifactOf(a))
    <3>1. File(ArtifactOf(a)) # "signed"
      BY <2>3 DEF Signature, NoApk
    <3> QED
      BY <1>8, <1>16, <2>1, <2>3, <3>1
  <2> QED
    BY <1>18, <2>2, <2>3 DEF Inspect
<1>19. CASE Decide(a)
  <2>1. dir' = dir /\ swept' = swept /\ thread[a].pc = "decide"
    BY <1>19 DEF Decide, Keep, At
  <2>2. File(thread[a].apk) # "signed" /\ (kind = "preview" => BuildFiles \/ swept)
    BY <2>1 DEF Good
  <2>3. thread'[a].pc = IF kind = "paid" THEN "prune" ELSE "sweep"
    BY <1>5, <1>19 DEF Decide, PCs
  <2>4. \/ copy'[a].status = "failed"
        \/ /\ copy'[a].apk = thread[a].apk
           /\ kind = "preview" => thread[a].apk.at = "nowhere"
    BY <1>1, <1>19 DEF Decide, Outcome
  <2>5. File(thread[a].apk)' = File(thread'[a].apk)
    BY <2>1 DEF File
  <2>6. CASE copy'[a].status = "failed"
    BY <2>3, <2>6 DEF Good
  <2>7. CASE kind = "paid" /\ copy'[a].apk = thread[a].apk
    BY <1>3, <2>1, <2>2, <2>3, <2>7 DEF Good, File
  <2>8. CASE kind = "preview" /\ copy'[a].apk = thread[a].apk /\ thread[a].apk.at = "nowhere"
    BY <1>3, <2>1, <2>2, <2>3, <2>8 DEF Good, Kept, File, BuildFiles
  <2> QED
    BY <1>3, <2>4, <2>6, <2>7, <2>8
<1>20. CASE Prune(a)
  <2> DEFINE c == copy[a].apk
             m == copy[a].apk.mode
  <2>1. UNCHANGED <<dir, copy, swept>> /\ thread[a].pc = "prune"
    BY <1>20 DEF Prune, Keep, At
  <2>2. CASE copy[a].status # "succeeded"
    <3>1. thread'[a].pc \notin {"package", "decide"}
      BY <1>1, <1>20 DEF Prune, Threads
    <3> QED
      BY <2>1, <2>2, <3>1 DEF Good
  <2>3. CASE copy[a].status = "succeeded"
    <3>1. kind = "paid" /\ File(c) # "signed"
      BY <2>1, <2>3 DEF Good
    <3>2. CASE ~dir.there
      <4>1. thread'[a].pc = "sweep"
        BY <1>1, <1>20, <3>2 DEF Prune, Threads
      <4>2. swept
        BY <1>2, <2>1, <3>2 DEF Turn, Building, PCs
      <4>3. dir = NoDir
        BY <3>2 DEF ArtifactInv, Tree
      <4>4. ~dir.src /\ dir.android = "none" /\ dir.inner = NoFiles
        BY <4>3 DEF NoDir
      <4> QED
        BY <1>3, <2>1, <3>1, <4>1, <4>2, <4>4 DEF Good, Kept, File, BuildFiles, Exists
    <3>3. CASE dir.there /\ c.at = "inner" /\ Exists(c)
      <4>1. /\ thread'[a].pc \in {"unlink", "move"}
            /\ thread'[a].apk = Path("top", m)
        BY <1>1, <1>20, <3>3 DEF Prune, Threads
      <4>2. dir.inner[m] # "signed"
        BY <3>1, <3>3 DEF File
      <4> QED
        BY <1>3, <2>1, <3>1, <4>1, <4>2 DEF Good, Path
    <3>4. CASE dir.there /\ ~(c.at = "inner" /\ Exists(c))
      <4>1. /\ thread'[a].pc = "delete"
            /\ thread'[a].apk = IF Exists(c) THEN c ELSE Nowhere
        BY <1>1, <1>20, <3>4 DEF Prune, Threads
      <4>2. /\ File(thread'[a].apk) # "signed"
            /\ thread'[a].apk.at # "nowhere" => Exists(thread'[a].apk)
        BY <3>1, <4>1 DEF Nowhere, Path, File, NoApk
      <4> QED
        BY <1>3, <2>1, <3>1, <4>1, <4>2 DEF Good, File, Exists
    <3> QED
      BY <3>2, <3>3, <3>4
  <2> QED
    BY <2>2, <2>3
<1>21. CASE Unlink(a)
  <2>1. CASE Fail(a)
    BY <1>6, <2>1
  <2>2. CASE ~Fail(a)
    <3>1. /\ To(a, "move") /\ thread[a].pc = "unlink" /\ copy' = copy
          /\ dir' = [dir EXCEPT !.top[thread[a].apk.mode] = NoApk]
      BY <1>21, <2>2 DEF Unlink, At
    <3>2. dir'.inner = dir.inner
      BY <1>1, <3>1 DEF Dirs
    <3> QED
      BY <1>3, <1>5, <3>1, <3>2 DEF Good, PCs
  <2> QED
    BY <2>1, <2>2
<1>22. CASE Move(a)
  <2>1. CASE Fail(a)
    BY <1>6, <2>1
  <2>2. CASE ~Fail(a)
    <3> DEFINE m == thread[a].apk.mode
    <3>1. /\ To(a, "delete") /\ thread[a].pc = "move" /\ copy' = copy
          /\ dir.inner[m] # NoApk
          /\ dir' = [dir EXCEPT !.top[m] = dir.inner[m], !.inner[m] = NoApk, !.old = FALSE]
      BY <1>22, <2>2 DEF Move, At
    <3>2. m \in Modes
      BY <1>1
    <3>3. dir'.top[m] = dir.inner[m]
      <4> HIDE DEF m
      <4> QED
        BY <1>1, <3>1, <3>2 DEF Dirs
    <3>4. thread'[a].pc = "delete" /\ thread'[a].apk = thread[a].apk
      BY <1>5, <3>1 DEF PCs
    <3>5. CASE copy[a].status # "succeeded"
      BY <3>1, <3>4, <3>5 DEF Good
    <3>6. CASE copy[a].status = "succeeded"
      <4>1. kind = "paid" /\ thread[a].apk.at = "top" /\ dir.inner[m] # "signed"
        BY <3>1, <3>6 DEF Good
      <4>2. File(thread[a].apk)' = dir.inner[m]
        BY <3>3, <3>4, <4>1 DEF File
      <4> QED
        BY <1>3, <3>1, <3>4, <4>1, <4>2 DEF Good, Exists
    <3> QED
      BY <3>5, <3>6
  <2> QED
    BY <2>1, <2>2
<1>23. CASE Delete(a)
  <2>1. CASE Fail(a)
    BY <1>6, <2>1
  <2>2. CASE ~Fail(a)
    <3> DEFINE p == thread[a].apk
    <3>1. /\ To(a, "sweep") /\ thread[a].pc = "delete" /\ swept' = swept
          /\ dir' = [NoDir EXCEPT !.there = TRUE, !.top = OnlyKept(p)]
          /\ copy' = [copy EXCEPT ![a].apk = p]
      BY <1>23, <2>2 DEF Delete, At, Keep
    <3>2. copy'[a].status = copy[a].status /\ copy'[a].apk = p
      BY <1>1, <3>1 DEF Jobs
    <3>3. thread'[a].pc = "sweep"
      BY <1>5, <3>1 DEF PCs
    <3>4. /\ ~dir'.src /\ dir'.android = "none" /\ dir'.inner = NoFiles
          /\ dir'.top = OnlyKept(p)
      BY <3>1 DEF NoDir
    <3>5. CASE copy[a].status # "succeeded"
      BY <3>2, <3>3, <3>5 DEF Good
    <3>6. CASE copy[a].status = "succeeded"
      <4>1. kind = "paid" /\ File(p) # "signed" /\ (p.at # "nowhere" => Exists(p) \/ swept)
        BY <3>1, <3>6 DEF Good
      <4>2. p.at # "inner"
        BY <1>2, <3>1, <3>6 DEF Turn
      <4>3. p.at = "top" => dir'.top[p.mode] = dir.top[p.mode]
        <5>1. p.at = "top" => p = Path("top", p.mode)
          BY <1>1 DEF Path, Paths
        <5> QED
          BY <1>1, <3>4, <5>1 DEF OnlyKept
      <4>4. p.at \in {"nowhere", "top"}
        BY <1>1, <4>2 DEF Paths
      <4>5. /\ copy'[a].apk.at = p.at /\ copy'[a].apk.mode = p.mode
        BY <3>2
      <4>6. File(copy[a].apk)' = File(p)
        BY <4>3, <4>4, <4>5 DEF File
      <4>7. Kept(copy[a].apk)'
        BY <1>3, <3>1, <3>4, <4>1, <4>5, <4>6 DEF Kept, Exists
      <4> QED
        BY <3>3, <4>7 DEF Good
    <3> QED
      BY <3>5, <3>6
  <2> QED
    BY <2>1, <2>2
<1>24. CASE Sweep(a)
  <2>1. /\ thread[a].pc = "sweep" /\ copy' = copy /\ thread'[a].pc = "over"
        /\ (dir' = NoDir /\ swept') \/ UNCHANGED <<dir, swept>>
    BY <1>5, <1>24 DEF Sweep, At, Removed, PCs
  <2>2. CASE copy[a].status # "succeeded"
    BY <2>1, <2>2 DEF Good
  <2>3. CASE copy[a].status = "succeeded"
    <3>1. Kept(copy[a].apk)
      BY <2>1, <2>3 DEF Good
    <3>2. CASE dir' = NoDir /\ swept'
      <4>1. Kept(copy[a].apk)'
        BY <1>1, <1>3, <2>1, <3>2, NoDirKept
      <4> QED
        BY <2>1, <4>1 DEF Good
    <3>3. CASE UNCHANGED <<dir, swept>>
      BY <1>3, <2>1, <3>1, <3>3 DEF Good, Kept, File, Exists, BuildFiles
    <3> QED
      BY <2>1, <3>2, <3>3
  <2> QED
    BY <2>2, <2>3
<1> QED
  BY <1>10, <1>11, <1>12, <1>13, <1>14, <1>15, <1>17, <1>18, <1>19, <1>20, <1>21, <1>22,
     <1>23, <1>24 DEF Work

-----------------------------------------------------------------------------
(* The invariant.                                                          *)

LEMMA GoodSwept ==
  ASSUME dir' = NoDir, swept', UNCHANGED kind, NEW t \in Threads, NEW c \in Jobs,
         Good(t, c)
  PROVE  Good(t, c)'
<1>1. ASSUME NEW p \in Paths PROVE Kept(p)'
  BY <1>1, NoDirKept
<1>2. t.apk \in Paths /\ c.apk \in Paths /\ t.apk.mode \in Modes
  BY DEF Threads, Jobs, Paths
<1>3. Kept(t.apk)' /\ Kept(c.apk)'
  BY <1>1, <1>2
<1>4. dir'.inner[t.apk.mode] # "signed"
  BY <1>2 DEF NoDir, NoFiles, NoApk
<1> QED
  BY <1>3, <1>4 DEF Good, Kept

LEMMA ArtifactStep == ArtifactInv /\ [Next]_vars => ArtifactInv'
<1> SUFFICES ASSUME ArtifactInv, [Next]_vars PROVE ArtifactInv'
  OBVIOUS
<1>1. TypeOK /\ ModeInv /\ PreviewInv /\ Lone /\ Tree /\ Saved
  BY DEF ArtifactInv, ModeInv
<1>2. TypeOK' /\ ModeInv' /\ PreviewInv' /\ Lone' /\ Tree'
  BY <1>1, TypeStep, ModeStep, PreviewStep, LoneStep, TreeStep
<1>3. SUFFICES ASSUME LeaseKept' PROVE Holder' /\ Finished'
  BY <1>2 DEF ArtifactInv
<1>4. 0 \notin Attempts
  BY DEF Attempts
<1>5. CASE UNCHANGED vars
  <2>1. LeaseKept
    BY <1>3, <1>5 DEF vars, LeaseKept
  <2>2. Holder /\ Finished
    BY <2>1 DEF ArtifactInv
  <2> QED
    BY <1>5, <2>2 DEF vars, Holder, Finished, Good, Kept, File, Exists, BuildFiles
<1>6. ASSUME NEW a \in Attempts, Start(a) PROVE Holder' /\ Finished'
  <2>1. final' = 0
    BY <1>1, <1>6 DEF Start, Saved
  <2>2. holder' = a
    BY <1>6 DEF Start
  <2>3. thread'[a].pc = "mkdir"
    <3>1. PICK m \in Modes :
            thread' = [thread EXCEPT ![a] = [NoTurn EXCEPT !.pc = "mkdir", !.mode = m]]
      BY <1>6 DEF Start
    <3> QED
      BY <1>1, <3>1 DEF TypeOK, NoTurn
  <2> QED
    BY <2>1, <2>2, <2>3 DEF Holder, Finished, Good
<1>7. ASSUME NEW a \in Attempts, Heartbeat(a) PROVE Holder' /\ Finished'
  <2>1. /\ final' = 0 /\ holder = a
        /\ UNCHANGED <<kind, dir, thread, copy, holder, swept, left>>
    BY <1>1, <1>4, <1>7 DEF Heartbeat, Saved
  <2>2. Holder
    BY <1>3, <2>1 DEF ArtifactInv, LeaseKept
  <2> QED
    BY <2>1, <2>2 DEF Holder, Finished, Good, Kept, File, Exists, BuildFiles
<1>8. ASSUME NEW a \in Attempts, SaveResult(a) PROVE Holder' /\ Finished'
  <2>1. /\ holder = a /\ holder' = 0 /\ rec' = copy[a] /\ thread[a].pc = "over"
        /\ UNCHANGED <<kind, dir, swept, left>>
    BY <1>8 DEF SaveResult
  <2>2. Good(thread[a], copy[a])
    BY <1>3, <1>4, <2>1 DEF ArtifactInv, LeaseKept, Holder
  <2>3. copy[a].status = "succeeded" => Kept(copy[a].apk)
    BY <2>1, <2>2 DEF Good
  <2> QED
    BY <2>1, <2>3 DEF Holder, Finished, Kept, File, Exists, BuildFiles
<1>9. ASSUME NEW a \in Attempts, Lose(a) PROVE Holder' /\ Finished'
  <2>1. left'.lose = left.lose - 1 /\ left.lose \in Nat /\ left.lose <= Losses
    BY <1>1, <1>9 DEF Lose, TypeOK, Lone
  <2> QED
    BY <1>3, <2>1, BoundsAssumption DEF LeaseKept
<1>10. ASSUME NEW a \in Attempts, Crash(a) PROVE Holder' /\ Finished'
  BY <1>1, <1>4, <1>10 DEF Crash, Requeued, Saved, Holder, Finished
<1>11. ASSUME NEW a \in Attempts, Work(a) PROVE Holder' /\ Finished'
  <2>1. Live(a) /\ UNCHANGED <<kind, rec, holder, final, left>>
    BY <1>1, <1>11, WorkAlone
  <2>2. LeaseKept /\ holder = a
    BY <1>1, <1>3, <2>1 DEF LeaseKept, Lone
  <2>3. Good(thread[a], copy[a])
    BY <1>4, <2>2 DEF ArtifactInv, Holder
  <2>4. Good(thread[a], copy[a])'
    BY <1>2, <1>11, <2>3, GoodWork
  <2>5. final' = 0
    BY <1>1, <1>4, <2>1, <2>2 DEF Saved
  <2> QED
    BY <2>1, <2>2, <2>4, <2>5 DEF Holder, Finished
<1>12. CASE GiveUp
  BY <1>1, <1>12 DEF GiveUp, TypeOK, Jobs, Holder, Finished
<1>13. CASE SweepByOther
  <2>1. dir' = NoDir /\ swept' /\ UNCHANGED <<kind, thread, copy, rec, holder, final, left>>
    BY <1>13 DEF SweepByOther, Removed, loop
  <2>2. Holder /\ Finished
    BY <1>3, <2>1 DEF ArtifactInv, LeaseKept
  <2>3. rec.apk \in Paths
    BY <1>1 DEF TypeOK, Jobs
  <2>4. Kept(rec.apk)'
    BY <2>1, <2>3, NoDirKept
  <2>5. ASSUME holder # 0 PROVE Good(thread[holder], copy[holder])'
    <3>1. thread[holder] \in Threads /\ copy[holder] \in Jobs
      BY <1>1, <2>5 DEF TypeOK
    <3> QED
      BY <2>1, <2>2, <2>5, <3>1, GoodSwept DEF Holder
  <2> QED
    BY <2>1, <2>4, <2>5 DEF Holder, Finished
<1>14. CASE Age
  <2>1. /\ holder' = 0 /\ UNCHANGED <<kind, rec, final, swept>> /\ left'.lose = left.lose
        /\ dir' = [dir EXCEPT !.old = TRUE] /\ dir \in Dirs
    BY <1>1, <1>14 DEF Age, loop, TypeOK
  <2>2. /\ dir'.inner = dir.inner /\ dir'.top = dir.top /\ dir'.src = dir.src
        /\ dir'.android = dir.android /\ dir'.there = dir.there
    BY <2>1 DEF Dirs
  <2>3. Finished
    BY <1>3, <2>1 DEF ArtifactInv, LeaseKept
  <2> QED
    BY <2>1, <2>2, <2>3 DEF Holder, Finished, Kept, File, Exists, BuildFiles
<1> QED
  BY <1>5, <1>6, <1>7, <1>8, <1>9, <1>10, <1>11, <1>12, <1>13, <1>14 DEF Next

LEMMA ArtifactAlways == Spec => []ArtifactInv
<1>1. Init => ArtifactInv
  BY ArtifactInit
<1>2. ArtifactInv /\ [Next]_vars => ArtifactInv'
  BY ArtifactStep
<1> QED
  BY <1>1, <1>2, PTL DEF Spec

\* What GET /builds/{id}/apk serves of a build whose worker kept its lease is
\* not signed with the debug key in release mode, however often the job was
\* started and whatever the dead attempts left: inspect_signature refuses it.
THEOREM NeverDebugSigned == Spec => []UnsignedRelease
<1>1. ArtifactInv => UnsignedRelease
  BY DEF ArtifactInv, Finished, UnsignedRelease, Delivered, Kept
<1> QED
  BY <1>1, ArtifactAlways, PTL

\* The APK on the record is there until the retention removes the directory:
\* keep_only_the_artifact moves it before it deletes, and the job learns the
\* new path before it is saved.
THEOREM ArtifactIsKept == Spec => []ArtifactKept
<1>1. ArtifactInv => ArtifactKept
  BY DEF ArtifactInv, Finished, ArtifactKept, Delivered, Kept, GetApk
<1> QED
  BY <1>1, ArtifactAlways, PTL

\* After a paid build only the APK is left on the disk, after a preview its
\* source, for as long as the retention lasts.
THEOREM OnlyTheDeliverable == Spec => []Leftover
<1>1. ArtifactInv => Leftover
  BY DEF ArtifactInv, Finished, Leftover, Delivered, Kept
<1> QED
  BY <1>1, ArtifactAlways, PTL

=============================================================================
