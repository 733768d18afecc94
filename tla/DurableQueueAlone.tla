------------------------- MODULE DurableQueueAlone --------------------------
(***************************************************************************)
(* Proofs about DurableQueue with one worker, the deployment of            *)
(* docker-compose.yml: NeverLost, AttemptsBounded, and that it implements  *)
(* JobLifecycle.  Each theorem states the faults it excludes; the number   *)
(* of jobs, of attempts and of all other faults is arbitrary.              *)
(***************************************************************************)
EXTENDS DurableQueueProofs

Alone == \A v, w \in Workers : v = w

\* Points of the recovery scan: still looking, and still marking.
Looking == {"exists", "lrem", "lpush"}
Marking == Looking \cup {"mark", "marksave"}

\* Points between the reservation of a job and the end of its entry.
Entered == (Holding \cup {"lease"}) \ {"ackdel"}

\* Points at which a build thread has been started for the attempt.
Attempting == {"build", "beat", "savebeat", "last", "saveresult"}

Owed(j) == acc[j] = "queued" /\ rec[j].status \in {"queued", "running"}

\* The queue has the id, or a reaper is about to push it back.
Kept(j) == \/ j \in Waiting \/ inflight[j] > 0
           \/ \E w \in Workers : pc[w] = "lpush" /\ cur[w] = j

\* What the only worker does is no surprise to it: what it scans, marks or has
\* reserved is where it left it, and it gives up no entry of a job still owed.
TurnInv ==
  /\ \A w \in Workers : pc[w] \notin Looking => scan[w] = {}
  /\ \A w \in Workers : pc[w] \notin Marking => taken[w] = {}
  /\ \A w \in Workers : taken[w] \subseteq Waiting
  /\ \A w \in Workers : pc[w] = "marksave" => cur[w] \in Waiting
  /\ \A w \in Workers : pc[w] \in Entered => inflight[cur[w]] > 0

EndInv ==
  /\ \A w \in Workers : pc[w] = "giveup" => copy[w].status = "failed"
  /\ \A j \in Jobs : poll[j] # NoRec => poll[j].status = "failed"
  /\ \A w \in Workers : thread[w] \in {"alive", "decided"} => pc[w] \in Attempting
  /\ \A w \in Workers : thread[w] \in {"decided", "done"} => copy[w].status \in Outcomes
  /\ \A w \in Workers : pc[w] \in {"last", "saveresult"} => thread[w] = "done"
  /\ \A w \in Workers : pc[w] \in {"acklrem", "ackdel"} => ~Owed(cur[w])

OwedInv == PlacesInv /\ TurnInv /\ EndInv /\ \A j \in Jobs : Owed(j) => Kept(j)

\* Every copy of a record knows of every build that was started.  A record
\* that went stale belongs to a job that nobody will touch any more.
CountInv ==
  /\ PlacesInv
  /\ left["age"] = 0
  /\ \A j \in Jobs : acc[j] # "queued" => starts[j] = 0 /\ poll[j] = NoRec
  /\ \A j \in Jobs : ~rec[j].fresh \/ poll[j] # NoRec => acc[j] = "queued" /\ Orphan(j)
  /\ \A j \in Jobs : rec[j].status # "absent" => starts[j] <= rec[j].attempts
  /\ \A j \in Jobs : poll[j] # NoRec => starts[j] <= poll[j].attempts
  /\ \A w \in Workers : copy[w].fresh
  /\ \A w \in Workers : pc[w] \in HasCopy \ {"running"} => starts[cur[w]] <= copy[w].attempts
  /\ \A w \in Workers : pc[w] = "running" =>
       starts[cur[w]] < copy[w].attempts /\ copy[w].attempts <= MaxAttempts
  /\ AttemptsBounded

\* No fault hits a job whose outcome is, or is about to be, on record, nor
\* the requeue between its two commands; no job waits for longer than
\* STALE_AFTER, and no record expires.
Calm ==
  /\ FaultAt \cap {"lpush", "savebeat", "settled", "prune"} = {}
  /\ FaultLimit["age"] = 0 /\ FaultLimit["expire"] = 0

\* Points before the build of a job starts, and points at which its record can
\* show an outcome while the entry is still there.
Before == AtJob \ (Attempting \cup {"acklrem", "ackdel"})
Ending == Attempting \cup {"acklrem"}

RecordsInv ==
  /\ left["age"] = 0 /\ left["expire"] = 0
  /\ \A j \in Jobs : rec[j].fresh /\ poll[j] = NoRec
  /\ \A j \in Jobs : acc[j] # "queued" => rec[j].attempts = 0
  /\ \A j \in Jobs : acc[j] = "saved" => rec[j].status = "queued"
  /\ \A j \in Jobs : acc[j] = "queued" => rec[j].status # "absent"
  /\ \A j \in Jobs : Owed(j) => rec[j].attempts <= MaxAttempts

\* An outcome on record is that of the job the worker is finishing, or of one
\* whose entry is gone.
StandsInv ==
  /\ \A j \in Jobs : Terminal(rec[j]) =>
       /\ j \notin Waiting
       /\ \A w \in Workers : j \notin scan[w] \cup taken[w]
       /\ inflight[j] > 0 => \E w \in Workers : cur[w] = j /\ pc[w] \in Ending
  /\ \A w \in Workers : pc[w] \in Before => Owed(cur[w])
  /\ \A w \in Workers : pc[w] \in Holding => lease[cur[w]] \in {NoOwner, Me(w)}
  /\ \A w \in Workers :
       pc[w] = "savebeat" \/ (pc[w] \in Attempting /\ Terminal(rec[cur[w]]))
         => lease[cur[w]] = Me(w)

\* What a worker is about to write follows from what is on record.
CopyInv ==
  /\ \A w \in Workers : copy[w].fresh
  /\ \A w \in Workers : pc[w] = "marksave" =>
       copy[w].status = "queued" /\ copy[w].attempts = rec[cur[w]].attempts
  /\ \A w \in Workers : pc[w] = "running" =>
       /\ copy[w].status = "running" /\ copy[w].attempts <= MaxAttempts
       /\ copy[w].attempts = rec[cur[w]].attempts + 1
  /\ \A w \in Workers : pc[w] = "giveup" =>
       /\ rec[cur[w]].attempts = MaxAttempts /\ copy[w].attempts = MaxAttempts + 1
  /\ \A w \in Workers : pc[w] \in Attempting =>
       /\ copy[w].attempts = rec[cur[w]].attempts
       /\ copy[w].status \in {"running"} \cup Outcomes
       /\ rec[cur[w]].status \in {"running", copy[w].status}
  /\ \A w \in Workers : thread[w] = "alive" => copy[w].status = "running"

LifeInv == OwedInv /\ RecordsInv /\ StandsInv /\ CopyInv
-----------------------------------------------------------------------------
(* NeverLost.                                                               *)

LEMMA InitOwedInv == Init => OwedInv
  BY InitPlacesInv
  DEF Init, OwedInv, TurnInv, EndInv, Owed, Looking, Marking, Entered,
      Attempting, Holding

LEMMA WaitingGrows ==
  ASSUME TypeOK, NEW j \in Jobs, pending' = Append(pending, j)
  PROVE  Waiting' = Waiting \cup {j}
<1>1. pending \in Seq(Jobs) BY DEF TypeOK
<1>2. /\ Len(pending') = Len(pending) + 1 /\ Len(pending) \in Nat
      /\ \A i \in 1 .. Len(pending) : pending'[i] = pending[i]
      /\ pending'[Len(pending) + 1] = j
  BY <1>1, AppendFacts
<1>3. 1 .. Len(pending') = (1 .. Len(pending)) \cup {Len(pending) + 1}
  BY <1>2
<1>4. QED BY <1>2, <1>3 DEF Waiting

LEMMA WaitingShrinks ==
  ASSUME TypeOK, pending # <<>>, pending' = Tail(pending)
  PROVE  /\ Head(pending) \in Jobs
         /\ Waiting' \subseteq Waiting
         /\ Waiting \subseteq Waiting' \cup {Head(pending)}
         /\ Head(pending) \in Waiting
<1>1. pending \in Seq(Jobs) BY DEF TypeOK
<1>2. /\ Len(pending) \in Nat \ {0}
      /\ Len(pending') = Len(pending) - 1
      /\ \A i \in 1 .. Len(pending') : pending'[i] = pending[i + 1]
      /\ Head(pending) = pending[1]
  BY <1>1, TailFacts
<1>3. Head(pending) \in Jobs BY <1>1, PopType
<1>4. Waiting' \subseteq Waiting
  BY <1>2 DEF Waiting
<1>5. \A i \in 1 .. Len(pending) :
        i = 1 \/ (i - 1 \in 1 .. Len(pending') /\ pending[i] = pending'[i - 1])
  BY <1>2
<1>6. Waiting \subseteq Waiting' \cup {Head(pending)}
  BY <1>2, <1>5 DEF Waiting
<1>7. Head(pending) \in Waiting
  BY <1>2 DEF Waiting
<1>8. QED BY <1>3, <1>4, <1>6, <1>7

\* A worker's job was accepted in full, so it is not one being accepted now.
LEMMA JobStepOwedInv ==
  ASSUME OwedInv, PlacesInv', NEW j \in Jobs,
         \/ Settle(j) \/ AcceptNext(j) \/ AcceptDies(j)
         \/ PollRead(j) \/ PollSave(j)
         \/ LeaseLapses(j) \/ Age(j) \/ RecordExpires(j)
  PROVE  OwedInv'
<1>0. TypeOK /\ Busy /\ Known BY DEF OwedInv, PlacesInv, TypeInv
<1>1. UNCHANGED <<workerVars, inflight>>
  BY DEF Settle, AcceptNext, Create, SavePaid, Push, AcceptDies, PollRead,
         PollSave, LeaseLapses, Age, RecordExpires, queueVars
<1>2. Waiting' = Waiting \/ (Push(j) /\ Waiting' = Waiting \cup {j})
  <2>1. CASE Push(j) BY <1>0, <2>1, WaitingGrows DEF Push
  <2>2. CASE ~Push(j)
    <3>1. UNCHANGED pending
      BY <2>2 DEF Settle, AcceptNext, Create, SavePaid, AcceptDies, PollRead,
         PollSave, LeaseLapses, Age, RecordExpires, queueVars
    <3>2. QED BY <3>1 DEF Waiting
  <2>3. QED BY <2>1, <2>2
<1>3. TurnInv' BY <1>1, <1>2 DEF OwedInv, TurnInv, workerVars
<1>4. \A i \in Jobs : poll'[i] # NoRec => poll'[i].status = "failed"
  <2>1. CASE PollRead(j)
    <3>1. [rec[j] EXCEPT !.status = "failed"].status = "failed"
      BY <1>0 DEF TypeOK, Record
    <3>2. QED BY <1>0, <2>1, <3>1 DEF PollRead, OwedInv, EndInv, TypeOK
  <2>2. CASE PollSave(j) BY <1>0, <2>2 DEF PollSave, OwedInv, EndInv, TypeOK
  <2>3. CASE ~PollRead(j) /\ ~PollSave(j)
    <3>1. UNCHANGED poll
      BY <2>3 DEF Settle, AcceptNext, Create, SavePaid, Push, AcceptDies,
         LeaseLapses, Age, RecordExpires
    <3>2. QED BY <3>1 DEF OwedInv, EndInv
  <2>4. QED BY <2>1, <2>2, <2>3
<1>5. \A i \in Jobs : Owed(i)' => Owed(i) \/ (i = j /\ Push(j))
  <2>1. CASE Settle(j) \/ Push(j) \/ AcceptDies(j) \/ LeaseLapses(j) \/ PollRead(j)
    BY <1>0, <2>1 DEF Settle, Push, AcceptDies, LeaseLapses, PollRead, AcceptStep, Owed, TypeOK
  <2>2. CASE Create(j) \/ SavePaid(j)
    BY <1>0, <2>2 DEF Create, SavePaid, AcceptStep, Save, Owed, TypeOK
  <2>3. CASE PollSave(j)
    <3>1. poll[j].status = "failed" BY <2>3 DEF PollSave, OwedInv, EndInv
    <3>2. QED BY <1>0, <2>3, <3>1 DEF PollSave, Save, Owed, TypeOK
  <2>4. CASE Age(j)
    <3>1. [rec[j] EXCEPT !.fresh = FALSE].status = rec[j].status
      BY <1>0 DEF TypeOK, Record
    <3>2. QED BY <1>0, <2>4, <3>1 DEF Age, Save, Owed, TypeOK
  <2>5. CASE RecordExpires(j)
    BY <1>0, <2>5 DEF RecordExpires, Save, Owed, TypeOK, NoRec
  <2>6. QED BY <2>1, <2>2, <2>3, <2>4, <2>5 DEF AcceptNext
<1>6. \A w \in Workers : pc[w] \in {"acklrem", "ackdel"} => ~Owed(cur[w])'
  <2>1. Push(j) => acc[j] = "saved" BY DEF Push, AcceptStep
  <2>2. \A w \in Workers : pc[w] \in {"acklrem", "ackdel"} =>
          cur[w] \in Jobs /\ acc[cur[w]] = "queued" /\ ~Owed(cur[w])
    BY <1>0 DEF OwedInv, EndInv, Busy, AtJob, Holding, Known
  <2>3. UNCHANGED cur BY <1>1 DEF workerVars
  <2>4. QED BY <1>5, <2>1, <2>2, <2>3 DEF Owed
<1>7. EndInv' BY <1>1, <1>4, <1>6 DEF OwedInv, EndInv, workerVars
<1>8. \A i \in Jobs : Kept(i) => Kept(i)'
  BY <1>1, <1>2 DEF Kept, workerVars
<1>9. Push(j) => Kept(j)'
  <2>1. Push(j) => Waiting' = Waiting \cup {j} BY <1>0, WaitingGrows DEF Push
  <2>2. QED BY <2>1 DEF Kept
<1>10. QED BY <1>3, <1>5, <1>7, <1>8, <1>9 DEF OwedInv

\* A worker step that leaves lists and records alone.
LEMMA OwedFrame ==
  ASSUME Alone, OwedInv, PlacesInv', NEW w \in Workers, TurnInv',
         UNCHANGED <<pending, inflight, rec, acc, poll>>,
         pc[w] = "lpush" => pc'[w] = "lpush" /\ cur'[w] = cur[w],
         pc'[w] = "giveup" => copy'[w].status = "failed",
         thread'[w] \in {"alive", "decided"} => pc'[w] \in Attempting,
         thread'[w] \in {"decided", "done"} => copy'[w].status \in Outcomes,
         pc'[w] \in {"last", "saveresult"} => thread'[w] = "done",
         pc'[w] \in {"acklrem", "ackdel"} => ~Owed(cur'[w])
  PROVE  OwedInv'
<1>1. \A v \in Workers : v = w BY DEF Alone
<1>2. \A j : Owed(j)' <=> Owed(j) BY DEF Owed
<1>3. EndInv' BY <1>1, <1>2 DEF OwedInv, EndInv, Owed
<1>4. Waiting' = Waiting BY DEF Waiting
<1>5. \A j \in Jobs : Kept(j) => Kept(j)' BY <1>1, <1>4 DEF Kept
<1>6. QED BY <1>2, <1>3, <1>5 DEF OwedInv

\* A worker step that drops everything, at a moment when nothing hangs on it.
LEMMA OwedForget ==
  ASSUME Alone, OwedInv, PlacesInv', NEW w \in Workers, Forget(w), pc[w] # "lpush",
         UNCHANGED <<pending, inflight, rec, acc, poll>>
  PROVE  OwedInv'
<1>0. TypeOK BY DEF OwedInv, PlacesInv, TypeInv
<1>1. \A v \in Workers : v = w BY DEF Alone
<1>2. pc'[w] = "idle" /\ scan'[w] = {} /\ taken'[w] = {} /\ thread'[w] = "none"
  BY <1>0 DEF Forget, Goto, TypeOK
<1>3. TurnInv' BY <1>1, <1>2 DEF TurnInv, Looking, Marking, Entered, Holding
<1>4. QED BY <1>2, <1>3, OwedFrame DEF Attempting

\* A worker step that writes its copy to the record of its job.
LEMMA OwedSave ==
  ASSUME Alone, OwedInv, PlacesInv', NEW w \in Workers, TurnInv', EndInv',
         UNCHANGED <<pending, inflight, acc, poll>>, pc[w] # "lpush",
         cur[w] \in Jobs, Save(cur[w], copy[w]),
         Kept(cur[w]) \/ copy[w].status \in Outcomes
  PROVE  OwedInv'
<1>0. TypeOK BY DEF OwedInv, PlacesInv, TypeInv
<1>1. \A v \in Workers : v = w BY DEF Alone
<1>2. \A j \in Jobs : Owed(j)' => Owed(j) \/ (j = cur[w] /\ copy[w].status \notin Outcomes)
  BY <1>0 DEF Save, Owed, TypeOK, Outcomes
<1>3. Waiting' = Waiting BY DEF Waiting
<1>4. \A j \in Jobs : Kept(j) => Kept(j)' BY <1>1, <1>3 DEF Kept
<1>5. QED BY <1>2, <1>4 DEF OwedInv

LEMMA ReaperOwedInv ==
  ASSUME Alone, OwedInv, PlacesInv', NEW w \in Workers,
         \/ StartScan(w) \/ CheckLease(w) \/ TakeBack(w) \/ PushBack(w)
         \/ MarkGet(w) \/ MarkSave(w)
  PROVE  OwedInv'
<1>0. TypeOK /\ Busy /\ Known BY DEF OwedInv, PlacesInv, TypeInv
<1>1. \A v \in Workers : v = w BY DEF Alone
<1>2. pc[w] \in Marking \cup {"idle"} /\ UNCHANGED thread
  BY DEF StartScan, CheckLease, TakeBack, PushBack, MarkGet, MarkSave, Marking,
         Looking
<1>3. thread'[w] \notin {"alive", "decided"} /\ thread'[w] # "done"
  BY <1>0, <1>2 DEF Busy, Marking, Looking, Holding, TypeOK
<1>4. CASE StartScan(w)
  <2>1. pc[w] = "idle" /\ UNCHANGED <<pending, inflight, rec, acc, poll, taken>>
    BY <1>4 DEF StartScan, queueVars
  <2>2. /\ scan'[w] = InFlight
        /\ pc'[w] = IF InFlight # {} THEN "exists" ELSE "reserve"
    BY <1>0, <1>4 DEF StartScan, Continue, Goto, TypeOK
  <2>3. taken[w] = {} BY <2>1 DEF OwedInv, TurnInv, Marking, Looking
  <2>4. TurnInv'
    BY <1>1, <2>1, <2>2, <2>3 DEF TurnInv, Looking, Marking, Entered, Holding, Waiting
  <2>5. QED BY <1>3, <2>1, <2>2, <2>4, OwedFrame
<1>5. CASE CheckLease(w)
  <2>1. pc[w] = "exists" /\ UNCHANGED <<pending, inflight, rec, acc, poll, taken>>
    BY <1>5 DEF CheckLease, queueVars
  <2>2. /\ pc'[w] \in {"exists", "mark", "reserve", "lrem"}
        /\ pc'[w] \in {"mark", "reserve"} => scan'[w] = {}
        /\ pc'[w] = "reserve" => taken[w] = {}
    BY <1>0, <1>5 DEF CheckLease, Continue, Goto, TypeOK
  <2>3. TurnInv'
    BY <1>1, <2>1, <2>2 DEF OwedInv, TurnInv, Looking, Marking, Entered, Holding, Waiting
  <2>4. QED BY <1>3, <2>1, <2>2, <2>3, OwedFrame
<1>6. CASE TakeBack(w)
  <2>1. pc[w] = "lrem" /\ UNCHANGED <<pending, rec, acc, poll, scan, taken>>
        /\ cur[w] \in Jobs
    BY <1>0, <1>6 DEF TakeBack, Busy, AtJob
  <2>2. /\ pc'[w] \in {"exists", "mark", "reserve", "lpush"}
        /\ pc'[w] \in {"mark", "reserve"} => scan[w] = {}
        /\ pc'[w] = "reserve" => taken[w] = {}
    BY <1>0, <1>6 DEF TakeBack, Continue, Goto, TypeOK
  <2>3. \A j \in Jobs : inflight[j] > 0 =>
          inflight'[j] > 0 \/ (j = cur[w] /\ pc'[w] = "lpush" /\ cur'[w] = cur[w])
    BY <1>0, <1>6 DEF TakeBack, Goto, TypeOK
  <2>4. TurnInv'
    BY <1>1, <2>1, <2>2 DEF OwedInv, TurnInv, Looking, Marking, Entered, Holding, Waiting
  <2>5. \A j : Owed(j)' <=> Owed(j) BY <2>1 DEF Owed
  <2>6. EndInv' BY <1>1, <1>3, <2>1, <2>2 DEF OwedInv, EndInv
  <2>7. \A j \in Jobs : Kept(j) => Kept(j)'
    BY <1>1, <2>1, <2>3 DEF Kept, Waiting
  <2>8. QED BY <2>4, <2>5, <2>6, <2>7 DEF OwedInv
<1>7. CASE PushBack(w)
  <2>1. pc[w] = "lpush" /\ UNCHANGED <<inflight, rec, acc, poll, scan>>
        /\ cur[w] \in Jobs
    BY <1>0, <1>7 DEF PushBack, Busy, AtJob
  <2>2. /\ pc'[w] \in {"exists", "mark"}
        /\ pc'[w] = "mark" => scan[w] = {}
        /\ taken'[w] = taken[w] \cup {cur[w]}
    BY <1>0, <1>7 DEF PushBack, Continue, Goto, TypeOK
  <2>3. Waiting' = Waiting \cup {cur[w]}
    BY <1>0, <1>7, <2>1, WaitingGrows DEF PushBack
  <2>4. TurnInv'
    BY <1>1, <2>1, <2>2, <2>3 DEF OwedInv, TurnInv, Looking, Marking, Entered, Holding
  <2>5. \A j : Owed(j)' <=> Owed(j) BY <2>1 DEF Owed
  <2>6. EndInv' BY <1>1, <1>3, <2>1, <2>2 DEF OwedInv, EndInv
  <2>7. \A j \in Jobs : Kept(j) => Kept(j)'
    BY <1>1, <2>1, <2>3 DEF Kept
  <2>8. QED BY <2>4, <2>5, <2>6, <2>7 DEF OwedInv
<1>8. CASE MarkGet(w)
  <2>1. pc[w] = "mark" /\ UNCHANGED <<pending, inflight, rec, acc, poll, scan>>
    BY <1>8 DEF MarkGet, queueVars
  <2>2. PICK j \in taken[w] :
          /\ taken' = [taken EXCEPT ![w] = @ \ {j}]
          /\ \/ Continue(w, {}, taken[w] \ {j})
             \/ Goto(w, "marksave") /\ cur' = [cur EXCEPT ![w] = j]
    BY <1>8 DEF MarkGet
  <2>3. /\ taken'[w] = taken[w] \ {j}
        /\ \/ pc'[w] = "mark" \/ (pc'[w] = "reserve" /\ taken'[w] = {})
           \/ pc'[w] = "marksave" /\ cur'[w] = j
    BY <1>0, <2>2 DEF Continue, Goto, TypeOK
  <2>4. scan[w] = {} /\ taken[w] \subseteq Waiting
    BY <2>1 DEF OwedInv, TurnInv, Looking
  <2>5. TurnInv'
    BY <1>1, <2>1, <2>3, <2>4 DEF TurnInv, Looking, Marking, Entered, Holding, Waiting
  <2>6. QED BY <1>3, <2>1, <2>3, <2>5, OwedFrame
<1>9. CASE MarkSave(w)
  <2>1. pc[w] = "marksave" /\ UNCHANGED <<pending, inflight, acc, poll, scan, taken>>
        /\ cur[w] \in Jobs /\ Save(cur[w], copy[w])
    BY <1>0, <1>9 DEF MarkSave, Busy, AtJob, queueVars
  <2>2. pc'[w] = IF taken[w] # {} THEN "mark" ELSE "reserve"
    BY <1>0, <1>9 DEF MarkSave, Continue, Goto, TypeOK
  <2>3. scan[w] = {} /\ taken[w] \subseteq Waiting /\ cur[w] \in Waiting
    BY <2>1 DEF OwedInv, TurnInv, Looking
  <2>4. TurnInv'
    BY <1>1, <2>1, <2>2, <2>3 DEF TurnInv, Looking, Marking, Entered, Holding, Waiting
  <2>5. EndInv' BY <1>1, <1>3, <2>1, <2>2 DEF OwedInv, EndInv
  <2>6. QED BY <2>1, <2>3, <2>4, <2>5, OwedSave DEF Kept
<1>10. QED BY <1>4, <1>5, <1>6, <1>7, <1>8, <1>9

LEMMA TurnOwedInv ==
  ASSUME Alone, OwedInv, PlacesInv', NEW w \in Workers,
         \/ Reserve(w) \/ TakeLease(w) \/ GetRecord(w) \/ SaveGivenUp(w)
         \/ SaveRunning(w) \/ AckRemove(w) \/ AckDelete(w)
  PROVE  OwedInv'
<1>0. TypeOK /\ Busy /\ Known BY DEF OwedInv, PlacesInv, TypeInv
<1>1. \A v \in Workers : v = w BY DEF Alone
<1>2. pc[w] \notin Marking => scan[w] = {} /\ taken[w] = {}
  BY DEF OwedInv, TurnInv, Marking
<1>3. CASE Reserve(w)
  <2>1. /\ pc[w] \in {"idle", "reserve"} /\ scan[w] = {} /\ taken[w] = {}
        /\ UNCHANGED <<rec, acc, poll, scan, taken, copy, thread>>
    BY <1>2, <1>3 DEF Reserve, Marking, Looking
  <2>2. thread[w] \notin {"alive", "decided", "done"}
    BY <1>0, <2>1 DEF Busy, Holding
  <2>3. CASE pending = <<>>
    <3>1. pc'[w] = "idle" /\ UNCHANGED <<pending, inflight, cur>>
      BY <1>0, <1>3, <2>3 DEF Reserve, Goto, TypeOK
    <3>2. TurnInv'
      BY <1>1, <2>1, <3>1 DEF TurnInv, Looking, Marking, Entered, Holding
    <3>3. QED BY <2>1, <2>2, <3>1, <3>2, OwedFrame
  <2>4. CASE pending # <<>>
    <3> DEFINE h == Head(pending)
    <3>1. /\ h \in Jobs /\ Waiting \subseteq Waiting' \cup {h}
      BY <1>0, <1>3, <2>4, WaitingShrinks DEF Reserve
    <3>2. pc'[w] = "lease" /\ cur'[w] = h
          /\ inflight' = [inflight EXCEPT ![h] = @ + 1]
      BY <1>0, <1>3, <2>4 DEF Reserve, Goto, TypeOK
    <3> HIDE DEF h
    <3>3. inflight'[h] > 0 /\ \A j \in Jobs : inflight[j] > 0 => inflight'[j] > 0
      BY <1>0, <3>1, <3>2 DEF TypeOK
    <3>4. TurnInv'
      BY <1>1, <2>1, <3>2, <3>3 DEF TurnInv, Looking, Marking, Entered, Holding
    <3>5. \A j : Owed(j)' <=> Owed(j) BY <2>1 DEF Owed
    <3>6. EndInv' BY <1>1, <2>1, <2>2, <3>2 DEF OwedInv, EndInv
    <3>7. \A j \in Jobs : Kept(j) => Kept(j)'
      BY <1>1, <2>1, <3>1, <3>3 DEF Kept
    <3>8. QED BY <3>4, <3>5, <3>6, <3>7 DEF OwedInv
  <2>5. QED BY <2>3, <2>4
<1>4. CASE TakeLease(w)
  <2>1. /\ pc[w] = "lease" /\ pc'[w] = "get" /\ cur'[w] = cur[w]
        /\ UNCHANGED <<pending, inflight, rec, acc, poll, scan, taken, copy, thread>>
    BY <1>0, <1>4 DEF TakeLease, Goto, TypeOK
  <2>2. TurnInv'
    BY <1>1, <1>2, <2>1 DEF OwedInv, TurnInv, Looking, Marking, Entered, Holding
  <2>3. thread[w] \notin {"alive", "decided", "done"}
    BY <1>0, <2>1 DEF Busy, Holding
  <2>4. QED BY <2>1, <2>2, <2>3, OwedFrame
<1>5. CASE GetRecord(w)
  <2> DEFINE r == rec[cur[w]]
  <2>1. /\ pc[w] = "get" /\ cur[w] \in Jobs /\ r \in Record
        /\ UNCHANGED <<pending, inflight, rec, acc, poll, scan, taken, cur, thread>>
    BY <1>0, <1>5 DEF GetRecord, queueVars, Busy, AtJob, Holding, TypeOK
  <2>2. \/ pc'[w] = "acklrem" /\ (r.status = "absent" \/ Terminal(r))
        \/ /\ pc'[w] = "giveup" /\ r.attempts + 1 > MaxAttempts
           /\ copy'[w] = NextAttempt(r)
        \/ pc'[w] = "running"
    BY <1>0, <1>5 DEF GetRecord, Goto, TypeOK
  <2>3. pc'[w] = "acklrem" => ~Owed(cur[w])
    BY <2>2 DEF Owed, Terminal, Outcomes
  <2>4. r.attempts + 1 > MaxAttempts => NextAttempt(r).status = "failed"
    BY <2>1 DEF NextAttempt, Record
  <2>5. pc'[w] = "giveup" => copy'[w].status = "failed" BY <2>2, <2>4
  <2>6. TurnInv'
    BY <1>1, <1>2, <2>1, <2>2
    DEF OwedInv, TurnInv, Looking, Marking, Entered, Holding, Waiting
  <2>7. thread[w] \notin {"alive", "decided", "done"}
    BY <1>0, <2>1 DEF Busy, Holding
  <2>8. QED BY <2>1, <2>2, <2>3, <2>5, <2>6, <2>7, OwedFrame
<1>6. CASE SaveGivenUp(w) \/ SaveRunning(w)
  <2>1. /\ pc[w] \in {"giveup", "running"} /\ cur[w] \in Jobs
        /\ Save(cur[w], copy[w])
        /\ UNCHANGED <<pending, inflight, acc, poll, scan, taken, cur, copy>>
    BY <1>0, <1>6 DEF SaveGivenUp, SaveRunning, queueVars, Busy, AtJob, Holding
  <2>2. \/ pc[w] = "giveup" /\ pc'[w] = "acklrem" /\ UNCHANGED thread
        \/ pc'[w] = "build" /\ thread'[w] = "alive"
    BY <1>0, <1>6 DEF SaveGivenUp, SaveRunning, Goto, TypeOK
  <2>3. TurnInv'
    BY <1>1, <1>2, <2>1, <2>2
    DEF OwedInv, TurnInv, Looking, Marking, Entered, Holding, Waiting
  <2>4. pc'[w] = "acklrem" => ~Owed(cur[w])'
    BY <1>0, <2>1, <2>2 DEF OwedInv, EndInv, Owed, Save, TypeOK
  <2>5. EndInv'
    BY <1>0, <1>1, <2>1, <2>2, <2>4 DEF OwedInv, EndInv, Attempting, Owed
  <2>6. Kept(cur[w]) BY <2>1 DEF OwedInv, TurnInv, Entered, Holding, Kept
  <2>7. QED BY <2>1, <2>3, <2>5, <2>6, OwedSave
<1>7. CASE AckRemove(w)
  <2>1. /\ pc[w] = "acklrem" /\ pc'[w] = "ackdel" /\ cur[w] \in Jobs
        /\ UNCHANGED <<pending, rec, acc, poll, scan, taken, cur, copy, thread>>
        /\ inflight' = [inflight EXCEPT ![cur[w]] = 0]
    BY <1>0, <1>7 DEF AckRemove, Goto, TypeOK, Busy, AtJob, Holding
  <2>2. ~Owed(cur[w]) BY <2>1 DEF OwedInv, EndInv
  <2>3. \A j : Owed(j)' <=> Owed(j) BY <2>1 DEF Owed
  <2>4. TurnInv'
    BY <1>1, <1>2, <2>1 DEF OwedInv, TurnInv, Looking, Marking, Entered, Holding
  <2>5. EndInv' BY <1>1, <2>1, <2>2 DEF OwedInv, EndInv, Owed, Attempting
  <2>6. \A j \in Jobs : Owed(j) /\ Kept(j) => Kept(j)'
    BY <1>0, <1>1, <2>1, <2>2 DEF Kept, Waiting, TypeOK
  <2>7. QED BY <2>3, <2>4, <2>5, <2>6 DEF OwedInv
<1>8. CASE AckDelete(w)
  BY <1>8, OwedForget DEF AckDelete
<1>9. QED BY <1>3, <1>4, <1>5, <1>6, <1>7, <1>8

LEMMA BuildOwedInv ==
  ASSUME Alone, "lpush" \notin FaultAt, OwedInv, PlacesInv', NEW w \in Workers,
         \/ RenewGet(w) \/ RenewExpire(w) \/ SaveBeat(w) \/ SaveResult(w)
         \/ ThreadStep(w) \/ Crash(w) \/ RedisError(w)
  PROVE  OwedInv'
<1>0. TypeOK /\ Busy /\ Known BY DEF OwedInv, PlacesInv, TypeInv
<1>1. \A v \in Workers : v = w BY DEF Alone
<1>2. pc[w] \notin Marking => scan[w] = {} /\ taken[w] = {}
  BY DEF OwedInv, TurnInv, Marking
<1>3. CASE RenewGet(w) \/ RenewExpire(w)
  <2>1. /\ pc[w] \in {"build", "beat", "last"}
        /\ UNCHANGED <<pending, inflight, rec, acc, poll>>
    BY <1>3 DEF RenewGet, RenewExpire, queueVars
  <2>2. CASE Forget(w) BY <2>1, <2>2, OwedForget
  <2>3. CASE ~Forget(w)
    <3>1. /\ pc'[w] \in {"last", "beat", "saveresult", "savebeat"}
          /\ pc'[w] = "last" => thread[w] = "done"
          /\ pc'[w] = "saveresult" => pc[w] = "last"
          /\ UNCHANGED <<cur, copy, scan, taken, thread>>
      BY <1>0, <1>3, <2>3 DEF RenewGet, RenewExpire, Goto, TypeOK
    <3>2. TurnInv'
      BY <1>1, <1>2, <2>1, <3>1
      DEF OwedInv, TurnInv, Looking, Marking, Entered, Holding, Waiting
    <3>3. thread[w] \in {"decided", "done"} => copy[w].status \in Outcomes
      BY DEF OwedInv, EndInv
    <3>4. pc[w] = "last" => thread[w] = "done" BY DEF OwedInv, EndInv
    <3>5. QED BY <2>1, <3>1, <3>2, <3>3, <3>4, OwedFrame DEF Attempting
  <2>4. QED BY <2>2, <2>3
<1>4. CASE SaveBeat(w) \/ SaveResult(w)
  <2>1. /\ pc[w] \in {"savebeat", "saveresult"} /\ cur[w] \in Jobs
        /\ Save(cur[w], copy[w])
        /\ UNCHANGED <<pending, inflight, acc, poll, scan, taken, cur, copy, thread>>
    BY <1>0, <1>4 DEF SaveBeat, SaveResult, queueVars, Busy, AtJob, Holding
  <2>2. \/ pc'[w] = "build"
        \/ pc[w] = "saveresult" /\ pc'[w] = "acklrem"
    BY <1>0, <1>4 DEF SaveBeat, SaveResult, Goto, TypeOK
  <2>3. TurnInv'
    BY <1>1, <1>2, <2>1, <2>2
    DEF OwedInv, TurnInv, Looking, Marking, Entered, Holding, Waiting
  <2>4. pc[w] = "saveresult" => copy[w].status \in Outcomes /\ thread[w] = "done"
    BY DEF OwedInv, EndInv
  <2>5. pc'[w] = "acklrem" => ~Owed(cur[w])'
    BY <1>0, <2>1, <2>2, <2>4 DEF Owed, Save, TypeOK, Outcomes
  <2>6. EndInv'
    BY <1>0, <1>1, <2>1, <2>2, <2>4, <2>5 DEF OwedInv, EndInv, Attempting, Owed
  <2>7. Kept(cur[w]) BY <2>1 DEF OwedInv, TurnInv, Entered, Holding, Kept
  <2>8. QED BY <2>1, <2>3, <2>6, <2>7, OwedSave
<1>5. CASE ThreadStep(w)
  <2>1. /\ thread[w] \in {"alive", "decided"}
        /\ UNCHANGED <<pending, inflight, rec, acc, poll, pc, cur, scan, taken>>
        /\ thread'[w] = IF thread[w] = "alive" THEN "decided" ELSE "done"
    BY <1>0, <1>5 DEF ThreadStep, ThreadDecides, ThreadEnds, queueVars, TypeOK
  <2>2. pc[w] \in Attempting /\ pc[w] \notin {"last", "saveresult"}
    BY <2>1 DEF OwedInv, EndInv
  <2>3. copy'[w].status \in Outcomes
    <3>1. \/ UNCHANGED copy /\ thread[w] = "decided"
          \/ \E s \in Outcomes : copy' = [copy EXCEPT ![w] = [copy[w] EXCEPT !.status = s]]
      BY <1>5 DEF ThreadStep, ThreadDecides, ThreadEnds, Conclude, Outcomes
    <3>2. \A s \in Outcomes : [copy[w] EXCEPT !.status = s].status = s
      BY <1>0 DEF TypeOK, Record
    <3>3. thread[w] = "decided" => copy[w].status \in Outcomes
      BY DEF OwedInv, EndInv
    <3>4. QED BY <1>0, <3>1, <3>2, <3>3 DEF TypeOK
  <2>4. TurnInv' BY <2>1 DEF OwedInv, TurnInv, Waiting
  <2>5. QED BY <2>1, <2>2, <2>3, <2>4, OwedFrame DEF Attempting
<1>6. CASE Crash(w) \/ RedisError(w)
  <2>1. pc[w] # "lpush"
    BY <1>6 DEF Crash, RedisError, Point, Holding
  <2>2. UNCHANGED <<pending, inflight, rec, acc, poll>> /\ Forget(w)
    BY <1>6 DEF Crash, RedisError, queueVars
  <2>3. QED BY <2>1, <2>2, OwedForget
<1>7. QED BY <1>3, <1>4, <1>5, <1>6

LEMMA NextOwedInv ==
  ASSUME Alone, "lpush" \notin FaultAt
  PROVE  OwedInv /\ [Next]_vars => OwedInv'
<1> SUFFICES ASSUME OwedInv, [Next]_vars PROVE OwedInv'
  OBVIOUS
<1>1. PlacesInv' BY NextPlacesInv DEF OwedInv
<1>2. CASE Next
  BY <1>1, <1>2, JobStepOwedInv, ReaperOwedInv, TurnOwedInv, BuildOwedInv
     DEF Next, TurnStep
<1>3. CASE UNCHANGED vars
  BY <1>1, <1>3 DEF vars, queueVars, workerVars, OwedInv, TurnInv, EndInv, Owed,
                    Kept, Waiting
<1>4. QED BY <1>2, <1>3

LEMMA OwedIsKept == OwedInv => NeverLost
<1> SUFFICES ASSUME OwedInv, NEW j \in Jobs, Owed(j), Orphan(j) PROVE FALSE
  BY DEF NeverLost, Owed
<1>1. Kept(j) BY DEF OwedInv
<1>2. QED BY <1>1 DEF Kept, Orphan

\* With one worker a build that is owed stays in the queue or in the worker's
\* hands, wherever faults strike but between LREM and LPUSH of a requeue.
THEOREM OwedNeverLost ==
  ASSUME Alone, "lpush" \notin FaultAt
  PROVE  Spec => []NeverLost
<1>1. OwedInv /\ [Next]_vars => OwedInv' BY NextOwedInv
<1>2. QED BY <1>1, InitOwedInv, OwedIsKept, PTL DEF Spec
-----------------------------------------------------------------------------
(* AttemptsBounded.                                                         *)

LEMMA InitCountInv == FaultLimit["age"] = 0 => (Init => CountInv)
  BY InitPlacesInv, ConstantsAssumption
  DEF Init, CountInv, NoRec, HasCopy, AttemptsBounded

\* Nobody comes back to a job that nobody knows.
LEMMA OrphanStays ==
  ASSUME PlacesInv, PlacesInv', [Next]_vars, NEW j \in Jobs, acc[j] = "queued", Orphan(j)
  PROVE  Orphan(j)' /\ acc'[j] = "queued"
<1>0. TypeOK /\ Busy /\ TypeOK' BY DEF PlacesInv, TypeInv
<1>1. CASE \E i \in Jobs :
             \/ Settle(i) \/ AcceptNext(i) \/ AcceptDies(i)
             \/ PollRead(i) \/ PollSave(i)
             \/ LeaseLapses(i) \/ Age(i) \/ RecordExpires(i)
  <2>1. PICK i \in Jobs : \/ Settle(i) \/ AcceptNext(i) \/ AcceptDies(i)
                         \/ PollRead(i) \/ PollSave(i)
                         \/ LeaseLapses(i) \/ Age(i) \/ RecordExpires(i)
    BY <1>1
  <2>2. UNCHANGED <<workerVars, inflight>>
    BY <2>1 DEF Settle, AcceptNext, Create, SavePaid, Push, AcceptDies, PollRead,
         PollSave, LeaseLapses, Age, RecordExpires, queueVars
  <2>3. CASE Push(i)
    <3>1. acc[i] = "saved" /\ acc' = [acc EXCEPT ![i] = "queued"]
      BY <2>3 DEF Push, AcceptStep
    <3>2. Waiting' = Waiting \cup {i} BY <1>0, <2>3, WaitingGrows DEF Push
    <3>3. QED BY <1>0, <2>2, <3>1, <3>2 DEF Orphan, workerVars, TypeOK
  <2>4. CASE ~Push(i)
    <3>1. UNCHANGED pending
      BY <2>1, <2>4 DEF Settle, AcceptNext, Create, SavePaid, AcceptDies, PollRead,
         PollSave, LeaseLapses, Age, RecordExpires, queueVars
    <3>2. acc'[j] = "queued"
      BY <1>0, <2>1 DEF Settle, AcceptNext, Create, SavePaid, Push, AcceptDies,
         PollRead, PollSave, LeaseLapses, Age, RecordExpires, AcceptStep, TypeOK
    <3>3. QED BY <2>2, <3>1, <3>2 DEF Orphan, Waiting, workerVars
  <2>5. QED BY <2>3, <2>4
<1>2. CASE \E w \in Workers : \/ StartScan(w) \/ TurnStep(w) \/ ThreadStep(w)
                             \/ Crash(w) \/ RedisError(w)
  <2>1. PICK w \in Workers : \/ StartScan(w) \/ TurnStep(w) \/ ThreadStep(w)
                            \/ Crash(w) \/ RedisError(w)
    BY <1>2
  <2>2. UNCHANGED acc
    BY <2>1 DEF StartScan, TurnStep, ThreadStep, Crash, RedisError, CheckLease,
       TakeBack, PushBack, MarkGet, MarkSave, Reserve, TakeLease, GetRecord,
       SaveGivenUp, SaveRunning, RenewGet, RenewExpire, SaveBeat, SaveResult,
       AckRemove, AckDelete, ThreadDecides, ThreadEnds, queueVars
  <2>3. CASE StartScan(w) \/ CheckLease(w) \/ MarkGet(w)
    <3>1. UNCHANGED <<pending, inflight>>
      BY <2>3 DEF StartScan, CheckLease, MarkGet, queueVars
    <3>2. \A v \in Workers : cur'[v] # j /\ j \notin scan'[v] /\ j \notin taken'[v]
      <4>1. CASE StartScan(w)
        BY <1>0, <4>1 DEF StartScan, InFlight, Orphan, TypeOK
      <4>2. CASE CheckLease(w)
        BY <1>0, <4>2 DEF CheckLease, Orphan, TypeOK
      <4>3. CASE MarkGet(w)
        BY <1>0, <4>3 DEF MarkGet, Orphan, TypeOK
      <4>4. QED BY <2>3, <4>1, <4>2, <4>3
    <3>3. QED BY <2>2, <3>1, <3>2 DEF Orphan, Waiting
  <2>4. CASE TakeBack(w)
    <3>1. UNCHANGED <<pending, scan, taken>> /\ inflight'[j] = 0
      BY <1>0, <2>4 DEF TakeBack, Orphan, TypeOK
    <3>2. \A v \in Workers : cur'[v] # j
      BY <1>0, <2>4, ConstantsAssumption DEF TakeBack, Orphan, TypeOK
    <3>3. QED BY <2>2, <3>1, <3>2 DEF Orphan, Waiting
  <2>5. CASE PushBack(w)
    <3>1. cur[w] \in Jobs /\ cur[w] # j
      BY <1>0, <2>5 DEF PushBack, Busy, AtJob, Orphan
    <3>2. Waiting' = Waiting \cup {cur[w]}
      BY <1>0, <2>5, <3>1, WaitingGrows DEF PushBack
    <3>3. UNCHANGED <<inflight, scan>> /\ \A v \in Workers : cur'[v] # j /\ j \notin taken'[v]
      BY <1>0, <2>5, <3>1, ConstantsAssumption DEF PushBack, Orphan, TypeOK
    <3>4. QED BY <2>2, <3>1, <3>2, <3>3 DEF Orphan
  <2>6. CASE Reserve(w)
    <3>1. UNCHANGED <<scan, taken>> BY <2>6 DEF Reserve
    <3>2. CASE pending = <<>>
      BY <2>2, <2>6, <3>1, <3>2 DEF Reserve, Orphan, Waiting
    <3>3. CASE pending # <<>>
      <4>1. /\ Head(pending) \in Waiting /\ Waiting' \subseteq Waiting
            /\ inflight' = [inflight EXCEPT ![Head(pending)] = @ + 1]
            /\ cur' = [cur EXCEPT ![w] = Head(pending)]
        BY <1>0, <2>6, <3>3, WaitingShrinks DEF Reserve
      <4>2. Head(pending) # j BY <4>1 DEF Orphan
      <4> DEFINE h == Head(pending)
      <4> HIDE DEF h
      <4>3. inflight'[j] = inflight[j] /\ \A v \in Workers : cur'[v] # j
        BY <1>0, <4>1, <4>2 DEF Orphan, TypeOK, h
      <4>4. QED BY <2>2, <3>1, <4>1, <4>3 DEF Orphan
    <3>4. QED BY <3>2, <3>3
  <2>7. CASE AckRemove(w)
    <3>1. UNCHANGED <<pending, cur, scan, taken>> /\ inflight'[j] = 0
      BY <1>0, <2>7 DEF AckRemove, Orphan, TypeOK
    <3>2. QED BY <2>2, <3>1 DEF Orphan, Waiting
  <2>8. CASE \/ MarkSave(w) \/ AckDelete(w) \/ Crash(w) \/ RedisError(w)
             \/ RenewGet(w) \/ RenewExpire(w)
    <3>1. UNCHANGED <<pending, inflight>>
      BY <2>8 DEF MarkSave, AckDelete, Crash, RedisError, RenewGet, RenewExpire, queueVars
    <3>2. \A v \in Workers : cur'[v] # j /\ j \notin scan'[v] /\ j \notin taken'[v]
      <4>1. NoJob # j BY ConstantsAssumption
      <4>2. CASE Forget(w) BY <1>0, <4>1, <4>2 DEF Forget, Orphan, TypeOK
      <4>3. CASE MarkSave(w) BY <1>0, <4>1, <4>3 DEF MarkSave, Orphan, TypeOK
      <4>4. CASE UNCHANGED <<cur, scan, taken>> BY <4>4 DEF Orphan
      <4>5. QED BY <2>8, <4>2, <4>3, <4>4
                DEF AckDelete, Crash, RedisError, RenewGet, RenewExpire
    <3>3. QED BY <2>2, <3>1, <3>2 DEF Orphan, Waiting
  <2>9. CASE \/ TakeLease(w) \/ GetRecord(w) \/ SaveGivenUp(w) \/ SaveRunning(w)
             \/ SaveBeat(w) \/ SaveResult(w) \/ ThreadStep(w)
    <3>1. UNCHANGED <<pending, inflight, cur, scan, taken>>
      BY <2>9 DEF TakeLease, GetRecord, SaveGivenUp, SaveRunning, SaveBeat,
         SaveResult, ThreadStep, ThreadDecides, ThreadEnds, queueVars
    <3>2. QED BY <2>2, <3>1 DEF Orphan, Waiting
  <2>10. QED
    BY <2>1, <2>3, <2>4, <2>5, <2>6, <2>7, <2>8, <2>9 DEF TurnStep
<1>3. CASE UNCHANGED vars
  BY <1>3 DEF vars, queueVars, workerVars, Orphan, Waiting
<1>4. QED BY <1>1, <1>2, <1>3 DEF Next

LEMMA JobStepCountInv ==
  ASSUME CountInv, PlacesInv', [Next]_vars, NEW j \in Jobs,
         \/ Settle(j) \/ AcceptNext(j) \/ AcceptDies(j)
         \/ PollRead(j) \/ PollSave(j)
         \/ LeaseLapses(j) \/ Age(j) \/ RecordExpires(j)
  PROVE  CountInv'
<1>0. TypeOK /\ PlacesInv BY DEF CountInv, PlacesInv, TypeInv
<1>1. UNCHANGED <<workerVars, starts>>
  BY DEF Settle, AcceptNext, Create, SavePaid, Push, AcceptDies, PollRead,
         PollSave, LeaseLapses, Age, RecordExpires, history
<1>2. Age(j) => Orphan(j) BY DEF CountInv, Age, Spend
<1>3. left'["age"] = 0
  <2>1. UNCHANGED left \/ Spend("crash") \/ Spend("stall") \/ Spend("expire")
    BY <1>2 DEF Settle, AcceptNext, Create, SavePaid, Push, AcceptDies, PollRead,
       PollSave, LeaseLapses, Age, RecordExpires
  <2>2. QED BY <1>0, <2>1 DEF CountInv, Spend, TypeOK, FaultKinds
<1>4. CASE Settle(j) \/ Push(j) \/ AcceptDies(j) \/ LeaseLapses(j)
  <2>1. UNCHANGED <<rec, poll>>
    BY <1>4 DEF Settle, Push, AcceptDies, LeaseLapses
  <2>2. \A i \in Jobs : acc'[i] # "queued" => acc[i] # "queued"
    BY <1>0, <1>4 DEF Settle, Push, AcceptDies, LeaseLapses, AcceptStep, TypeOK
  <2>3. \A i \in Jobs : ~rec[i].fresh \/ poll[i] # NoRec => acc'[i] = "queued" /\ Orphan(i)'
    BY <1>0, OrphanStays DEF CountInv
  <2>4. QED BY <1>1, <1>3, <2>1, <2>2, <2>3 DEF CountInv, AttemptsBounded, workerVars
<1>5. CASE Create(j) \/ SavePaid(j)
  <2>1. /\ UNCHANGED poll /\ acc[j] # "queued"
        /\ \E s \in Stages : acc' = [acc EXCEPT ![j] = s]
    BY <1>5 DEF Create, SavePaid, AcceptStep, Stages
  <2>2. /\ rec'[j].attempts = 0 /\ rec'[j].fresh
        /\ \A i \in Jobs \ {j} : rec'[i] = rec[i]
    BY <1>0, <1>5 DEF Create, SavePaid, Save, TypeOK, NoRec
  <2>3. starts[j] = 0 /\ poll[j] = NoRec BY <2>1 DEF CountInv
  <2>4. \A i \in Jobs : ~rec'[i].fresh \/ poll[i] # NoRec => acc'[i] = "queued" /\ Orphan(i)'
    BY <1>0, <2>2, <2>3, OrphanStays DEF CountInv
  <2>5. \A i \in Jobs : acc'[i] # "queued" => starts[i] = 0 /\ poll[i] = NoRec
    BY <1>0, <2>1, <2>3 DEF CountInv, TypeOK
  <2>6. \A i \in Jobs : rec'[i].status # "absent" => starts[i] <= rec'[i].attempts
    BY <2>2, <2>3 DEF CountInv
  <2>7. QED BY <1>1, <1>3, <2>1, <2>4, <2>5, <2>6 DEF CountInv, AttemptsBounded, workerVars
<1>6. CASE PollRead(j)
  <2>1. /\ UNCHANGED <<rec, acc>> /\ acc[j] = "queued" /\ ~rec[j].fresh
        /\ rec[j].status # "absent"
        /\ poll' = [poll EXCEPT ![j] = [rec[j] EXCEPT !.status = "failed"]]
    BY <1>6 DEF PollRead
  <2>2. [rec[j] EXCEPT !.status = "failed"].attempts = rec[j].attempts
    BY <1>0 DEF TypeOK, Record
  <2>3. \A i \in Jobs : ~rec[i].fresh \/ poll'[i] # NoRec => acc'[i] = "queued" /\ Orphan(i)'
    BY <1>0, <2>1, OrphanStays DEF CountInv, TypeOK
  <2>4. \A i \in Jobs : poll'[i] # NoRec => starts[i] <= poll'[i].attempts
    BY <1>0, <2>1, <2>2 DEF CountInv, TypeOK
  <2>5. \A i \in Jobs : acc[i] # "queued" => starts[i] = 0 /\ poll'[i] = NoRec
    BY <1>0, <2>1 DEF CountInv, TypeOK
  <2>6. QED BY <1>1, <1>3, <2>1, <2>3, <2>4, <2>5 DEF CountInv, AttemptsBounded, workerVars
<1>7. CASE PollSave(j)
  <2>1. /\ UNCHANGED acc /\ poll[j] # NoRec /\ rec' = [rec EXCEPT ![j] = poll[j]]
        /\ poll' = [poll EXCEPT ![j] = NoRec]
    BY <1>7 DEF PollSave, Save
  <2>2. \A i \in Jobs : ~rec'[i].fresh \/ poll'[i] # NoRec => acc'[i] = "queued" /\ Orphan(i)'
    BY <1>0, <2>1, OrphanStays DEF CountInv, TypeOK
  <2>3. \A i \in Jobs : rec'[i].status # "absent" => starts[i] <= rec'[i].attempts
    BY <1>0, <2>1 DEF CountInv, TypeOK
  <2>4. \A i \in Jobs : poll'[i] = poll[i] \/ poll'[i] = NoRec
    BY <1>0, <2>1 DEF TypeOK
  <2>5. QED BY <1>1, <1>3, <2>1, <2>2, <2>3, <2>4 DEF CountInv, AttemptsBounded, workerVars
<1>8. CASE Age(j) \/ RecordExpires(j)
  <2>1. /\ UNCHANGED <<acc, poll>>
        /\ \A i \in Jobs \ {j} : rec'[i] = rec[i]
        /\ \/ rec'[j] = NoRec
           \/ rec'[j].attempts = rec[j].attempts /\ rec[j].status # "absent" /\ Age(j)
    BY <1>0, <1>8 DEF Age, RecordExpires, Save, TypeOK, Record
  <2>2. NoRec.fresh /\ NoRec.status = "absent" BY DEF NoRec
  <2>3. Age(j) => acc[j] = "queued" /\ Orphan(j) BY <1>2 DEF Age
  <2>4. \A i \in Jobs : ~rec'[i].fresh \/ poll[i] # NoRec => acc'[i] = "queued" /\ Orphan(i)'
    BY <1>0, <2>1, <2>2, <2>3, OrphanStays DEF CountInv
  <2>5. \A i \in Jobs : rec'[i].status # "absent" => starts[i] <= rec'[i].attempts
    BY <2>1, <2>2 DEF CountInv
  <2>6. QED BY <1>1, <1>3, <2>1, <2>4, <2>5 DEF CountInv, AttemptsBounded, workerVars
<1>9. QED BY <1>4, <1>5, <1>6, <1>7, <1>8 DEF AcceptNext

\* A worker step that starts no build: what it writes is what it had, and
\* what it will write knows of every build.
LEMMA CountStep ==
  ASSUME Alone, CountInv, PlacesInv', [Next]_vars, NEW w \in Workers,
         UNCHANGED <<acc, poll, starts>>,
         UNCHANGED left \/ Spend("overlap") \/ Spend("crash") \/ Spend("error"),
         UNCHANGED rec \/ (Save(cur[w], copy[w]) /\ pc[w] \in HasCopy),
         copy'[w].fresh,
         pc'[w] \in HasCopy \ {"running"} => starts[cur'[w]] <= copy'[w].attempts,
         pc'[w] = "running" =>
           starts[cur'[w]] < copy'[w].attempts /\ copy'[w].attempts <= MaxAttempts
  PROVE  CountInv'
<1>0. TypeOK /\ Busy /\ PlacesInv BY DEF CountInv, PlacesInv, TypeInv
<1>1. \A v \in Workers : v = w BY DEF Alone
<1>2. left'["age"] = 0 BY <1>0 DEF CountInv, Spend, TypeOK, FaultKinds
<1>3. \A i \in Jobs :
        rec'[i] = rec[i] \/ (i = cur[w] /\ rec'[i] = copy[w] /\ pc[w] \in HasCopy)
  BY <1>0 DEF Save, TypeOK
<1>4. copy[w].fresh BY DEF CountInv
<1>5. \A i \in Jobs : ~rec'[i].fresh \/ poll[i] # NoRec => acc'[i] = "queued" /\ Orphan(i)'
  BY <1>0, <1>3, <1>4, OrphanStays DEF CountInv
<1>6. pc[w] \in HasCopy => cur[w] \in Jobs /\ starts[cur[w]] <= copy[w].attempts
  <2>1. pc[w] \in HasCopy => cur[w] \in Jobs BY <1>0 DEF Busy, HasCopy, AtJob, Holding
  <2>2. starts \in [Jobs -> Nat] /\ copy[w].attempts \in Nat BY <1>0 DEF TypeOK, Record
  <2>3. QED BY <2>1, <2>2 DEF CountInv
<1>7. \A i \in Jobs : rec'[i].status # "absent" => starts[i] <= rec'[i].attempts
  BY <1>3, <1>6 DEF CountInv
<1>8. QED BY <1>1, <1>2, <1>5, <1>7 DEF CountInv, AttemptsBounded

LEMMA WorkerStepCountInv ==
  ASSUME Alone, CountInv, PlacesInv', [Next]_vars, NEW w \in Workers,
         \/ StartScan(w) \/ TurnStep(w) \/ ThreadStep(w)
         \/ Crash(w) \/ RedisError(w)
  PROVE  CountInv'
<1>0. TypeOK /\ Busy /\ PlacesInv BY DEF CountInv, PlacesInv, TypeInv
<1>1. copy[w].fresh BY DEF CountInv
<1>2. CASE StartScan(w) \/ CheckLease(w) \/ TakeBack(w) \/ PushBack(w)
  <2>1. /\ UNCHANGED <<rec, acc, poll, copy, starts>>
        /\ UNCHANGED left \/ Spend("overlap")
    BY <1>2 DEF StartScan, CheckLease, TakeBack, PushBack, history
  <2>2. pc'[w] \notin HasCopy
    BY <1>0, <1>2 DEF StartScan, CheckLease, TakeBack, PushBack, Continue, Goto,
                      TypeOK, HasCopy
  <2>3. QED BY <1>1, <2>1, <2>2, CountStep DEF HasCopy
<1>3. CASE Reserve(w) \/ TakeLease(w) \/ AckRemove(w)
  <2>1. UNCHANGED <<rec, acc, poll, copy, starts, left>>
    BY <1>3 DEF Reserve, TakeLease, AckRemove, history
  <2>2. pc'[w] \notin HasCopy
    BY <1>0, <1>3 DEF Reserve, TakeLease, AckRemove, Goto, TypeOK, HasCopy
  <2>3. QED BY <1>1, <2>1, <2>2, CountStep DEF HasCopy
<1>4. CASE MarkGet(w)
  <2>1. UNCHANGED <<rec, acc, poll, starts, left>> BY <1>4 DEF MarkGet, history
  <2>2. PICK i \in taken[w] :
          \/ Continue(w, {}, taken[w] \ {i}) /\ UNCHANGED copy
          \/ /\ rec[i].status # "absent" /\ Goto(w, "marksave")
             /\ cur' = [cur EXCEPT ![w] = i]
             /\ copy' = [copy EXCEPT ![w] =
                  [rec[i] EXCEPT !.status = "queued", !.fresh = TRUE]]
    BY <1>4 DEF MarkGet
  <2>3. i \in Jobs BY <1>0 DEF TypeOK
  <2>4. LET r == [rec[i] EXCEPT !.status = "queued", !.fresh = TRUE]
        IN  r.fresh /\ r.attempts = rec[i].attempts
    BY <1>0, <2>3 DEF TypeOK, Record
  <2>5. rec[i].status # "absent" => starts[i] <= rec[i].attempts
    BY <2>3 DEF CountInv
  <2>6. \/ pc'[w] \notin HasCopy /\ UNCHANGED copy
        \/ pc'[w] = "marksave" /\ copy'[w].fresh /\ starts[cur'[w]] <= copy'[w].attempts
    BY <1>0, <2>2, <2>4, <2>5 DEF Continue, Goto, TypeOK, HasCopy
  <2>7. QED BY <1>1, <2>1, <2>6, CountStep DEF HasCopy
<1>5. CASE MarkSave(w)
  <2>1. /\ UNCHANGED <<acc, poll, starts, left>> /\ pc[w] = "marksave"
        /\ Save(cur[w], copy[w])
    BY <1>5 DEF MarkSave, history
  <2>2. pc'[w] \notin HasCopy /\ copy'[w].fresh
    BY <1>0, <1>5 DEF MarkSave, Continue, Goto, TypeOK, HasCopy, NoRec
  <2>3. QED BY <2>1, <2>2, CountStep DEF HasCopy
<1>6. CASE GetRecord(w)
  <2> DEFINE r == rec[cur[w]]
  <2>1. /\ UNCHANGED <<rec, acc, poll, cur, starts, left>> /\ pc[w] = "get"
        /\ cur[w] \in Jobs /\ r \in Record
    BY <1>0, <1>6 DEF GetRecord, Busy, AtJob, Holding, TypeOK
  <2>2. \/ pc'[w] = "acklrem" /\ UNCHANGED copy
        \/ /\ r.status # "absent" /\ copy'[w] = NextAttempt(r)
           /\ pc'[w] \in {"giveup", "running"}
           /\ pc'[w] = "running" => r.attempts + 1 <= MaxAttempts
    <3>1. r.attempts \in Nat /\ MaxAttempts \in Nat BY <2>1, ConstantsAssumption DEF Record
    <3>2. QED BY <1>0, <1>6, <3>1 DEF GetRecord, Goto, TypeOK
  <2>3. NextAttempt(r).attempts = r.attempts + 1 /\ NextAttempt(r).fresh
    BY <2>1 DEF NextAttempt, Record
  <2>4. r.status # "absent" => starts[cur[w]] <= r.attempts BY <2>1 DEF CountInv
  <2>5. starts[cur[w]] \in Nat /\ r.attempts \in Nat BY <1>0, <2>1 DEF TypeOK, Record
  <2>6. QED BY <1>1, <2>1, <2>2, <2>3, <2>4, <2>5, CountStep DEF HasCopy
<1>7. CASE SaveGivenUp(w) \/ SaveBeat(w) \/ SaveResult(w)
  <2>1. /\ UNCHANGED <<acc, poll, cur, copy, starts, left>>
        /\ pc[w] \in {"giveup", "savebeat", "saveresult"} /\ Save(cur[w], copy[w])
    BY <1>7 DEF SaveGivenUp, SaveBeat, SaveResult, history
  <2>2. pc'[w] \in {"acklrem", "build"}
    BY <1>0, <1>7 DEF SaveGivenUp, SaveBeat, SaveResult, Goto, TypeOK
  <2>3. starts[cur[w]] <= copy[w].attempts BY <2>1 DEF CountInv, HasCopy
  <2>4. QED BY <1>1, <2>1, <2>2, <2>3, CountStep DEF HasCopy
<1>8. CASE SaveRunning(w)
  <2>1. /\ UNCHANGED <<acc, poll, cur, copy, left>> /\ pc[w] = "running"
        /\ rec' = [rec EXCEPT ![cur[w]] = copy[w]]
        /\ starts' = [starts EXCEPT ![cur[w]] = @ + 1]
        /\ cur[w] \in Jobs
    BY <1>0, <1>8 DEF SaveRunning, Save, Busy, AtJob, Holding
  <2>2. pc'[w] = "build" BY <1>0, <1>8 DEF SaveRunning, Goto, TypeOK
  <2>3. starts[cur[w]] < copy[w].attempts /\ copy[w].attempts <= MaxAttempts
    BY <2>1 DEF CountInv
  <2>4. /\ starts[cur[w]] \in Nat /\ copy[w].attempts \in Nat /\ MaxAttempts \in Nat
    BY <1>0, <2>1, ConstantsAssumption DEF TypeOK, Record
  <2>5. /\ starts'[cur[w]] <= copy[w].attempts /\ starts'[cur[w]] <= MaxAttempts
        /\ \A i \in Jobs \ {cur[w]} : starts'[i] = starts[i] /\ rec'[i] = rec[i]
        /\ rec'[cur[w]] = copy[w]
    BY <1>0, <2>1, <2>3, <2>4 DEF TypeOK
  <2>6. ~Orphan(cur[w]) BY DEF Orphan
  <2>7. poll[cur[w]] = NoRec /\ acc[cur[w]] = "queued"
    BY <1>0, <2>1, <2>6 DEF CountInv, PlacesInv, Known
  <2>8. \A i \in Jobs : ~rec'[i].fresh \/ poll[i] # NoRec => acc'[i] = "queued" /\ Orphan(i)'
    BY <1>0, <1>1, <2>5, <2>7, OrphanStays DEF CountInv
  <2>9. \A v \in Workers : v = w BY DEF Alone
  <2>10. /\ \A i \in Jobs : acc'[i] # "queued" => starts'[i] = 0 /\ poll'[i] = NoRec
         /\ \A i \in Jobs : rec'[i].status # "absent" => starts'[i] <= rec'[i].attempts
         /\ \A i \in Jobs : poll'[i] # NoRec => starts'[i] <= poll'[i].attempts
    BY <2>1, <2>5, <2>7 DEF CountInv
  <2>11. AttemptsBounded' BY <2>5 DEF CountInv, AttemptsBounded
  <2>12. QED BY <1>1, <2>1, <2>2, <2>5, <2>8, <2>9, <2>10, <2>11 DEF CountInv
<1>9. CASE ThreadStep(w)
  <2>1. /\ UNCHANGED <<rec, acc, poll, pc, cur, starts>>
        /\ UNCHANGED left \/ Spend("error")
        /\ thread[w] \in {"alive", "decided"}
    BY <1>9 DEF ThreadStep, ThreadDecides, ThreadEnds
  <2>2. \/ UNCHANGED copy
        \/ \E s \in Outcomes : copy' = [copy EXCEPT ![w] = [copy[w] EXCEPT !.status = s]]
    BY <1>9 DEF ThreadStep, ThreadDecides, ThreadEnds, Conclude, Outcomes
  <2>3. \A s \in Outcomes : LET c == [copy[w] EXCEPT !.status = s]
                            IN  c.fresh = copy[w].fresh /\ c.attempts = copy[w].attempts
    BY <1>0 DEF TypeOK, Record
  <2>4. copy'[w].fresh /\ copy'[w].attempts = copy[w].attempts
    BY <1>0, <1>1, <2>2, <2>3 DEF TypeOK
  <2>5. /\ pc[w] \in HasCopy \ {"running"} => starts[cur[w]] <= copy[w].attempts
        /\ pc[w] = "running" =>
             starts[cur[w]] < copy[w].attempts /\ copy[w].attempts <= MaxAttempts
    BY DEF CountInv
  <2>6. QED BY <2>1, <2>4, <2>5, CountStep
<1>10. CASE /\ Forget(w) /\ UNCHANGED <<rec, acc, poll, starts>>
            /\ UNCHANGED left \/ Spend("crash") \/ Spend("error")
  <2>1. pc'[w] = "idle" /\ copy'[w] = NoRec /\ NoRec.fresh
    BY <1>0, <1>10 DEF Forget, Goto, TypeOK, NoRec
  <2>2. QED BY <1>10, <2>1, CountStep DEF HasCopy
<1>11. CASE RenewGet(w) \/ RenewExpire(w)
  <2>1. /\ UNCHANGED <<rec, acc, poll, starts, left>>
        /\ pc[w] \in {"build", "beat", "last"}
    BY <1>11 DEF RenewGet, RenewExpire, history
  <2>2. CASE ~Forget(w)
    <3>1. UNCHANGED <<cur, copy>> /\ pc'[w] \in {"last", "beat", "saveresult", "savebeat"}
      BY <1>0, <1>11, <2>2 DEF RenewGet, RenewExpire, Goto, TypeOK
    <3>2. starts[cur[w]] <= copy[w].attempts BY <2>1 DEF CountInv, HasCopy
    <3>3. QED BY <1>1, <2>1, <3>1, <3>2, CountStep DEF HasCopy
  <2>3. QED BY <1>10, <2>1, <2>2
<1>12. CASE AckDelete(w) \/ Crash(w) \/ RedisError(w)
  BY <1>10, <1>12 DEF AckDelete, Crash, RedisError, history
<1>13. QED
  BY <1>2, <1>3, <1>4, <1>5, <1>6, <1>7, <1>8, <1>9, <1>11, <1>12 DEF TurnStep

LEMMA NextCountInv == Alone => (CountInv /\ [Next]_vars => CountInv')
<1> SUFFICES ASSUME Alone, CountInv, [Next]_vars PROVE CountInv'
  OBVIOUS
<1>1. PlacesInv' BY NextPlacesInv DEF CountInv
<1>2. CASE Next BY <1>1, <1>2, JobStepCountInv, WorkerStepCountInv DEF Next
<1>3. CASE UNCHANGED vars
  BY <1>1, <1>3 DEF vars, queueVars, workerVars, history, CountInv,
                    AttemptsBounded, Orphan, Waiting
<1>4. QED BY <1>2, <1>3

\* With one worker, and as long as no build waits for longer than STALE_AFTER,
\* no crash, error, lapse of a lease, lost id or expired record makes a build
\* start more often than max_attempts.
THEOREM AttemptsAreBounded ==
  ASSUME Alone, FaultLimit["age"] = 0
  PROVE  Spec => []AttemptsBounded
<1>1. Init => CountInv BY InitCountInv
<1>2. CountInv /\ [Next]_vars => CountInv' BY NextCountInv
<1>3. CountInv => AttemptsBounded BY DEF CountInv
<1>4. QED BY <1>1, <1>2, <1>3, PTL DEF Spec
-----------------------------------------------------------------------------
(* ImplementsLifecycle.                                                     *)

LEMMA InitLifeInv == Calm => (Init => LifeInv)
<1> SUFFICES ASSUME Calm, Init PROVE LifeInv
  OBVIOUS
<1>1. RecordsInv BY DEF Calm, Init, RecordsInv, NoRec, Owed
<1>2. StandsInv
  BY DEF Init, StandsInv, NoRec, Terminal, Outcomes, Before, AtJob, Holding,
         Attempting
<1>3. CopyInv BY DEF Init, CopyInv, NoRec, Attempting
<1>4. QED BY <1>1, <1>2, <1>3, InitOwedInv DEF LifeInv

\* A job of the queue that shows no outcome is owed.
LEMMA OwedUnlessTerminal ==
  ASSUME TypeOK, RecordsInv, NEW j \in Jobs, acc[j] = "queued", ~Terminal(rec[j])
  PROVE  Owed(j)
  BY DEF TypeOK, Record, Statuses, Terminal, RecordsInv, Owed

LEMMA OwedNotTerminal == \A j : Owed(j) => ~Terminal(rec[j])
  BY DEF Owed, Terminal, Outcomes

\* In calm no request for the state of a job changes its record.
LEMMA CalmJobStep ==
  ASSUME LifeInv, NEW j \in Jobs
  PROVE  ~PollRead(j) /\ ~PollSave(j) /\ ~Age(j) /\ ~RecordExpires(j)
<1>1. ~PollRead(j) /\ ~PollSave(j) BY DEF LifeInv, RecordsInv, PollRead, PollSave
<1>2. ~RecordExpires(j) BY DEF LifeInv, RecordsInv, RecordExpires, Spend
<1>3. Age(j) => ~Orphan(j)
  BY OwedIsKept DEF Age, LifeInv, NeverLost
<1>4. ~Age(j) BY <1>3 DEF Age, LifeInv, RecordsInv, Spend
<1>5. QED BY <1>1, <1>2, <1>4

LEMMA JobStepLifeInv ==
  ASSUME Alone, Calm, LifeInv, OwedInv', NEW j \in Jobs,
         \/ Settle(j) \/ AcceptNext(j) \/ AcceptDies(j) \/ LeaseLapses(j)
  PROVE  LifeInv'
<1>0. TypeOK /\ Busy /\ Known BY DEF LifeInv, OwedInv, PlacesInv, TypeInv
<1>1. UNCHANGED <<workerVars, inflight, poll>>
  BY DEF Settle, AcceptNext, Create, SavePaid, Push, AcceptDies, LeaseLapses, queueVars
<1>2. left'["age"] = 0 /\ left'["expire"] = 0
  BY <1>0 DEF Settle, AcceptNext, Create, SavePaid, Push, AcceptDies, LeaseLapses,
              Spend, LifeInv, RecordsInv, TypeOK, FaultKinds
<1>3. \A w \in Workers : cur[w] \in Jobs => acc[cur[w]] = "queued"
  BY <1>0 DEF Known
<1>4. \A w \in Workers : pc[w] \in AtJob => cur[w] \in Jobs BY <1>0 DEF Busy
<1>5. /\ Before \subseteq AtJob /\ Attempting \subseteq AtJob
      /\ {"savebeat", "marksave", "running", "giveup"} \subseteq AtJob
  BY DEF Before, Attempting, AtJob, Holding
<1>6. CASE Settle(j) \/ AcceptDies(j)
  <2>1. /\ UNCHANGED <<rec, pending, lease>>
        /\ \A i \in Jobs :
             acc'[i] = acc[i] \/ (acc[i] # "queued" /\ acc'[i] \notin {"queued", "saved"})
    BY <1>0, <1>6 DEF Settle, AcceptDies, AcceptStep, queueVars, TypeOK
  <2>2. RecordsInv' BY <1>1, <1>2, <2>1 DEF LifeInv, RecordsInv, Owed
  <2>3. StandsInv'
    BY <1>1, <1>3, <1>4, <1>5, <2>1 DEF LifeInv, StandsInv, workerVars, Waiting, Owed, Me
  <2>4. CopyInv' BY <1>1, <2>1 DEF LifeInv, CopyInv, workerVars
  <2>5. QED BY <2>2, <2>3, <2>4 DEF LifeInv
<1>7. CASE Create(j) \/ SavePaid(j)
  <2>1. /\ UNCHANGED <<pending, lease>> /\ acc[j] # "queued"
        /\ \A i \in Jobs \ {j} : rec'[i] = rec[i] /\ acc'[i] = acc[i]
        /\ rec'[j].status = "queued" /\ rec'[j].attempts = 0 /\ rec'[j].fresh
        /\ acc'[j] # "queued"
    <3>1. \E s \in {"created", "saved"} : acc[j] # "queued" /\ acc' = [acc EXCEPT ![j] = s]
      BY <1>7 DEF Create, SavePaid, AcceptStep
    <3>2. \E r : /\ rec' = [rec EXCEPT ![j] = r]
                /\ r.status = "queued" /\ r.attempts = 0 /\ r.fresh
      <4>1. CASE Create(j)
        <5> DEFINE r == [NoRec EXCEPT !.status = "queued"]
        <5>1. r.status = "queued" /\ r.attempts = 0 /\ r.fresh BY DEF NoRec
        <5>2. rec' = [rec EXCEPT ![j] = r] BY <4>1 DEF Create, Save
        <5> HIDE DEF r
        <5>3. QED BY <5>1, <5>2
      <4>2. CASE SavePaid(j)
        <5> DEFINE r == [NoRec EXCEPT !.status = "queued", !.paid = TRUE]
        <5>1. r.status = "queued" /\ r.attempts = 0 /\ r.fresh BY DEF NoRec
        <5>2. rec' = [rec EXCEPT ![j] = r] BY <4>2 DEF SavePaid, Save
        <5> HIDE DEF r
        <5>3. QED BY <5>1, <5>2
      <4>3. QED BY <1>7, <4>1, <4>2
    <3>3. UNCHANGED <<pending, lease>> BY <1>7 DEF Create, SavePaid, queueVars
    <3>4. QED BY <1>0, <3>1, <3>2, <3>3 DEF TypeOK
  <2>2. RecordsInv' BY <1>1, <1>2, <2>1 DEF LifeInv, RecordsInv, Owed
  <2>3. \A w \in Workers : pc[w] \in AtJob =>
          rec'[cur[w]] = rec[cur[w]] /\ acc'[cur[w]] = acc[cur[w]]
    BY <1>3, <1>4, <2>1
  <2>4. \A i \in Jobs : Terminal(rec'[i]) => Terminal(rec[i])
    BY <2>1 DEF Terminal, Outcomes
  <2>5. StandsInv'
    BY <1>1, <1>5, <2>1, <2>3, <2>4 DEF LifeInv, StandsInv, workerVars, Waiting, Owed, Me
  <2>6. CopyInv' BY <1>1, <1>5, <2>3 DEF LifeInv, CopyInv, workerVars
  <2>7. QED BY <2>2, <2>5, <2>6 DEF LifeInv
<1>8. CASE Push(j)
  <2>1. /\ UNCHANGED <<rec, lease>> /\ acc[j] = "saved"
        /\ \A i \in Jobs \ {j} : acc'[i] = acc[i]
        /\ acc'[j] = "queued"
    BY <1>0, <1>8 DEF Push, AcceptStep, TypeOK
  <2>2. rec[j].status = "queued" /\ rec[j].attempts = 0
    BY <2>1 DEF LifeInv, RecordsInv
  <2>3. Waiting' = Waiting \cup {j} BY <1>0, <1>8, WaitingGrows DEF Push
  <2>4. MaxAttempts \in Nat BY ConstantsAssumption
  <2>5. RecordsInv' BY <1>1, <1>2, <2>1, <2>2, <2>4 DEF LifeInv, RecordsInv, Owed
  <2>6. StandsInv'
    BY <1>1, <1>3, <1>4, <1>5, <2>1, <2>2, <2>3
    DEF LifeInv, StandsInv, workerVars, Owed, Me, Terminal, Outcomes
  <2>7. CopyInv' BY <1>1, <2>1 DEF LifeInv, CopyInv, workerVars
  <2>8. QED BY <2>5, <2>6, <2>7 DEF LifeInv
<1>9. CASE LeaseLapses(j)
  <2>1. /\ UNCHANGED <<pending, rec, acc>>
        /\ \A i \in Jobs \ {j} : lease'[i] = lease[i]
        /\ lease'[j] = NoOwner
    BY <1>0, <1>9 DEF LeaseLapses, TypeOK
  <2>2. \A w \in Workers : Attends(w, j) => Point(w) \in FaultAt
    BY <1>9 DEF LeaseLapses, Attended
  <2>3. \A w \in Workers : Attends(w, j) =>
          pc[w] # "savebeat" /\ ~Terminal(rec[cur[w]])
    BY <2>2 DEF Calm, Point, Attends, Holding
  <2>4. RecordsInv' BY <1>1, <1>2, <2>1 DEF LifeInv, RecordsInv, Owed
  <2>5. \A w \in Workers :
          pc[w] = "savebeat" \/ (pc[w] \in Attempting /\ Terminal(rec[cur[w]]))
            => cur[w] # j
    BY <2>3 DEF LifeInv, StandsInv, Attends, Attempting, Holding
  <2>6. \A w \in Workers : pc[w] \in AtJob =>
          lease'[cur[w]] = lease[cur[w]] \/ (cur[w] = j /\ lease'[cur[w]] = NoOwner)
    BY <1>4, <2>1
  <2>7. Holding \subseteq AtJob BY DEF AtJob
  <2>8. StandsInv'
    BY <1>1, <1>5, <2>1, <2>5, <2>6, <2>7
    DEF LifeInv, StandsInv, workerVars, Waiting, Owed, Me
  <2>9. CopyInv' BY <1>1, <2>1 DEF LifeInv, CopyInv, workerVars
  <2>10. QED BY <2>4, <2>8, <2>9 DEF LifeInv
<1>10. QED BY <1>6, <1>7, <1>8, <1>9 DEF AcceptNext

\* What a worker step that writes no record leaves to be shown.
LEMMA LifeFrame ==
  ASSUME Alone, LifeInv, OwedInv', NEW w \in Workers,
         UNCHANGED <<rec, acc, poll>>,
         UNCHANGED left \/ Spend("overlap") \/ Spend("crash") \/ Spend("error"),
         StandsInv', CopyInv'
  PROVE  LifeInv'
<1>0. TypeOK BY DEF LifeInv, OwedInv, PlacesInv, TypeInv
<1>1. left'["age"] = 0 /\ left'["expire"] = 0
  BY <1>0 DEF Spend, LifeInv, RecordsInv, TypeOK, FaultKinds
<1>2. RecordsInv' BY <1>1 DEF LifeInv, RecordsInv, Owed
<1>3. QED BY <1>2 DEF LifeInv

\* Before a build starts no outcome is on record for what is in the queue.
LEMMA NoneShown ==
  ASSUME Alone, LifeInv, NEW w \in Workers, NEW j \in Jobs,
         pc[w] \notin Ending \/ cur[w] # j \/ ~Terminal(rec[j]),
         j \in Waiting \/ j \in scan[w] \/ j \in taken[w] \/ inflight[j] > 0
  PROVE  Owed(j)
<1>0. TypeOK /\ Known BY DEF LifeInv, OwedInv, PlacesInv, TypeInv
<1>1. \A v \in Workers : v = w BY DEF Alone
<1>2. ~Terminal(rec[j]) BY <1>1 DEF LifeInv, StandsInv
<1>3. acc[j] = "queued"
  BY <1>0 DEF Known, Waiting
<1>4. QED BY <1>0, <1>2, <1>3, OwedUnlessTerminal DEF LifeInv

LEMMA ReaperLifeInv ==
  ASSUME Alone, Calm, LifeInv, OwedInv', NEW w \in Workers,
         \/ StartScan(w) \/ CheckLease(w) \/ TakeBack(w) \/ PushBack(w)
         \/ MarkGet(w) \/ MarkSave(w)
  PROVE  LifeInv'
<1>0. TypeOK /\ Busy /\ Known BY DEF LifeInv, OwedInv, PlacesInv, TypeInv
<1>1. \A v \in Workers : v = w BY DEF Alone
<1>2. pc[w] \in Marking \cup {"idle"} /\ UNCHANGED <<thread, lease, inc, acc, poll>>
  BY DEF StartScan, CheckLease, TakeBack, PushBack, MarkGet, MarkSave, Marking,
         Looking, queueVars
<1>3. pc[w] \notin Ending /\ thread[w] # "alive"
  BY <1>0, <1>2 DEF Busy, Marking, Looking, Holding, Ending, Attempting
<1>4. copy[w].fresh BY DEF LifeInv, CopyInv
<1>5. \A j \in Jobs :
        j \in Waiting \/ j \in scan[w] \/ j \in taken[w] \/ inflight[j] > 0 => Owed(j)
  BY <1>3, NoneShown
<1>6. CASE StartScan(w) \/ CheckLease(w)
  <2>1. /\ UNCHANGED <<pending, inflight, rec, copy, taken>>
        /\ UNCHANGED left \/ Spend("overlap")
    BY <1>6 DEF StartScan, CheckLease, queueVars
  <2>2. /\ pc'[w] \in {"exists", "mark", "reserve", "lrem"}
        /\ pc'[w] = "lrem" => cur'[w] \in scan[w]
        /\ \A j \in Jobs : j \in scan'[w] => j \in scan[w] \/ inflight[j] > 0
    <3>1. CASE StartScan(w)
      BY <1>0, <3>1 DEF StartScan, Continue, Goto, InFlight, TypeOK
    <3>2. CASE CheckLease(w)
      BY <1>0, <3>2 DEF CheckLease, Continue, Goto, TypeOK
    <3>3. QED BY <1>6, <3>1, <3>2
  <2>3. scan[w] \subseteq Jobs BY <1>0 DEF TypeOK
  <2>4. StandsInv'
    BY <1>1, <1>2, <1>5, <2>1, <2>2, <2>3, OwedNotTerminal
    DEF StandsInv, Before, AtJob, Holding, Attempting, Waiting, Owed
  <2>5. CopyInv' BY <1>1, <1>2, <1>3, <1>4, <2>1, <2>2 DEF CopyInv, Attempting
  <2>6. QED BY <1>2, <2>1, <2>4, <2>5, LifeFrame
<1>7. CASE TakeBack(w) \/ PushBack(w)
  <2>1. /\ UNCHANGED <<rec, copy, scan, left>> /\ pc[w] \in {"lrem", "lpush"}
        /\ cur[w] \in Jobs
    BY <1>0, <1>7 DEF TakeBack, PushBack, Busy, AtJob
  <2>2. Owed(cur[w])
    BY <2>1 DEF LifeInv, StandsInv, Before, AtJob, Attempting
  <2>3. /\ pc'[w] \in {"exists", "mark", "reserve", "lpush"}
        /\ pc'[w] = "lpush" => cur'[w] = cur[w]
        /\ \A j \in Jobs : inflight'[j] > 0 => inflight[j] > 0
        /\ \A j \in Jobs : j \in taken'[w] => j \in taken[w] \/ j = cur[w]
        /\ \A j \in Jobs : j \in Waiting' => j \in Waiting \/ j = cur[w]
    <3>1. CASE TakeBack(w)
      BY <1>0, <2>1, <3>1 DEF TakeBack, Continue, Goto, Waiting, TypeOK
    <3>2. CASE PushBack(w)
      <4>1. Waiting' = Waiting \cup {cur[w]}
        BY <1>0, <2>1, <3>2, WaitingGrows DEF PushBack
      <4>2. QED BY <1>0, <3>2, <4>1 DEF PushBack, Continue, Goto, TypeOK
    <3>3. QED BY <1>7, <3>1, <3>2
  <2>4. StandsInv'
    BY <1>1, <1>2, <1>5, <2>1, <2>2, <2>3, OwedNotTerminal
    DEF StandsInv, Before, AtJob, Holding, Attempting, Owed
  <2>5. CopyInv' BY <1>1, <1>2, <1>3, <1>4, <2>1, <2>3 DEF CopyInv, Attempting
  <2>6. QED BY <1>2, <2>1, <2>4, <2>5, LifeFrame
<1>8. CASE MarkGet(w)
  <2>1. UNCHANGED <<pending, inflight, rec, scan, left>>
    BY <1>8 DEF MarkGet, queueVars
  <2>2. PICK i \in taken[w] :
          /\ taken' = [taken EXCEPT ![w] = @ \ {i}]
          /\ \/ Continue(w, {}, taken[w] \ {i}) /\ UNCHANGED copy
             \/ /\ Goto(w, "marksave") /\ cur' = [cur EXCEPT ![w] = i]
                /\ copy' = [copy EXCEPT ![w] =
                     [rec[i] EXCEPT !.status = "queued", !.fresh = TRUE]]
    BY <1>8 DEF MarkGet
  <2>3. i \in Jobs /\ Owed(i) BY <1>0, <1>5 DEF TypeOK
  <2>4. LET r == [rec[i] EXCEPT !.status = "queued", !.fresh = TRUE]
        IN  r.fresh /\ r.attempts = rec[i].attempts /\ r.status = "queued"
    BY <1>0, <2>3 DEF TypeOK, Record
  <2>5. /\ taken'[w] \subseteq taken[w]
        /\ \/ pc'[w] \in {"mark", "reserve"} /\ UNCHANGED copy
           \/ /\ pc'[w] = "marksave" /\ cur'[w] = i /\ copy'[w].fresh
              /\ copy'[w].attempts = rec[i].attempts /\ copy'[w].status = "queued"
    BY <1>0, <2>2, <2>4 DEF Continue, Goto, TypeOK
  <2>6. StandsInv'
    BY <1>1, <1>2, <1>5, <2>1, <2>3, <2>5, OwedNotTerminal
    DEF StandsInv, Before, AtJob, Holding, Attempting, Waiting, Owed
  <2>7. CopyInv' BY <1>1, <1>2, <1>3, <1>4, <2>1, <2>5 DEF CopyInv, Attempting
  <2>8. QED BY <1>2, <2>1, <2>6, <2>7, LifeFrame
<1>9. CASE MarkSave(w)
  <2>1. /\ UNCHANGED <<pending, inflight, scan, taken, left>>
        /\ pc[w] = "marksave" /\ cur[w] \in Jobs
    BY <1>0, <1>9 DEF MarkSave, queueVars, Busy, AtJob
  <2>2. /\ Owed(cur[w]) /\ copy[w].status = "queued"
        /\ copy[w].attempts = rec[cur[w]].attempts
    BY <2>1 DEF LifeInv, StandsInv, CopyInv, Before, AtJob, Attempting
  <2>3. /\ rec'[cur[w]] = copy[w] /\ \A j \in Jobs \ {cur[w]} : rec'[j] = rec[j]
        /\ pc'[w] \in {"mark", "reserve"} /\ copy'[w].fresh
    BY <1>0, <1>9, <2>1 DEF MarkSave, Save, Continue, Goto, TypeOK, NoRec
  <2>4. RecordsInv'
    BY <1>2, <1>4, <2>1, <2>2, <2>3 DEF LifeInv, RecordsInv, Owed
  <2>5. \A j \in Jobs : Terminal(rec'[j]) => Terminal(rec[j])
    BY <2>2, <2>3 DEF Terminal, Outcomes
  <2>6. StandsInv'
    BY <1>1, <1>2, <1>5, <2>1, <2>3, <2>5, OwedNotTerminal
    DEF StandsInv, Before, AtJob, Holding, Attempting, Waiting
  <2>7. CopyInv' BY <1>1, <1>2, <1>3, <2>3 DEF CopyInv, Attempting
  <2>8. QED BY <2>4, <2>6, <2>7 DEF LifeInv
<1>10. QED BY <1>6, <1>7, <1>8, <1>9

\* A worker step that writes its copy to the record of the job it holds.
LEMMA LifeSave ==
  ASSUME Alone, LifeInv, OwedInv', NEW w \in Workers,
         UNCHANGED <<queueVars, acc, poll, cur, copy, scan, taken, inc, left>>,
         pc[w] \in Entered \ {"lease"}, cur[w] \in Jobs, Save(cur[w], copy[w]),
         copy[w].status \in {"queued", "running"} => copy[w].attempts <= MaxAttempts,
         copy[w].status # "absent",
         pc'[w] \in Ending,
         pc'[w] = "build" =>
           /\ copy[w].status \in {"running"} \cup Outcomes
           /\ copy[w].status \in Outcomes => lease[cur[w]] = Me(w),
         pc'[w] \in {"build", "acklrem"},
         thread'[w] = "alive" => copy[w].status = "running"
  PROVE  LifeInv'
<1>0. TypeOK /\ Busy /\ Known /\ QueueOnce
  BY DEF LifeInv, OwedInv, PlacesInv, TypeInv
<1>1. \A v \in Workers : v = w BY DEF Alone
<1>2. rec'[cur[w]] = copy[w] /\ \A j \in Jobs \ {cur[w]} : rec'[j] = rec[j]
  BY <1>0 DEF Save, TypeOK
<1>3. copy[w].fresh /\ acc[cur[w]] = "queued" BY <1>0 DEF LifeInv, CopyInv, Known
<1>4. RecordsInv'
  BY <1>2, <1>3 DEF LifeInv, RecordsInv, Owed
<1>5. cur[w] \notin Waiting /\ scan[w] = {} /\ taken[w] = {}
  <2>1. inflight[cur[w]] > 0 BY DEF LifeInv, OwedInv, TurnInv
  <2>2. inflight[cur[w]] = 1 BY <1>0, <2>1 DEF QueueOnce, TypeOK
  <2>3. pc[w] \notin Marking BY DEF Entered, Holding, Marking, Looking
  <2>4. QED BY <1>0, <2>2, <2>3 DEF LifeInv, OwedInv, TurnInv, QueueOnce, Marking
<1>6. Waiting' = Waiting BY DEF queueVars, Waiting
<1>7. pc[w] \in Holding BY DEF Entered
<1>8. lease[cur[w]] \in {NoOwner, Me(w)} BY <1>7 DEF LifeInv, StandsInv
<1>9. QED
  <2>1. \A j \in Jobs : Terminal(rec'[j]) => j = cur[w] \/ Terminal(rec[j])
    BY <1>2
  <2>2. \A j \in Jobs : Terminal(rec'[j]) =>
          /\ j \notin Waiting'
          /\ \A v \in Workers : j \notin scan'[v] \cup taken'[v]
          /\ inflight'[j] > 0 => \E v \in Workers : cur'[v] = j /\ pc'[v] \in Ending
    BY <1>1, <1>5, <1>6, <2>1 DEF LifeInv, StandsInv, queueVars
  <2>3. pc'[w] \notin Before /\ pc'[w] # "savebeat"
    BY DEF Before, Ending
  <2>4. lease'[cur[w]] \in {NoOwner, Me(w)'}
    BY <1>8 DEF queueVars, Me
  <2>5. (pc'[w] \in Attempting /\ Terminal(rec'[cur[w]])) => lease'[cur[w]] = Me(w)'
    BY <1>2 DEF queueVars, Me, Attempting, Terminal
  <2>6. StandsInv' BY <1>1, <2>2, <2>3, <2>4, <2>5 DEF StandsInv
  <2>7. CopyInv' BY <1>1, <1>2, <1>3 DEF CopyInv, Attempting
  <2>8. QED BY <1>4, <2>6, <2>7 DEF LifeInv

\* A worker that drops everything leaves no job behind that shows an outcome.
LEMMA LifeForget ==
  ASSUME Alone, LifeInv, OwedInv', NEW w \in Workers, Forget(w),
         UNCHANGED <<pending, inflight, rec, acc, poll>>,
         UNCHANGED left \/ Spend("crash") \/ Spend("error"),
         pc[w] \in Ending => ~Terminal(rec[cur[w]])
  PROVE  LifeInv'
<1>0. TypeOK BY DEF LifeInv, OwedInv, PlacesInv, TypeInv
<1>1. \A v \in Workers : v = w BY DEF Alone
<1>2. /\ pc'[w] = "idle" /\ scan'[w] = {} /\ taken'[w] = {} /\ thread'[w] = "none"
      /\ copy'[w].fresh
  BY <1>0 DEF Forget, Goto, TypeOK, NoRec
<1>3. StandsInv'
  BY <1>1, <1>2
  DEF LifeInv, StandsInv, Before, AtJob, Holding, Attempting, Waiting
<1>4. CopyInv' BY <1>1, <1>2 DEF CopyInv, Attempting
<1>5. QED BY <1>3, <1>4, LifeFrame

LEMMA TurnLifeInv ==
  ASSUME Alone, Calm, LifeInv, OwedInv', NEW w \in Workers,
         \/ Reserve(w) \/ TakeLease(w) \/ GetRecord(w) \/ SaveGivenUp(w)
         \/ SaveRunning(w) \/ AckRemove(w) \/ AckDelete(w)
  PROVE  LifeInv'
<1>0. TypeOK /\ Busy /\ Known BY DEF LifeInv, OwedInv, PlacesInv, TypeInv
<1>1. \A v \in Workers : v = w BY DEF Alone
<1>2. pc[w] \notin Marking => scan[w] = {} /\ taken[w] = {}
  BY DEF LifeInv, OwedInv, TurnInv, Marking
<1>3. copy[w].fresh BY DEF LifeInv, CopyInv
<1>4. CASE Reserve(w)
  <2>1. /\ pc[w] \in {"idle", "reserve"} /\ scan[w] = {} /\ taken[w] = {}
        /\ UNCHANGED <<lease, rec, acc, poll, scan, taken, copy, thread, inc, left>>
    BY <1>2, <1>4 DEF Reserve, Marking, Looking
  <2>2. thread[w] # "alive" /\ pc[w] \notin Ending
    BY <1>0, <2>1 DEF Busy, Holding, Ending, Attempting
  <2>3. \A j \in Jobs : j \in Waiting \/ inflight[j] > 0 => Owed(j)
    BY <2>2, NoneShown
  <2>4. \/ /\ pc'[w] = "idle" /\ UNCHANGED <<pending, inflight>>
        \/ /\ pc'[w] = "lease" /\ cur'[w] \in Waiting /\ cur'[w] \in Jobs
           /\ Waiting' \subseteq Waiting
           /\ \A j \in Jobs \ {cur'[w]} : inflight'[j] = inflight[j]
    <3>1. CASE pending = <<>>
      BY <1>0, <1>4, <3>1 DEF Reserve, Goto, TypeOK
    <3>2. CASE pending # <<>>
      <4> DEFINE h == Head(pending)
      <4>1. /\ pending' = Tail(pending) /\ pc' = [pc EXCEPT ![w] = "lease"]
            /\ cur' = [cur EXCEPT ![w] = h] /\ inflight' = [inflight EXCEPT ![h] = @ + 1]
        BY <1>4, <3>2 DEF Reserve, Goto
      <4>2. h \in Jobs /\ h \in Waiting /\ Waiting' \subseteq Waiting
        BY <1>0, <3>2, <4>1, WaitingShrinks
      <4> HIDE DEF h
      <4>3. QED BY <1>0, <4>1, <4>2 DEF TypeOK
    <3>3. QED BY <3>1, <3>2
  <2>5. \A j \in Jobs : Terminal(rec[j]) =>
          \/ j \notin Waiting' /\ ~(inflight'[j] > 0) /\ j # cur'[w]
          \/ pc'[w] = "idle"
    BY <2>3, <2>4, OwedNotTerminal
  <2>6. pc'[w] = "idle" => UNCHANGED <<pending, inflight>> BY <2>4
  <2>7. pc'[w] = "lease" => Owed(cur'[w]) BY <2>3, <2>4
  <2>8. \A j \in Jobs : Terminal(rec[j]) => j \notin Waiting' /\ ~(inflight'[j] > 0)
    BY <2>3, <2>5, <2>6, OwedNotTerminal DEF Waiting
  <2>9. StandsInv'
    BY <1>1, <2>1, <2>4, <2>7, <2>8
    DEF StandsInv, Before, AtJob, Holding, Attempting, Owed
  <2>10. CopyInv' BY <1>1, <1>3, <2>1, <2>2, <2>4 DEF CopyInv, Attempting
  <2>11. QED BY <2>1, <2>9, <2>10, LifeFrame
<1>5. CASE TakeLease(w)
  <2>1. /\ pc[w] = "lease" /\ pc'[w] = "get" /\ cur[w] \in Jobs
        /\ lease'[cur[w]] = Me(w)
        /\ UNCHANGED <<pending, inflight, rec, acc, poll, cur, scan, taken, copy,
                       thread, inc, left>>
    BY <1>0, <1>5 DEF TakeLease, Goto, TypeOK, Busy, AtJob
  <2>2. Owed(cur[w]) /\ pc[w] \notin Ending /\ thread[w] # "alive"
    BY <1>0, <2>1 DEF LifeInv, StandsInv, Before, AtJob, Attempting, Ending, Busy, Holding
  <2>3. StandsInv'
    BY <1>1, <2>1, <2>2
    DEF LifeInv, StandsInv, Before, AtJob, Holding, Attempting, Owed, Waiting, Me
  <2>4. CopyInv' BY <1>1, <1>3, <2>1, <2>2 DEF CopyInv, Attempting
  <2>5. QED BY <2>1, <2>3, <2>4, LifeFrame
<1>6. CASE GetRecord(w)
  <2> DEFINE r == rec[cur[w]]
  <2>1. /\ pc[w] = "get" /\ cur[w] \in Jobs /\ r \in Record
        /\ UNCHANGED <<queueVars, rec, acc, poll, cur, scan, taken, thread, inc, left>>
    BY <1>0, <1>6 DEF GetRecord, Busy, AtJob, Holding, TypeOK
  <2>2. Owed(cur[w]) /\ pc[w] \notin Ending /\ thread[w] # "alive"
    BY <1>0, <2>1 DEF LifeInv, StandsInv, Before, AtJob, Attempting, Ending, Busy, Holding
  <2>3. r.status \in {"queued", "running"} /\ r.attempts <= MaxAttempts
    BY <2>1, <2>2 DEF Owed, LifeInv, RecordsInv
  <2>4. r.attempts \in Nat /\ MaxAttempts \in Nat
    BY <2>1, ConstantsAssumption DEF Record
  <2>5. /\ copy'[w] = NextAttempt(r)
        /\ \/ pc'[w] = "giveup" /\ r.attempts + 1 > MaxAttempts
           \/ pc'[w] = "running" /\ ~(r.attempts + 1 > MaxAttempts)
    BY <1>0, <1>6, <2>3 DEF GetRecord, Goto, TypeOK, Terminal, Outcomes
  <2>6. /\ NextAttempt(r).attempts = r.attempts + 1 /\ NextAttempt(r).fresh
        /\ NextAttempt(r).status =
             IF r.attempts + 1 > MaxAttempts THEN "failed" ELSE "running"
    BY <2>1 DEF NextAttempt, Record
  <2>7. StandsInv'
    BY <1>1, <2>1, <2>2, <2>5
    DEF LifeInv, StandsInv, Before, AtJob, Holding, Attempting, Ending, Owed,
        Waiting, Me, queueVars
  <2>8. CopyInv' BY <1>1, <2>1, <2>2, <2>3, <2>4, <2>5, <2>6 DEF CopyInv, Attempting
  <2>9. QED BY <2>1, <2>7, <2>8, LifeFrame
<1>7. CASE SaveGivenUp(w)
  <2>1. /\ pc[w] = "giveup" /\ cur[w] \in Jobs /\ Save(cur[w], copy[w])
        /\ UNCHANGED <<queueVars, acc, poll, cur, copy, scan, taken, inc, left, thread>>
        /\ pc'[w] = "acklrem"
    BY <1>0, <1>7 DEF SaveGivenUp, Goto, TypeOK, Busy, AtJob, Holding
  <2>2. copy[w].status = "failed" BY <2>1 DEF LifeInv, OwedInv, EndInv
  <2>3. thread[w] # "alive" BY <2>1 DEF LifeInv, OwedInv, EndInv, Attempting
  <2>4. QED BY <2>1, <2>2, <2>3, LifeSave DEF Ending, Entered, Holding
<1>8. CASE SaveRunning(w)
  <2>1. /\ pc[w] = "running" /\ cur[w] \in Jobs /\ Save(cur[w], copy[w])
        /\ UNCHANGED <<queueVars, acc, poll, cur, copy, scan, taken, inc, left>>
        /\ pc'[w] = "build"
    BY <1>0, <1>8 DEF SaveRunning, Goto, TypeOK, Busy, AtJob, Holding
  <2>2. copy[w].status = "running" /\ copy[w].attempts <= MaxAttempts
    BY <2>1 DEF LifeInv, CopyInv
  <2>3. QED BY <2>1, <2>2, LifeSave DEF Ending, Attempting, Entered, Holding, Outcomes
<1>9. CASE AckRemove(w)
  <2>1. /\ pc[w] = "acklrem" /\ pc'[w] = "ackdel" /\ cur[w] \in Jobs
        /\ inflight'[cur[w]] = 0
        /\ \A j \in Jobs \ {cur[w]} : inflight'[j] = inflight[j]
        /\ UNCHANGED <<pending, lease, rec, acc, poll, cur, scan, taken, copy,
                       thread, inc, left>>
    BY <1>0, <1>9 DEF AckRemove, Goto, TypeOK, Busy, AtJob, Holding
  <2>2. thread[w] # "alive"
    BY <2>1 DEF LifeInv, OwedInv, EndInv, Attempting
  <2>3. StandsInv'
    BY <1>1, <2>1
    DEF LifeInv, StandsInv, Before, AtJob, Holding, Attempting, Owed, Waiting, Me
  <2>4. CopyInv' BY <1>1, <1>3, <2>1, <2>2 DEF CopyInv, Attempting
  <2>5. QED BY <2>1, <2>3, <2>4, LifeFrame
<1>10. CASE AckDelete(w)
  <2>1. pc[w] = "ackdel" BY <1>10 DEF AckDelete
  <2>2. QED BY <1>10, <2>1, LifeForget DEF AckDelete, Ending, Attempting
<1>11. QED BY <1>4, <1>5, <1>6, <1>7, <1>8, <1>9, <1>10

LEMMA BuildLifeInv ==
  ASSUME Alone, Calm, LifeInv, OwedInv', NEW w \in Workers,
         \/ RenewGet(w) \/ RenewExpire(w) \/ SaveBeat(w) \/ SaveResult(w)
         \/ ThreadStep(w) \/ Crash(w) \/ RedisError(w)
  PROVE  LifeInv'
<1>0. TypeOK /\ Busy /\ Known BY DEF LifeInv, OwedInv, PlacesInv, TypeInv
<1>1. \A v \in Workers : v = w BY DEF Alone
<1>2. copy[w].fresh BY DEF LifeInv, CopyInv
<1>3. CASE RenewGet(w) \/ RenewExpire(w)
  <2>1. /\ pc[w] \in {"build", "beat", "last"} /\ cur[w] \in Jobs
        /\ UNCHANGED <<queueVars, rec, acc, poll, inc, left>>
    BY <1>0, <1>3 DEF RenewGet, RenewExpire, Busy, AtJob, Holding
  <2>2. lease[cur[w]] \in {NoOwner, Me(w)} /\ Me(w) # NoOwner
    BY <2>1, ConstantsAssumption DEF LifeInv, StandsInv, Holding, NoOwner, Me
  <2>3. CASE Forget(w)
    <3>1. pc'[w] = "idle" BY <1>0, <2>3 DEF Forget, Goto, TypeOK
    <3>2. lease[cur[w]] # Me(w)
      BY <1>0, <1>3, <2>2, <3>1 DEF RenewGet, RenewExpire, Goto, TypeOK
    <3>3. ~Terminal(rec[cur[w]])
      BY <2>1, <3>2 DEF LifeInv, StandsInv, Attempting
    <3>4. QED BY <2>1, <2>3, <3>3, LifeForget DEF queueVars
  <2>4. CASE ~Forget(w)
    <3>1. /\ pc'[w] \in {"last", "beat", "saveresult", "savebeat"}
          /\ pc'[w] = "savebeat" => lease[cur[w]] # NoOwner
          /\ UNCHANGED <<cur, copy, scan, taken, thread>>
      BY <1>0, <1>3, <2>4 DEF RenewGet, RenewExpire, Goto, TypeOK
    <3>2. StandsInv'
      BY <1>1, <2>1, <2>2, <3>1
      DEF LifeInv, StandsInv, Before, AtJob, Holding, Attempting, Ending, Owed,
          Waiting, Me, queueVars
    <3>3. CopyInv' BY <1>1, <2>1, <3>1 DEF LifeInv, CopyInv, Attempting
    <3>4. QED BY <2>1, <3>2, <3>3, LifeFrame
  <2>5. QED BY <2>3, <2>4
<1>4. CASE SaveBeat(w) \/ SaveResult(w)
  <2>1. /\ pc[w] \in {"savebeat", "saveresult"} /\ cur[w] \in Jobs
        /\ Save(cur[w], copy[w])
        /\ UNCHANGED <<queueVars, acc, poll, cur, copy, scan, taken, inc, left, thread>>
        /\ pc'[w] = IF pc[w] = "savebeat" THEN "build" ELSE "acklrem"
    BY <1>0, <1>4 DEF SaveBeat, SaveResult, Goto, TypeOK, Busy, AtJob, Holding
  <2>2. /\ copy[w].attempts = rec[cur[w]].attempts
        /\ copy[w].status \in {"running"} \cup Outcomes
        /\ rec[cur[w]].status \in {"running", copy[w].status}
        /\ thread[w] = "alive" => copy[w].status = "running"
    BY <2>1 DEF LifeInv, CopyInv, Attempting
  <2>3. copy[w].status = "running" => copy[w].attempts <= MaxAttempts
    BY <1>0, <2>1, <2>2 DEF Known, Owed, LifeInv, RecordsInv
  <2>4. pc[w] = "savebeat" => lease[cur[w]] = Me(w) BY DEF LifeInv, StandsInv
  <2>5. QED BY <2>1, <2>2, <2>3, <2>4, LifeSave
            DEF Ending, Attempting, Entered, Holding, Outcomes
<1>5. CASE ThreadStep(w)
  <2>1. /\ thread[w] \in {"alive", "decided"} /\ thread'[w] # "alive"
        /\ UNCHANGED <<queueVars, rec, acc, poll, pc, cur, scan, taken, inc>>
        /\ UNCHANGED left \/ Spend("error")
    BY <1>0, <1>5 DEF ThreadStep, ThreadDecides, ThreadEnds, TypeOK
  <2>2. pc[w] \in Attempting BY <2>1 DEF LifeInv, OwedInv, EndInv
  <2>3. \/ UNCHANGED copy
        \/ /\ copy[w].status = "running" /\ copy'[w].fresh
           /\ copy'[w].attempts = copy[w].attempts /\ copy'[w].status \in Outcomes
    <3>1. CASE ThreadDecides(w)
      <4>1. PICK s \in Outcomes : copy' = [copy EXCEPT ![w] = [copy[w] EXCEPT !.status = s]]
        BY <3>1 DEF ThreadDecides, Conclude
      <4>2. LET c == [copy[w] EXCEPT !.status = s]
            IN  c.fresh = copy[w].fresh /\ c.attempts = copy[w].attempts /\ c.status = s
        BY <1>0, <4>1 DEF TypeOK, Record
      <4>3. copy[w].status = "running" BY <3>1 DEF ThreadDecides, LifeInv, CopyInv
      <4>4. QED BY <1>0, <1>2, <4>1, <4>2, <4>3 DEF TypeOK
    <3>2. CASE ThreadEnds(w)
      BY <3>2 DEF ThreadEnds, Calm
    <3>3. QED BY <1>5, <3>1, <3>2 DEF ThreadStep
  <2>4. StandsInv'
    BY <2>1 DEF LifeInv, StandsInv, Waiting, Owed, Me, queueVars
  <2>5. CopyInv'
    BY <1>1, <1>2, <2>1, <2>2, <2>3 DEF LifeInv, CopyInv, Attempting
  <2>6. QED BY <2>1, <2>4, <2>5, LifeFrame
<1>6. CASE Crash(w) \/ RedisError(w)
  <2>1. /\ Point(w) \in FaultAt /\ Forget(w)
        /\ UNCHANGED <<pending, inflight, rec, acc, poll>>
        /\ Spend("crash") \/ Spend("error")
    BY <1>6 DEF Crash, RedisError, queueVars
  <2>2. pc[w] \in Ending => ~Terminal(rec[cur[w]])
    BY <2>1 DEF Point, Calm, Ending, Attempting, Holding
  <2>3. QED BY <2>1, <2>2, LifeForget
<1>7. QED BY <1>3, <1>4, <1>5, <1>6

LEMMA NextLifeInv ==
  ASSUME Alone, Calm
  PROVE  LifeInv /\ [Next]_vars => LifeInv'
<1> SUFFICES ASSUME LifeInv, [Next]_vars PROVE LifeInv'
  OBVIOUS
<1>1. OwedInv' BY NextOwedInv DEF LifeInv, Calm
<1>2. CASE Next
  BY <1>1, <1>2, CalmJobStep, JobStepLifeInv, ReaperLifeInv, TurnLifeInv, BuildLifeInv
     DEF Next, TurnStep
<1>3. CASE UNCHANGED vars
  BY <1>1, <1>3 DEF vars, queueVars, workerVars, LifeInv, RecordsInv, StandsInv,
                    CopyInv, Owed, Waiting, Me
<1>4. QED BY <1>2, <1>3

\* What the buyer is told about a job.
SeenStatus(j) == IF Seen(j) THEN rec[j].status ELSE "absent"

LEMMA Stutter ==
  ASSUME \A j \in Jobs : SeenStatus(j)' = SeenStatus(j) /\ rec'[j].attempts = rec[j].attempts
  PROVE  UNCHANGED Lifecycle!vars
  BY DEF Lifecycle!vars, SeenStatus

\* A step that changes what the buyer is told of one job, to s.
LEMMA OneBecomes ==
  ASSUME NEW j \in Jobs, NEW s, SeenStatus(j)' = s,
         \A i \in Jobs \ {j} :
           SeenStatus(i)' = SeenStatus(i) /\ rec'[i].attempts = rec[i].attempts
  PROVE  /\ Lifecycle!Become(j, s)
         /\ rec'[j].attempts = rec[j].attempts =>
              [i \in Jobs |-> rec[i].attempts]' = [i \in Jobs |-> rec[i].attempts]
         /\ rec'[j].attempts = rec[j].attempts + 1 =>
              [i \in Jobs |-> rec[i].attempts]' =
                [[i \in Jobs |-> rec[i].attempts] EXCEPT ![j] = @ + 1]
<1>1. Lifecycle!Become(j, s) BY DEF Lifecycle!Become, SeenStatus
<1>2. QED BY <1>1

LEMMA InitLifecycle == Init => Lifecycle!Init
  BY DEF Init, Lifecycle!Init, Seen, NoRec

\* A worker writes the record of a job that the buyer knows: what it may write.
LEMMA SaveLifecycle ==
  ASSUME TypeOK, NEW j \in Jobs, NEW r, Save(j, r), UNCHANGED acc, acc[j] = "queued",
         \/ r.status = rec[j].status /\ r.attempts = rec[j].attempts
         \/ /\ rec[j].status = "running" /\ r.status \in Outcomes
            /\ r.attempts = rec[j].attempts
         \/ /\ rec[j].status \in {"queued", "running"}
            /\ \/ r.status = "queued" /\ r.attempts = rec[j].attempts
               \/ /\ r.status = "running" /\ r.attempts = rec[j].attempts + 1
                  /\ rec[j].attempts < MaxAttempts
               \/ /\ r.status = "failed" /\ r.attempts = rec[j].attempts + 1
                  /\ rec[j].attempts = MaxAttempts
  PROVE  [Lifecycle!Next]_Lifecycle!vars
<1>1. /\ SeenStatus(j) = rec[j].status /\ SeenStatus(j)' = r.status
      /\ rec'[j].attempts = r.attempts
      /\ \A i \in Jobs \ {j} :
           SeenStatus(i)' = SeenStatus(i) /\ rec'[i].attempts = rec[i].attempts
  BY DEF Save, SeenStatus, Seen, TypeOK
<1>2. CASE r.status = rec[j].status /\ r.attempts = rec[j].attempts
  BY <1>1, <1>2, Stutter
<1>3. CASE /\ rec[j].status = "running" /\ r.status \in Outcomes
           /\ r.attempts = rec[j].attempts
  <2>1. Lifecycle!Conclude(j)
    BY <1>1, <1>3, OneBecomes
    DEF Lifecycle!Conclude, Lifecycle!Outcomes, Outcomes, SeenStatus
  <2>2. QED BY <2>1 DEF Lifecycle!Next
<1>4. CASE /\ rec[j].status \in {"queued", "running"}
           /\ r.status = "queued" /\ r.attempts = rec[j].attempts
  <2>1. Lifecycle!Requeue(j)
    BY <1>1, <1>4, OneBecomes DEF Lifecycle!Requeue, SeenStatus
  <2>2. QED BY <2>1 DEF Lifecycle!Next
<1>5. CASE /\ rec[j].status \in {"queued", "running"}
           /\ r.status = "running" /\ r.attempts = rec[j].attempts + 1
           /\ rec[j].attempts < MaxAttempts
  <2>1. Lifecycle!Start(j)
    BY <1>1, <1>5, OneBecomes DEF Lifecycle!Start, SeenStatus
  <2>2. QED BY <2>1 DEF Lifecycle!Next
<1>6. CASE /\ rec[j].status \in {"queued", "running"}
           /\ r.status = "failed" /\ r.attempts = rec[j].attempts + 1
           /\ rec[j].attempts = MaxAttempts
  <2>1. Lifecycle!GiveUp(j)
    BY <1>1, <1>6, OneBecomes DEF Lifecycle!GiveUp, SeenStatus
  <2>2. QED BY <2>1 DEF Lifecycle!Next
<1>7. QED BY <1>2, <1>3, <1>4, <1>5, <1>6

LEMMA JobStepLifecycle ==
  ASSUME LifeInv, NEW j \in Jobs,
         \/ Settle(j) \/ AcceptNext(j) \/ AcceptDies(j) \/ LeaseLapses(j)
  PROVE  [Lifecycle!Next]_Lifecycle!vars
<1>0. TypeOK BY DEF LifeInv, OwedInv, PlacesInv, TypeInv
<1>1. CASE Settle(j) \/ AcceptDies(j) \/ LeaseLapses(j)
  <2>1. UNCHANGED rec /\ \A i \in Jobs : acc'[i] = "queued" <=> acc[i] = "queued"
    BY <1>0, <1>1 DEF Settle, AcceptDies, LeaseLapses, AcceptStep, TypeOK
  <2>2. QED BY <2>1, Stutter DEF SeenStatus, Seen
<1>2. CASE Create(j) \/ SavePaid(j)
  <2>1. /\ \A i \in Jobs : acc'[i] = "queued" <=> acc[i] = "queued"
        /\ acc[j] # "queued" /\ \A i \in Jobs \ {j} : rec'[i] = rec[i]
    BY <1>0, <1>2 DEF Create, SavePaid, AcceptStep, Save, TypeOK
  <2>2. rec'[j].attempts = 0
    BY <1>0, <1>2 DEF Create, SavePaid, Save, TypeOK, NoRec
  <2>3. rec[j].attempts = 0 BY <2>1 DEF LifeInv, RecordsInv
  <2>4. QED BY <2>1, <2>2, <2>3, Stutter DEF SeenStatus, Seen
<1>3. CASE Push(j)
  <2>1. /\ UNCHANGED rec /\ acc[j] = "saved" /\ acc'[j] = "queued"
        /\ \A i \in Jobs \ {j} : acc'[i] = acc[i]
    BY <1>0, <1>3 DEF Push, AcceptStep, TypeOK
  <2>2. rec[j].status = "queued" BY <2>1 DEF LifeInv, RecordsInv
  <2>3. Lifecycle!Accept(j)
    BY <2>1, <2>2, OneBecomes DEF Lifecycle!Accept, SeenStatus, Seen
  <2>4. QED BY <2>3 DEF Lifecycle!Next
<1>4. QED BY <1>1, <1>2, <1>3 DEF AcceptNext

LEMMA WorkerStepLifecycle ==
  ASSUME LifeInv, NEW w \in Workers,
         \/ StartScan(w) \/ TurnStep(w) \/ ThreadStep(w)
         \/ Crash(w) \/ RedisError(w)
  PROVE  [Lifecycle!Next]_Lifecycle!vars
<1>0. TypeOK /\ Busy /\ Known BY DEF LifeInv, OwedInv, PlacesInv, TypeInv
<1> DEFINE j == cur[w]
<1>1. CASE UNCHANGED <<rec, acc>>
  BY <1>1, Stutter DEF SeenStatus, Seen
<1>2. CASE MarkSave(w)
  <2>1. /\ j \in Jobs /\ acc[j] = "queued" /\ Owed(j) /\ copy[w].status = "queued"
        /\ copy[w].attempts = rec[j].attempts
    BY <1>0, <1>2 DEF MarkSave, Busy, Known, LifeInv, StandsInv, CopyInv, Before,
                      AtJob, Attempting
  <2>2. Save(j, copy[w]) /\ UNCHANGED acc BY <1>2 DEF MarkSave
  <2>3. QED BY <1>0, <2>1, <2>2, SaveLifecycle DEF Owed
<1>3. CASE SaveRunning(w)
  <2>1. /\ j \in Jobs /\ acc[j] = "queued" /\ Owed(j) /\ copy[w].status = "running"
        /\ copy[w].attempts = rec[j].attempts + 1 /\ copy[w].attempts <= MaxAttempts
    BY <1>0, <1>3 DEF SaveRunning, Busy, Known, LifeInv, StandsInv, CopyInv, Before,
                      AtJob, Holding, Attempting
  <2>2. Save(j, copy[w]) /\ UNCHANGED acc BY <1>3 DEF SaveRunning
  <2>3. rec[j].attempts < MaxAttempts
    BY <1>0, <2>1, ConstantsAssumption DEF TypeOK, Record
  <2>4. QED BY <1>0, <2>1, <2>2, <2>3, SaveLifecycle DEF Owed
<1>4. CASE SaveGivenUp(w)
  <2>1. /\ j \in Jobs /\ acc[j] = "queued" /\ Owed(j) /\ copy[w].status = "failed"
        /\ rec[j].attempts = MaxAttempts /\ copy[w].attempts = rec[j].attempts + 1
    BY <1>0, <1>4 DEF SaveGivenUp, Busy, Known, LifeInv, OwedInv, EndInv, StandsInv,
                      CopyInv, Before, AtJob, Holding, Attempting
  <2>2. Save(j, copy[w]) /\ UNCHANGED acc BY <1>4 DEF SaveGivenUp
  <2>3. QED BY <1>0, <2>1, <2>2, SaveLifecycle DEF Owed
<1>5. CASE SaveBeat(w) \/ SaveResult(w)
  <2>1. /\ j \in Jobs /\ acc[j] = "queued" /\ copy[w].attempts = rec[j].attempts
        /\ copy[w].status \in {"running"} \cup Outcomes
        /\ rec[j].status \in {"running", copy[w].status}
    BY <1>0, <1>5 DEF SaveBeat, SaveResult, Busy, Known, LifeInv, CopyInv, AtJob,
                      Holding, Attempting
  <2>2. Save(j, copy[w]) /\ UNCHANGED acc BY <1>5 DEF SaveBeat, SaveResult
  <2>3. \/ copy[w].status = rec[j].status
        \/ rec[j].status = "running" /\ copy[w].status \in Outcomes
    BY <2>1
  <2>4. QED BY <1>0, <2>1, <2>2, <2>3, SaveLifecycle
<1>6. QED
  BY <1>1, <1>2, <1>3, <1>4, <1>5
  DEF StartScan, TurnStep, ThreadStep, Crash, RedisError, CheckLease, TakeBack,
      PushBack, MarkGet, Reserve, TakeLease, GetRecord, RenewGet, RenewExpire,
      AckRemove, AckDelete, ThreadDecides, ThreadEnds, queueVars

LEMMA NextLifecycle == LifeInv /\ [Next]_vars => [Lifecycle!Next]_Lifecycle!vars
<1> SUFFICES ASSUME LifeInv, [Next]_vars PROVE [Lifecycle!Next]_Lifecycle!vars
  OBVIOUS
<1>1. CASE Next
  BY <1>1, CalmJobStep, JobStepLifecycle, WorkerStepLifecycle DEF Next
<1>2. CASE UNCHANGED vars BY <1>2, Stutter DEF vars, SeenStatus, Seen
<1>3. QED BY <1>1, <1>2

\* With one worker and faults only where they leave a finished job alone, what
\* buyers see is an execution of JobLifecycle: every attempt counted, no more
\* than max_attempts, and one outcome that stands.
THEOREM LifecycleImplemented ==
  ASSUME Alone, Calm
  PROVE  Spec => ImplementsLifecycle
<1>1. Init => LifeInv BY InitLifeInv
<1>2. LifeInv /\ [Next]_vars => LifeInv' BY NextLifeInv
<1>3. QED BY <1>1, <1>2, InitLifecycle, NextLifecycle, PTL
          DEF Spec, ImplementsLifecycle, Lifecycle!Spec
=============================================================================
