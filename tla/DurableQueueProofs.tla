------------------------- MODULE DurableQueueProofs -------------------------
(***************************************************************************)
(* Proofs about DurableQueue, for any set of jobs and workers, any number  *)
(* of attempts, and any number of faults of any kind at any point.         *)
(***************************************************************************)
EXTENDS DurableQueue, TLAPS

\* Points at which a worker is about to issue a command about its current job.
AtJob == Holding \cup {"lrem", "lpush", "marksave", "lease"}

\* A worker has a job wherever its next command names one, and only such a
\* worker has a build thread.
Busy ==
  /\ \A w \in Workers : pc[w] \in AtJob => cur[w] \in Jobs
  /\ \A w \in Workers : thread[w] # "none" => pc[w] \in Holding \ {"get"}

TypeInv == TypeOK /\ Busy

(* What the helpers of the actions do to the types.                         *)

LEMMA SpendType ==
  ASSUME left \in [FaultKinds -> Nat], NEW k \in FaultKinds, Spend(k)
  PROVE  left' \in [FaultKinds -> Nat]
  BY DEF Spend

LEMMA VerdictType ==
  ASSUME verdicts \in [Jobs -> SUBSET Reasons], NEW j \in Jobs,
         NEW why \in Reasons, Verdict(j, why)
  PROVE  verdicts' \in [Jobs -> SUBSET Reasons]
  BY DEF Verdict

LEMMA PushType ==
  ASSUME pending \in Seq(Jobs), NEW j \in Jobs
  PROVE  Append(pending, j) \in Seq(Jobs)
  OBVIOUS

LEMMA PopType ==
  ASSUME pending \in Seq(Jobs), pending # <<>>
  PROVE  Head(pending) \in Jobs /\ Tail(pending) \in Seq(Jobs)
  OBVIOUS

LEMMA StatusType ==
  ASSUME NEW r \in Record, NEW s \in Statuses
  PROVE  /\ [r EXCEPT !.status = s] \in Record
         /\ [r EXCEPT !.status = s, !.fresh = TRUE] \in Record
         /\ [r EXCEPT !.fresh = FALSE] \in Record
  BY DEF Record

LEMMA AttemptType ==
  ASSUME NEW r \in Record
  PROVE  NextAttempt(r) \in Record
<1> DEFINE s == IF r.attempts + 1 > MaxAttempts THEN "failed" ELSE "running"
<1>1. s \in Statuses BY DEF Statuses, Outcomes
<1>2. r.attempts + 1 \in Nat BY DEF Record
<1> HIDE DEF s
<1>3. [r EXCEPT !.attempts = r.attempts + 1, !.fresh = TRUE, !.status = s] \in Record
  BY <1>1, <1>2 DEF Record
<1>4. QED BY <1>3 DEF NextAttempt, s

LEMMA NoRecType == NoRec \in Record
  BY DEF NoRec, Record, Statuses, Outcomes

LEMMA ForgetType ==
  ASSUME TypeOK, NEW w \in Workers, Forget(w)
  PROVE  /\ pc' \in [Workers -> PCs] /\ cur' \in [Workers -> Jobs \cup {NoJob}]
         /\ copy' \in [Workers -> Record]
         /\ scan' \in [Workers -> SUBSET Jobs]
         /\ taken' \in [Workers -> SUBSET Jobs]
         /\ thread' \in [Workers -> {"none", "alive", "decided", "done"}]
  BY NoRecType DEF Forget, Goto, TypeOK, PCs

LEMMA ForgetBusy ==
  ASSUME TypeOK, Busy, NEW w \in Workers, Forget(w)
  PROVE  Busy'
  BY DEF Forget, Goto, TypeOK, Busy, AtJob, Holding

LEMMA ContinueType ==
  ASSUME TypeOK, NEW w \in Workers, NEW s, NEW t, Continue(w, s, t)
  PROVE  /\ pc' \in [Workers -> PCs]
         /\ pc'[w] \notin AtJob
         /\ \A v \in Workers \ {w} : pc'[v] = pc[v]
  BY DEF Continue, Goto, TypeOK, PCs, AtJob, Holding

LEMMA InitTypeInv == Init => TypeInv
  BY ConstantsAssumption
  DEF Init, TypeInv, TypeOK, Busy, Record, NoRec, Statuses, Outcomes, Stages,
      Owners, NoOwner, PCs, Reasons, AtJob, Holding

\* The requests that accept and poll a job leave the workers alone.
LEMMA JobStepTypeInv ==
  ASSUME TypeInv, NEW j \in Jobs,
         \/ Settle(j) \/ AcceptNext(j) \/ AcceptDies(j)
         \/ PollRead(j) \/ PollSave(j)
         \/ LeaseLapses(j) \/ Age(j) \/ RecordExpires(j)
  PROVE  TypeInv'
<1>0. TypeOK /\ Busy BY DEF TypeInv
<1>1. UNCHANGED workerVars
  BY DEF Settle, AcceptNext, Create, SavePaid, Push, AcceptDies, PollRead,
         PollSave, LeaseLapses, Age, RecordExpires
<1>2. Busy' BY <1>0, <1>1 DEF Busy, workerVars
<1>3. CASE Settle(j)
  BY <1>0, <1>2, <1>3 DEF TypeInv, Settle, AcceptStep, TypeOK, Stages, queueVars, workerVars,
                    history
<1>4. CASE Create(j)
  BY <1>0, <1>2, <1>4 DEF TypeInv, Create, AcceptStep, Save, TypeOK, Stages, queueVars,
                    workerVars, history, NoRec, Record, Statuses
<1>5. CASE SavePaid(j)
  BY <1>0, <1>2, <1>5 DEF TypeInv, SavePaid, AcceptStep, Save, TypeOK, Stages, queueVars,
                    workerVars, history, NoRec, Record, Statuses
<1>6. CASE Push(j)
  BY <1>0, <1>2, <1>6, PushType DEF TypeInv, Push, AcceptStep, TypeOK, Stages, workerVars,
                              history
<1>7. CASE AcceptDies(j)
  <2>1. left' \in [FaultKinds -> Nat]
    BY <1>0, <1>7, SpendType DEF AcceptDies, TypeOK, FaultKinds
  <2>2. QED BY <1>0, <1>7, <2>1 DEF AcceptDies, TypeOK, Stages, queueVars,
                                    workerVars, history, TypeInv, Busy
<1>8. CASE PollRead(j)
  <2>1. verdicts' \in [Jobs -> SUBSET Reasons]
    BY <1>0, <1>8, VerdictType DEF PollRead, TypeOK, Reasons
  <2>2. [rec[j] EXCEPT !.status = "failed"] \in Record
    BY <1>0, StatusType DEF TypeOK, Statuses, Outcomes
  <2>3. TypeOK' BY <1>0, <1>8, <2>1, <2>2 DEF PollRead, TypeOK, queueVars,
                                              workerVars
  <2>4. QED BY <1>2, <2>3 DEF TypeInv
<1>9. CASE PollSave(j)
  BY <1>0, <1>2, <1>9, NoRecType DEF PollSave, Save, TypeOK, TypeInv,
                                     queueVars, workerVars, history
<1>10. CASE LeaseLapses(j)
  <2>1. left' \in [FaultKinds -> Nat]
    BY <1>0, <1>10, SpendType DEF LeaseLapses, TypeOK, FaultKinds
  <2>2. NoOwner \in Owners BY DEF NoOwner, Owners
  <2>3. TypeOK' BY <1>0, <1>10, <2>1, <2>2 DEF LeaseLapses, TypeOK, workerVars,
                                               history
  <2>4. QED BY <1>2, <2>3 DEF TypeInv
<1>11. CASE Age(j)
  <2>1. left' \in [FaultKinds -> Nat]
    BY <1>0, <1>11, SpendType DEF Age, TypeOK, FaultKinds
  <2>2. [rec[j] EXCEPT !.fresh = FALSE] \in Record
    BY <1>0, StatusType DEF TypeOK, Statuses
  <2>3. TypeOK' BY <1>0, <1>11, <2>1, <2>2 DEF Age, Save, TypeOK, queueVars,
                                               workerVars, history
  <2>4. QED BY <1>2, <2>3 DEF TypeInv
<1>12. CASE RecordExpires(j)
  <2>1. left' \in [FaultKinds -> Nat]
    BY <1>0, <1>12, SpendType DEF RecordExpires, TypeOK, FaultKinds
  <2>2. TypeOK' BY <1>0, <1>12, <2>1, NoRecType
                   DEF RecordExpires, Save, TypeOK, queueVars, workerVars,
                       history
  <2>3. QED BY <1>2, <2>2 DEF TypeInv
<1>13. TypeOK' => TypeInv' BY <1>2 DEF TypeInv
<1>14. QED
  BY <1>2, <1>3, <1>4, <1>5, <1>6, <1>7, <1>8, <1>9, <1>10, <1>11, <1>12, <1>13
     DEF AcceptNext, TypeInv

LEMMA ReaperTypeInv ==
  ASSUME TypeInv, NEW w \in Workers,
         \/ StartScan(w) \/ CheckLease(w) \/ TakeBack(w) \/ PushBack(w)
         \/ MarkGet(w) \/ MarkSave(w)
  PROVE  TypeInv'
<1>0. TypeOK /\ Busy BY DEF TypeInv
<1>1. CASE StartScan(w)
  <2>1. pc' \in [Workers -> PCs] /\ pc'[w] \notin AtJob
        /\ \A v \in Workers \ {w} : pc'[v] = pc[v]
    BY <1>0, <1>1, ContinueType DEF StartScan
  <2>2. TypeOK' BY <1>0, <1>1, <2>1 DEF StartScan, TypeOK, InFlight, queueVars,
                                        history
  <2>3. Busy' BY <1>0, <1>1, <2>1 DEF StartScan, TypeOK, Busy, Holding, AtJob
  <2>4. QED BY <2>2, <2>3 DEF TypeInv
<1>2. CASE CheckLease(w)
  <2>1. PICK j \in scan[w] :
          /\ scan' = [scan EXCEPT ![w] = @ \ {j}]
          /\ \/ /\ Continue(w, scan[w] \ {j}, taken[w])
                /\ UNCHANGED <<cur, left>>
             \/ /\ Goto(w, "lrem")
                /\ cur' = [cur EXCEPT ![w] = j]
                /\ Spend("overlap") \/ UNCHANGED left
    BY <1>2 DEF CheckLease
  <2>2. j \in Jobs BY <1>0 DEF TypeOK
  <2>3. left' \in [FaultKinds -> Nat]
    BY <1>0, <2>1, SpendType DEF TypeOK, FaultKinds
  <2>4. CASE Continue(w, scan[w] \ {j}, taken[w]) /\ UNCHANGED cur
    <3>1. pc' \in [Workers -> PCs] /\ pc'[w] \notin AtJob
          /\ \A v \in Workers \ {w} : pc'[v] = pc[v]
      BY <1>0, <2>4, ContinueType
    <3>2. TypeOK' BY <1>0, <1>2, <2>1, <2>3, <2>4, <3>1
                     DEF CheckLease, TypeOK, queueVars, history
    <3>3. Busy' BY <1>0, <1>2, <2>4, <3>1
                   DEF CheckLease, TypeOK, Busy, Holding, AtJob
    <3>4. QED BY <3>2, <3>3 DEF TypeInv
  <2>5. CASE Goto(w, "lrem") /\ cur' = [cur EXCEPT ![w] = j]
    <3>1. TypeOK' BY <1>0, <1>2, <2>1, <2>2, <2>3, <2>5
                     DEF CheckLease, Goto, TypeOK, PCs, queueVars, history
    <3>2. Busy' BY <1>0, <1>2, <2>2, <2>5
                   DEF CheckLease, Goto, TypeOK, Busy, Holding, AtJob
    <3>3. QED BY <3>1, <3>2 DEF TypeInv
  <2>6. QED BY <2>1, <2>4, <2>5
<1>3. CASE TakeBack(w)
  <2>1. cur[w] \in Jobs BY <1>0, <1>3 DEF TakeBack, Busy, AtJob
  <2>2. CASE inflight[cur[w]] > 0
    <3>0. inflight[cur[w]] - 1 \in Nat BY <1>0, <2>1, <2>2 DEF TypeOK
    <3>1. inflight' \in [Jobs -> Nat]
      BY <1>0, <1>3, <2>1, <2>2, <3>0 DEF TakeBack, TypeOK
    <3>2. TypeOK' BY <1>0, <1>3, <2>2, <3>1 DEF TakeBack, Goto, TypeOK, PCs, history
    <3>3. Busy' BY <1>0, <1>3, <2>2
                   DEF TakeBack, Goto, TypeOK, Busy, Holding, AtJob
    <3>4. QED BY <3>2, <3>3 DEF TypeInv
  <2>3. CASE ~(inflight[cur[w]] > 0)
    <3>1. pc' \in [Workers -> PCs] /\ pc'[w] \notin AtJob
          /\ \A v \in Workers \ {w} : pc'[v] = pc[v]
      BY <1>0, <1>3, <2>3, ContinueType DEF TakeBack
    <3>2. TypeOK' BY <1>0, <1>3, <2>3, <3>1 DEF TakeBack, TypeOK, history
    <3>3. Busy' BY <1>0, <1>3, <2>3, <3>1
                   DEF TakeBack, TypeOK, Busy, Holding, AtJob
    <3>4. QED BY <3>2, <3>3 DEF TypeInv
  <2>4. QED BY <2>2, <2>3
<1>4. CASE PushBack(w)
  <2>1. cur[w] \in Jobs BY <1>0, <1>4 DEF PushBack, Busy, AtJob
  <2>2. pc' \in [Workers -> PCs] /\ pc'[w] \notin AtJob
        /\ \A v \in Workers \ {w} : pc'[v] = pc[v]
    BY <1>0, <1>4, ContinueType DEF PushBack
  <2>3. TypeOK' BY <1>0, <1>4, <2>1, <2>2, PushType DEF PushBack, TypeOK, history
  <2>4. Busy' BY <1>0, <1>4, <2>2 DEF PushBack, TypeOK, Busy, Holding, AtJob
  <2>5. QED BY <2>3, <2>4 DEF TypeInv
<1>5. CASE MarkGet(w)
  <2>1. PICK j \in taken[w] :
          /\ taken' = [taken EXCEPT ![w] = @ \ {j}]
          /\ \/ Continue(w, {}, taken[w] \ {j}) /\ UNCHANGED <<cur, copy>>
             \/ /\ Goto(w, "marksave")
                /\ cur' = [cur EXCEPT ![w] = j]
                /\ copy' = [copy EXCEPT ![w] =
                     [rec[j] EXCEPT !.status = "queued", !.fresh = TRUE]]
    BY <1>5 DEF MarkGet
  <2>2. j \in Jobs BY <1>0 DEF TypeOK
  <2>3. CASE Continue(w, {}, taken[w] \ {j}) /\ UNCHANGED <<cur, copy>>
    <3>1. pc' \in [Workers -> PCs] /\ pc'[w] \notin AtJob
          /\ \A v \in Workers \ {w} : pc'[v] = pc[v]
      BY <1>0, <2>3, ContinueType
    <3>2. TypeOK' BY <1>0, <1>5, <2>1, <2>3, <3>1
                     DEF MarkGet, TypeOK, queueVars, history
    <3>3. Busy' BY <1>0, <1>5, <2>3, <3>1
                   DEF MarkGet, TypeOK, Busy, Holding, AtJob
    <3>4. QED BY <3>2, <3>3 DEF TypeInv
  <2>4. CASE /\ Goto(w, "marksave")
             /\ cur' = [cur EXCEPT ![w] = j]
             /\ copy' = [copy EXCEPT ![w] =
                  [rec[j] EXCEPT !.status = "queued", !.fresh = TRUE]]
    <3>1. [rec[j] EXCEPT !.status = "queued", !.fresh = TRUE] \in Record
      BY <1>0, <2>2, StatusType DEF TypeOK, Statuses
    <3>2. TypeOK' BY <1>0, <1>5, <2>1, <2>2, <2>4, <3>1
                     DEF MarkGet, Goto, TypeOK, PCs, queueVars, history
    <3>3. Busy' BY <1>0, <1>5, <2>2, <2>4
                   DEF MarkGet, Goto, TypeOK, Busy, Holding, AtJob
    <3>4. QED BY <3>2, <3>3 DEF TypeInv
  <2>5. QED BY <2>1, <2>3, <2>4
<1>6. CASE MarkSave(w)
  <2>1. cur[w] \in Jobs BY <1>0, <1>6 DEF MarkSave, Busy, AtJob
  <2>2. pc' \in [Workers -> PCs] /\ pc'[w] \notin AtJob
        /\ \A v \in Workers \ {w} : pc'[v] = pc[v]
    BY <1>0, <1>6, ContinueType DEF MarkSave
  <2>3. TypeOK' BY <1>0, <1>6, <2>1, <2>2, NoRecType
                   DEF MarkSave, Save, TypeOK, queueVars, history
  <2>4. Busy' BY <1>0, <1>6, <2>2 DEF MarkSave, TypeOK, Busy, Holding, AtJob
  <2>5. QED BY <2>3, <2>4 DEF TypeInv
<1>7. QED BY <1>1, <1>2, <1>3, <1>4, <1>5, <1>6

LEMMA TurnTypeInv ==
  ASSUME TypeInv, NEW w \in Workers,
         \/ Reserve(w) \/ TakeLease(w) \/ GetRecord(w) \/ SaveGivenUp(w)
         \/ SaveRunning(w)
  PROVE  TypeInv'
<1>0. TypeOK /\ Busy BY DEF TypeInv
<1>1. CASE Reserve(w)
  <2>1. CASE pending = <<>>
    BY <1>0, <1>1, <2>1 DEF Reserve, Goto, TypeInv, TypeOK, Busy, PCs, AtJob,
                            Holding, history
  <2>2. CASE pending # <<>>
    <3>1. Head(pending) \in Jobs /\ Tail(pending) \in Seq(Jobs)
      BY <1>0, <2>2, PopType DEF TypeOK
    <3>2. inflight' \in [Jobs -> Nat] BY <1>0, <1>1, <2>2, <3>1 DEF Reserve, TypeOK
    <3>3. TypeOK' BY <1>0, <1>1, <2>2, <3>1, <3>2
                     DEF Reserve, Goto, TypeOK, PCs, history
    <3>4. Busy' BY <1>0, <1>1, <2>2, <3>1
                   DEF Reserve, Goto, TypeOK, Busy, AtJob, Holding
    <3>5. QED BY <3>3, <3>4 DEF TypeInv
  <2>3. QED BY <2>1, <2>2
<1>2. CASE TakeLease(w)
  BY <1>0, <1>2 DEF TakeLease, Goto, TypeInv, TypeOK, Busy, PCs, AtJob, Holding,
                    Owners, Me, history
<1>3. CASE GetRecord(w)
  <2>1. cur[w] \in Jobs BY <1>0, <1>3 DEF GetRecord, Busy, AtJob, Holding
  <2>2. copy' \in [Workers -> Record]
    BY <1>0, <1>3, <2>1, AttemptType DEF GetRecord, TypeOK
  <2>3. verdicts' \in [Jobs -> SUBSET Reasons]
    BY <1>0, <1>3, <2>1, VerdictType DEF GetRecord, TypeOK, Reasons
  <2>4. TypeOK' BY <1>0, <1>3, <2>2, <2>3
                   DEF GetRecord, Goto, TypeOK, PCs, queueVars
  <2>5. Busy' BY <1>0, <1>3, <2>1 DEF GetRecord, Goto, TypeOK, Busy, AtJob, Holding
  <2>6. QED BY <2>4, <2>5 DEF TypeInv
<1>4. CASE SaveGivenUp(w)
  BY <1>0, <1>4 DEF SaveGivenUp, Goto, Save, TypeInv, TypeOK, Busy, PCs, AtJob,
                    Holding, queueVars, history
<1>5. CASE SaveRunning(w)
  BY <1>0, <1>5 DEF SaveRunning, Goto, Save, TypeInv, TypeOK, Busy, PCs, AtJob,
                    Holding, queueVars
<1>6. QED BY <1>1, <1>2, <1>3, <1>4, <1>5

LEMMA BuildTypeInv ==
  ASSUME TypeInv, NEW w \in Workers,
         \/ ThreadStep(w) \/ RenewGet(w) \/ RenewExpire(w) \/ SaveBeat(w)
         \/ SaveResult(w) \/ AckRemove(w) \/ AckDelete(w) \/ Crash(w)
         \/ RedisError(w)
  PROVE  TypeInv'
<1>0. TypeOK /\ Busy BY DEF TypeInv
<1>1. ASSUME thread[w] # "none", NEW s \in Outcomes, Conclude(w, s)
      PROVE  /\ copy' \in [Workers -> Record]
             /\ verdicts' \in [Jobs -> SUBSET Reasons]
  <2>1. cur[w] \in Jobs BY <1>0, <1>1 DEF Busy, AtJob
  <2>2. verdicts' \in [Jobs -> SUBSET Reasons]
    BY <1>0, <1>1, <2>1, VerdictType DEF Conclude, TypeOK, Reasons, Outcomes
  <2>3. [copy[w] EXCEPT !.status = s] \in Record
    BY <1>0, StatusType DEF TypeOK, Statuses
  <2>4. QED BY <1>0, <1>1, <2>2, <2>3 DEF Conclude, TypeOK
<1>2. CASE ThreadDecides(w)
  <2>1. copy' \in [Workers -> Record] /\ verdicts' \in [Jobs -> SUBSET Reasons]
    BY <1>1, <1>2 DEF ThreadDecides
  <2>2. TypeOK' BY <1>0, <1>2, <2>1 DEF ThreadDecides, TypeOK, queueVars
  <2>3. Busy' BY <1>0, <1>2 DEF ThreadDecides, TypeOK, Busy
  <2>4. QED BY <2>2, <2>3 DEF TypeInv
<1>3. CASE ThreadEnds(w)
  <2>1. copy' \in [Workers -> Record] /\ verdicts' \in [Jobs -> SUBSET Reasons]
    BY <1>0, <1>1, <1>3 DEF ThreadEnds, TypeOK, Outcomes
  <2>2. left' \in [FaultKinds -> Nat]
    BY <1>0, <1>3, SpendType DEF ThreadEnds, TypeOK, FaultKinds
  <2>3. TypeOK' BY <1>0, <1>3, <2>1, <2>2 DEF ThreadEnds, TypeOK, queueVars
  <2>4. Busy' BY <1>0, <1>3 DEF ThreadEnds, TypeOK, Busy
  <2>5. QED BY <2>3, <2>4 DEF TypeInv
<1>4. CASE Forget(w) /\ UNCHANGED <<queueVars, rec, acc, poll, inc, left, history>>
  <2>1. TypeOK' BY <1>0, <1>4, ForgetType DEF TypeOK, queueVars, history
  <2>2. QED BY <1>0, <1>4, <2>1, ForgetBusy DEF TypeInv
<1>5. CASE RenewGet(w) \/ RenewExpire(w)
  <2>1. CASE ~Forget(w)
    <3>1. /\ \E p \in {"last", "beat", "saveresult", "savebeat"} : pc' = [pc EXCEPT ![w] = p]
          /\ pc[w] \in Holding \ {"get"}
      BY <1>5, <2>1 DEF RenewGet, RenewExpire, Goto, Holding
    <3>2. TypeOK'
      <4>1. /\ UNCHANGED <<queueVars, rec, acc, poll, inc, left, history>>
            /\ UNCHANGED <<cur, copy, scan, taken, thread>>
        BY <1>5, <2>1 DEF RenewGet, RenewExpire
      <4>2. pc' \in [Workers -> PCs]
        BY <1>0, <3>1 DEF TypeOK, PCs
      <4> QED
        BY <1>0, <4>1, <4>2 DEF TypeOK, queueVars, history
    <3>3. Busy'
      <4>1. UNCHANGED <<cur, thread>>
        BY <1>5, <2>1 DEF RenewGet, RenewExpire
      <4> QED
        BY <1>0, <3>1, <4>1 DEF TypeOK, Busy, AtJob, Holding
    <3> QED
      BY <3>2, <3>3 DEF TypeInv
  <2>2. QED BY <1>4, <1>5, <2>1 DEF RenewGet, RenewExpire
<1>6. CASE SaveBeat(w)
  BY <1>0, <1>6 DEF SaveBeat, Goto, Save, TypeInv, TypeOK, Busy, PCs, AtJob,
                    Holding, queueVars, history
<1>7. CASE SaveResult(w)
  BY <1>0, <1>7 DEF SaveResult, Goto, Save, TypeInv, TypeOK, Busy, PCs, AtJob,
                    Holding, queueVars, history
<1>8. CASE AckRemove(w)
  BY <1>0, <1>8 DEF AckRemove, Goto, TypeInv, TypeOK, Busy, PCs, AtJob, Holding,
                    history
<1>9. CASE AckDelete(w)
  <2>1. NoOwner \in Owners BY DEF NoOwner, Owners
  <2>2. TypeOK' BY <1>0, <1>9, <2>1, ForgetType DEF AckDelete, TypeOK, history
  <2>3. QED BY <1>0, <1>9, <2>2, ForgetBusy DEF AckDelete, TypeInv
<1>10. CASE Crash(w) \/ RedisError(w)
  <2>1. left' \in [FaultKinds -> Nat]
    BY <1>0, <1>10, SpendType DEF Crash, RedisError, TypeOK, FaultKinds
  <2>2. inc' \in [Workers -> Nat]
    <3>1. CASE Crash(w) BY <1>0, <3>1 DEF Crash, TypeOK
    <3>2. CASE RedisError(w) BY <1>0, <3>2 DEF RedisError, TypeOK
    <3>3. QED BY <1>10, <3>1, <3>2
  <2>3. TypeOK' BY <1>0, <1>10, <2>1, <2>2, ForgetType
                   DEF Crash, RedisError, TypeOK, queueVars, history
  <2>4. QED BY <1>0, <1>10, <2>3, ForgetBusy DEF Crash, RedisError, TypeInv
<1>11. QED BY <1>2, <1>3, <1>5, <1>6, <1>7, <1>8, <1>9, <1>10 DEF ThreadStep

LEMMA NextTypeInv == TypeInv /\ [Next]_vars => TypeInv'
<1> SUFFICES ASSUME TypeInv, [Next]_vars PROVE TypeInv'
  OBVIOUS
<1>1. CASE Next
  BY <1>1, JobStepTypeInv, ReaperTypeInv, TurnTypeInv, BuildTypeInv
     DEF Next, TurnStep
<1>2. CASE UNCHANGED vars
  BY <1>2 DEF vars, queueVars, workerVars, history, TypeInv, TypeOK, Busy
<1>3. QED BY <1>1, <1>2

\* Every variable keeps its type whatever the processes and faults do.
THEOREM TypeCorrect == Spec => []TypeOK
<1>1. TypeInv => TypeOK BY DEF TypeInv
<1>2. QED BY <1>1, InitTypeInv, NextTypeInv, PTL DEF Spec
-----------------------------------------------------------------------------
(* QueueOnce.                                                               *)

LEMMA AppendFacts ==
  ASSUME NEW s \in Seq(Jobs), NEW j \in Jobs
  PROVE  /\ Len(Append(s, j)) = Len(s) + 1
         /\ \A i \in 1 .. Len(s) : Append(s, j)[i] = s[i]
         /\ Append(s, j)[Len(s) + 1] = j
  OBVIOUS

LEMMA TailFacts ==
  ASSUME NEW s \in Seq(Jobs), s # <<>>
  PROVE  /\ Len(s) \in Nat \ {0}
         /\ Len(Tail(s)) = Len(s) - 1
         /\ \A i \in 1 .. Len(Tail(s)) : Tail(s)[i] = s[i + 1]
         /\ Head(s) = s[1]
  OBVIOUS

\* Only jobs whose acceptance is complete are known to the queue and workers.
Known ==
  /\ \A i \in 1 .. Len(pending) : acc[pending[i]] = "queued"
  /\ \A j \in Jobs : inflight[j] > 0 => acc[j] = "queued"
  /\ \A w \in Workers : cur[w] \in Jobs => acc[cur[w]] = "queued"
  /\ \A w \in Workers : \A j \in scan[w] \cup taken[w] : acc[j] = "queued"

PlacesInv == TypeInv /\ Known /\ QueueOnce

\* A step that leaves the lists alone and gives no reaper an id to push back.
LEMMA QueueOnceFrame ==
  ASSUME QueueOnce, UNCHANGED <<pending, inflight>>,
         \A w \in Workers : pc'[w] = "lpush" =>
           pc[w] = "lpush" /\ cur'[w] = cur[w]
  PROVE  QueueOnce'
  BY DEF QueueOnce, Waiting

\* An id that is nowhere in the queue may be appended to pending.
LEMMA QueueOnceAppend ==
  ASSUME TypeInv, TypeInv', QueueOnce, NEW j \in Jobs,
         j \notin Waiting, inflight[j] = 0,
         pending' = Append(pending, j), UNCHANGED inflight,
         \A w \in Workers : pc'[w] = "lpush" =>
           pc[w] = "lpush" /\ cur'[w] = cur[w] /\ cur[w] # j
  PROVE  QueueOnce'
<1>0. pending \in Seq(Jobs) BY DEF TypeInv, TypeOK
<1>1. /\ Len(pending') = Len(pending) + 1
      /\ \A i \in 1 .. Len(pending) : pending'[i] = pending[i]
      /\ pending'[Len(pending) + 1] = j
      /\ Len(pending) \in Nat
  BY <1>0, AppendFacts
<1>2. \A i \in 1 .. Len(pending') :
        pending'[i] = j <=> i = Len(pending) + 1
  BY <1>1 DEF Waiting
<1>3. \A i, k \in 1 .. Len(pending') : pending'[i] = pending'[k] => i = k
  BY <1>1, <1>2 DEF QueueOnce
<1>4. Waiting' \subseteq Waiting \cup {j}
  BY <1>1 DEF Waiting
<1>5. QED BY <1>3, <1>4 DEF QueueOnce

LEMMA InitPlacesInv == Init => PlacesInv
  BY InitTypeInv, ConstantsAssumption DEF Init, PlacesInv, Known, QueueOnce, Waiting

LEMMA JobStepPlacesInv ==
  ASSUME PlacesInv, TypeInv', NEW j \in Jobs,
         \/ Settle(j) \/ AcceptNext(j) \/ AcceptDies(j)
         \/ PollRead(j) \/ PollSave(j)
         \/ LeaseLapses(j) \/ Age(j) \/ RecordExpires(j)
  PROVE  PlacesInv'
<1>0. TypeOK /\ Known /\ QueueOnce BY DEF PlacesInv, TypeInv
<1>1. UNCHANGED <<workerVars, inflight>>
  BY DEF Settle, AcceptNext, Create, SavePaid, Push, AcceptDies, PollRead,
         PollSave, LeaseLapses, Age, RecordExpires, queueVars
<1>2. \A i \in Jobs : acc[i] = "queued" => acc'[i] = "queued"
  BY <1>0 DEF Settle, AcceptNext, Create, SavePaid, Push, AcceptDies, PollRead,
         PollSave, LeaseLapses, Age, RecordExpires, AcceptStep, TypeOK
<1>3. CASE Push(j)
  <2>1. acc[j] = "saved" /\ acc'[j] = "queued" /\ pending' = Append(pending, j)
    BY <1>0, <1>3 DEF Push, AcceptStep, TypeOK
  <2>2. j \notin Waiting /\ inflight[j] = 0 /\ \A w \in Workers : cur[w] # j
    BY <1>0, <2>1 DEF Known, Waiting, TypeOK
  <2>3. QueueOnce'
    BY <1>0, <1>1, <2>1, <2>2, QueueOnceAppend DEF PlacesInv, workerVars
  <2>4. \A i \in 1 .. Len(pending') : acc'[pending'[i]] = "queued"
    <3>1. pending \in Seq(Jobs) BY <1>0 DEF TypeOK
    <3>2. \A i \in 1 .. Len(pending) : pending[i] \in Jobs BY <3>1
    <3>3. QED BY <1>0, <1>2, <2>1, <3>1, <3>2, AppendFacts DEF Known
  <2>5. Known' BY <1>0, <1>1, <1>2, <2>4 DEF Known, workerVars, TypeOK
  <2>6. QED BY <2>3, <2>5 DEF PlacesInv
<1>4. CASE UNCHANGED pending
  <2>1. QueueOnce' BY <1>0, <1>1, <1>4, QueueOnceFrame DEF workerVars
  <2>2. \A i \in 1 .. Len(pending) : pending[i] \in Jobs BY <1>0 DEF TypeOK
  <2>3. Known' BY <1>0, <1>1, <1>2, <1>4, <2>2 DEF Known, workerVars, TypeOK
  <2>4. QED BY <2>1, <2>3 DEF PlacesInv
<1>5. QED
  BY <1>3, <1>4 DEF Settle, AcceptNext, Create, SavePaid, AcceptDies, PollRead,
         PollSave, LeaseLapses, Age, RecordExpires, queueVars

\* Every worker step but three leaves both lists alone; none touches acc.
LEMMA WorkerStepPlacesInv ==
  ASSUME PlacesInv, TypeInv', NEW w \in Workers,
         \/ StartScan(w) \/ TurnStep(w) \/ ThreadStep(w)
         \/ Crash(w) \/ RedisError(w)
  PROVE  PlacesInv'
<1>0. TypeOK /\ Busy /\ Known /\ QueueOnce BY DEF PlacesInv, TypeInv
<1>1. acc' = acc
  BY DEF StartScan, TurnStep, ThreadStep, Crash, RedisError, CheckLease,
         TakeBack, PushBack, MarkGet, MarkSave, Reserve, TakeLease, GetRecord,
         SaveGivenUp, SaveRunning, RenewGet, RenewExpire, SaveBeat, SaveResult,
         AckRemove, AckDelete, ThreadDecides, ThreadEnds
<1>2. CASE TakeBack(w)
  <2>1. cur[w] \in Jobs BY <1>0, <1>2 DEF TakeBack, Busy, AtJob
  <2>2. CASE inflight[cur[w]] > 0
    <3>1. /\ inflight[cur[w]] = 1 /\ cur[w] \notin Waiting
          /\ inflight' = [inflight EXCEPT ![cur[w]] = 0]
          /\ pc' = [pc EXCEPT ![w] = "lpush"] /\ UNCHANGED <<pending, cur>>
      BY <1>0, <1>2, <2>1, <2>2 DEF TakeBack, QueueOnce, TypeOK, Goto
    <3>2. \A v \in Workers : pc[v] = "lpush" => cur[v] # cur[w]
      BY <1>0, <3>1 DEF QueueOnce
    <3>3. Waiting' = Waiting BY <3>1 DEF Waiting
    <3>4. QueueOnce' BY <1>0, <2>1, <3>1, <3>2, <3>3 DEF QueueOnce, TypeOK, Busy, AtJob
    <3>5. Known' BY <1>0, <1>1, <1>2, <3>1 DEF Known, TakeBack, TypeOK
    <3>6. QED BY <3>4, <3>5 DEF PlacesInv
  <2>3. CASE ~(inflight[cur[w]] > 0)
    <3>1. pc'[w] # "lpush" /\ \A v \in Workers \ {w} : pc'[v] = pc[v] /\ cur'[v] = cur[v]
      BY <1>0, <1>2, <2>3, ContinueType DEF TakeBack, AtJob, TypeOK
    <3>2. QueueOnce' BY <1>0, <1>2, <2>3, <3>1, QueueOnceFrame DEF TakeBack
    <3>3. Known' BY <1>0, <1>1, <1>2, <2>3, ConstantsAssumption
                    DEF Known, TakeBack, TypeOK
    <3>4. QED BY <3>2, <3>3 DEF PlacesInv
  <2>4. QED BY <2>2, <2>3
<1>3. CASE PushBack(w)
  <2>1. cur[w] \in Jobs BY <1>0, <1>3 DEF PushBack, Busy, AtJob
  <2>2. cur[w] \notin Waiting /\ inflight[cur[w]] = 0
    BY <1>0, <1>3 DEF PushBack, QueueOnce
  <2>3. pc'[w] # "lpush" /\ \A v \in Workers \ {w} : pc'[v] = pc[v] /\ cur'[v] = cur[v]
    BY <1>0, <1>3, ContinueType DEF PushBack, AtJob, TypeOK
  <2>4. \A v \in Workers : pc'[v] = "lpush" =>
          pc[v] = "lpush" /\ cur'[v] = cur[v] /\ cur[v] # cur[w]
    BY <1>0, <1>3, <2>3 DEF PushBack, QueueOnce
  <2>5. QueueOnce'
    BY <1>0, <1>3, <2>1, <2>2, <2>4, QueueOnceAppend DEF PushBack, PlacesInv
  <2>6. \A i \in 1 .. Len(pending') : acc[pending'[i]] = "queued"
    <3>1. pending \in Seq(Jobs) BY <1>0 DEF TypeOK
    <3>2. acc[cur[w]] = "queued" BY <1>0, <2>1 DEF Known
    <3>3. QED BY <1>0, <1>3, <2>1, <3>1, <3>2, AppendFacts DEF Known, PushBack
  <2>7. Known' BY <1>0, <1>1, <1>3, <2>1, <2>6, ConstantsAssumption
                  DEF Known, PushBack, TypeOK
  <2>8. QED BY <2>5, <2>7 DEF PlacesInv
<1>4. CASE Reserve(w)
  <2>1. CASE pending = <<>>
    <3>1. QueueOnce' BY <1>0, <1>4, <2>1, QueueOnceFrame DEF Reserve, Goto, TypeOK
    <3>2. Known' BY <1>0, <1>1, <1>4, <2>1 DEF Known, Reserve
    <3>3. QED BY <3>1, <3>2 DEF PlacesInv
  <2>2. CASE pending # <<>>
    <3> DEFINE h == Head(pending)
    <3>1. /\ Len(pending) \in Nat \ {0} /\ h = pending[1] /\ h \in Jobs
          /\ Len(pending') = Len(pending) - 1
          /\ \A i \in 1 .. Len(pending') : pending'[i] = pending[i + 1]
      BY <1>0, <1>4, <2>2, TailFacts, PopType DEF Reserve, TypeOK
    <3>2. /\ inflight' = [inflight EXCEPT ![h] = @ + 1]
          /\ cur' = [cur EXCEPT ![w] = h] /\ pc' = [pc EXCEPT ![w] = "lease"]
      BY <1>4, <2>2 DEF Reserve, Goto
    <3> HIDE DEF h
    <3>3. h \in Waiting BY <3>1 DEF Waiting
    <3>4. inflight[h] = 0 BY <1>0, <3>1, <3>3 DEF QueueOnce, TypeOK
    <3>5. \A i \in 1 .. Len(pending') : pending'[i] # h
      BY <1>0, <3>1 DEF QueueOnce
    <3>6. Waiting' \subseteq Waiting /\ h \notin Waiting'
      BY <3>1, <3>5 DEF Waiting
    <3>7. \A i, k \in 1 .. Len(pending') : pending'[i] = pending'[k] => i = k
      BY <1>0, <3>1 DEF QueueOnce
    <3>8. \A v \in Workers : pc'[v] = "lpush" =>
            pc[v] = "lpush" /\ cur'[v] = cur[v] /\ cur[v] # h
      BY <1>0, <3>2, <3>3 DEF QueueOnce, TypeOK
    <3>9. \A j \in Jobs : inflight'[j] = IF j = h THEN 1 ELSE inflight[j]
      BY <1>0, <3>1, <3>2, <3>4 DEF TypeOK
    <3>10. \A v \in Workers : pc[v] = "lpush" => cur[v] \in Jobs
      BY <1>0 DEF Busy, AtJob
    <3>11. QueueOnce' BY <1>0, <3>6, <3>7, <3>8, <3>9, <3>10 DEF QueueOnce
    <3>12. acc[h] = "queued" BY <1>0, <3>1 DEF Known
    <3>13. \A i \in 1 .. Len(pending') : acc[pending'[i]] = "queued"
      BY <1>0, <3>1 DEF Known
    <3>14. \A v \in Workers : cur'[v] \in Jobs => acc[cur'[v]] = "queued"
      BY <1>0, <3>2, <3>12 DEF Known, TypeOK
    <3>15. UNCHANGED <<scan, taken>> BY <1>4 DEF Reserve
    <3>16. Known' BY <1>0, <1>1, <3>9, <3>12, <3>13, <3>14, <3>15 DEF Known
    <3>17. QED BY <3>11, <3>16 DEF PlacesInv
  <2>3. QED BY <2>1, <2>2
<1>5. CASE AckRemove(w)
  <2>1. cur[w] \in Jobs BY <1>0, <1>5 DEF AckRemove, Busy, AtJob, Holding
  <2>2. \A j \in Jobs : inflight'[j] \in {0, inflight[j]}
    BY <1>0, <1>5, <2>1 DEF AckRemove, TypeOK
  <2>3. /\ UNCHANGED <<pending, cur>>
        /\ \A v \in Workers : pc'[v] = "lpush" => pc[v] = "lpush"
    BY <1>0, <1>5 DEF AckRemove, Goto, TypeOK
  <2>4. \A v \in Workers : pc[v] = "lpush" => cur[v] \in Jobs
    BY <1>0 DEF Busy, AtJob
  <2>5. QueueOnce'
    <3>1. Waiting' = Waiting BY <2>3 DEF Waiting
    <3>2. \A j \in Jobs : inflight'[j] <= 1 /\ (inflight'[j] = 1 => inflight[j] = 1)
      BY <1>0, <2>2 DEF QueueOnce, TypeOK
    <3>3. \A j \in Jobs : inflight[j] = 0 => inflight'[j] = 0
      BY <1>0, <2>2 DEF TypeOK
    <3>4. QED BY <1>0, <2>3, <2>4, <3>1, <3>2, <3>3 DEF QueueOnce
  <2>6. Known' BY <1>0, <1>1, <1>5, <2>2, <2>3 DEF Known, AckRemove, TypeOK
  <2>7. QED BY <2>5, <2>6 DEF PlacesInv
<1>6. CASE StartScan(w)
  <2>1. pc'[w] # "lpush" /\ \A v \in Workers \ {w} : pc'[v] = pc[v]
    BY <1>0, <1>6, ContinueType DEF StartScan, AtJob
  <2>2. QueueOnce' BY <1>0, <1>6, <2>1, QueueOnceFrame DEF StartScan, queueVars
  <2>3. Known' BY <1>0, <1>1, <1>6 DEF Known, StartScan, InFlight, queueVars, TypeOK
  <2>4. QED BY <2>2, <2>3 DEF PlacesInv
<1>7. CASE CheckLease(w)
  <2>1. PICK j \in scan[w] :
          /\ scan' = [scan EXCEPT ![w] = @ \ {j}]
          /\ \/ Continue(w, scan[w] \ {j}, taken[w]) /\ UNCHANGED cur
             \/ Goto(w, "lrem") /\ cur' = [cur EXCEPT ![w] = j]
    BY <1>7 DEF CheckLease
  <2>2. \/ pc' \in [Workers -> PCs] /\ pc'[w] \notin AtJob
           /\ \A v \in Workers \ {w} : pc'[v] = pc[v]
        \/ Goto(w, "lrem")
    BY <1>0, <2>1, ContinueType
  <2>3. \A v \in Workers : pc'[v] = "lpush" =>
          pc[v] = "lpush" /\ cur'[v] = cur[v]
    BY <1>0, <2>1, <2>2 DEF Goto, AtJob, TypeOK
  <2>4. QueueOnce' BY <1>0, <1>7, <2>3, QueueOnceFrame DEF CheckLease, queueVars
  <2>5. UNCHANGED <<pending, inflight, acc, taken>>
    BY <1>7 DEF CheckLease, queueVars
  <2>6. /\ scan \in [Workers -> SUBSET Jobs]
        /\ cur \in [Workers -> Jobs \cup {NoJob}]
    BY <1>0 DEF TypeOK
  <2>7. \A v \in Workers : /\ scan'[v] \subseteq scan[v]
                           /\ cur'[v] = cur[v] \/ cur'[v] \in scan[v]
    BY <2>1, <2>6
  <2>8. Known' BY <1>0, <2>5, <2>7 DEF Known
  <2>9. QED BY <2>4, <2>8 DEF PlacesInv
<1>8. CASE MarkGet(w)
  <2>1. PICK j \in taken[w] :
          /\ taken' = [taken EXCEPT ![w] = @ \ {j}]
          /\ \/ Continue(w, {}, taken[w] \ {j}) /\ UNCHANGED cur
             \/ Goto(w, "marksave") /\ cur' = [cur EXCEPT ![w] = j]
    BY <1>8 DEF MarkGet
  <2>2. \/ pc' \in [Workers -> PCs] /\ pc'[w] \notin AtJob
           /\ \A v \in Workers \ {w} : pc'[v] = pc[v]
        \/ Goto(w, "marksave")
    BY <1>0, <2>1, ContinueType
  <2>3. \A v \in Workers : pc'[v] = "lpush" =>
          pc[v] = "lpush" /\ cur'[v] = cur[v]
    BY <1>0, <2>1, <2>2 DEF Goto, AtJob, TypeOK
  <2>4. QueueOnce' BY <1>0, <1>8, <2>3, QueueOnceFrame DEF MarkGet, queueVars
  <2>5. Known'
    <3>1. j \in Jobs /\ acc[j] = "queued" BY <1>0 DEF Known, TypeOK
    <3>2. \A v \in Workers : cur'[v] \in {cur[v], j}
      BY <1>0, <2>1, <3>1 DEF TypeOK
    <3>3. \A v \in Workers : taken'[v] \subseteq taken[v]
      BY <1>0, <2>1 DEF TypeOK
    <3>4. UNCHANGED <<pending, inflight, scan>> BY <1>8 DEF MarkGet, queueVars
    <3>5. QED BY <1>0, <1>1, <3>1, <3>2, <3>3, <3>4 DEF Known
  <2>6. QED BY <2>4, <2>5 DEF PlacesInv
<1>9. CASE MarkSave(w)
  <2>1. pc'[w] # "lpush" /\ \A v \in Workers \ {w} : pc'[v] = pc[v] /\ cur'[v] = cur[v]
    BY <1>0, <1>9, ContinueType DEF MarkSave, AtJob, TypeOK
  <2>2. QueueOnce' BY <1>0, <1>9, <2>1, QueueOnceFrame DEF MarkSave, queueVars
  <2>3. Known' BY <1>0, <1>1, <1>9, ConstantsAssumption
                  DEF Known, MarkSave, queueVars, TypeOK
  <2>4. QED BY <2>2, <2>3 DEF PlacesInv
<1>10. CASE \/ TakeLease(w) \/ GetRecord(w) \/ SaveGivenUp(w) \/ SaveRunning(w)
            \/ SaveBeat(w) \/ SaveResult(w) \/ ThreadStep(w)
  <2>1. UNCHANGED <<pending, inflight, cur, scan, taken>>
    BY <1>10 DEF TakeLease, GetRecord, SaveGivenUp, SaveRunning, SaveBeat,
                 SaveResult, ThreadStep, ThreadDecides, ThreadEnds, queueVars
  <2>2. \A v \in Workers : pc'[v] = "lpush" => pc[v] = "lpush"
    BY <1>0, <1>10 DEF TakeLease, GetRecord, SaveGivenUp, SaveRunning, SaveBeat,
                 SaveResult, ThreadStep, ThreadDecides, ThreadEnds, Goto, TypeOK
  <2>3. QueueOnce' BY <1>0, <2>1, <2>2, QueueOnceFrame
  <2>4. Known' BY <1>0, <1>1, <2>1 DEF Known
  <2>5. QED BY <2>3, <2>4 DEF PlacesInv
<1>11. CASE Forget(w) /\ UNCHANGED <<pending, inflight>>
  <2>1. QueueOnce' BY <1>0, <1>11, QueueOnceFrame DEF Forget, Goto, TypeOK
  <2>2. Known' BY <1>0, <1>1, <1>11, ConstantsAssumption DEF Known, Forget, TypeOK
  <2>3. QED BY <2>1, <2>2 DEF PlacesInv
<1>12. CASE RenewGet(w) \/ RenewExpire(w)
  <2>1. UNCHANGED <<pending, inflight>>
    BY <1>12 DEF RenewGet, RenewExpire, queueVars
  <2>2. CASE ~Forget(w)
    <3>1. UNCHANGED <<cur, scan, taken>>
      BY <1>12, <2>2 DEF RenewGet, RenewExpire
    <3>2. \A v \in Workers : pc'[v] = "lpush" => pc[v] = "lpush"
      BY <1>0, <1>12, <2>2 DEF RenewGet, RenewExpire, Goto, TypeOK
    <3>3. QueueOnce' BY <1>0, <2>1, <3>1, <3>2, QueueOnceFrame
    <3>4. Known' BY <1>0, <1>1, <2>1, <3>1 DEF Known
    <3>5. QED BY <3>3, <3>4 DEF PlacesInv
  <2>3. QED BY <1>11, <2>1, <2>2
<1>13. CASE AckDelete(w) \/ Crash(w) \/ RedisError(w)
  BY <1>11, <1>13 DEF AckDelete, Crash, RedisError, queueVars
<1>14. QED
  BY <1>2, <1>3, <1>4, <1>5, <1>6, <1>7, <1>8, <1>9, <1>10, <1>12, <1>13
     DEF TurnStep

LEMMA NextPlacesInv == PlacesInv /\ [Next]_vars => PlacesInv'
<1> SUFFICES ASSUME PlacesInv, [Next]_vars PROVE PlacesInv'
  OBVIOUS
<1>1. TypeInv' BY NextTypeInv DEF PlacesInv
<1>2. CASE Next
  BY <1>1, <1>2, JobStepPlacesInv, WorkerStepPlacesInv DEF Next
<1>3. CASE UNCHANGED vars
  BY <1>1, <1>3 DEF vars, queueVars, workerVars, PlacesInv, Known, QueueOnce,
                    Waiting
<1>4. QED BY <1>2, <1>3

\* However the reapers, acks, crashes and lapses fall, no id is ever queued
\* twice: the reply of LREM is enough.
THEOREM NoDuplicateIds == Spec => []QueueOnce
<1>1. PlacesInv => QueueOnce BY DEF PlacesInv
<1>2. QED BY <1>1, InitPlacesInv, NextPlacesInv, PTL DEF Spec

-----------------------------------------------------------------------------
(* What the job records and their copies say: PaidBuild and HonestOutcome.  *)
(* Records are written whole from copies that may be stale, so both need an *)
(* invariant about every copy there is: in the workers, in the reapers and  *)
(* in the polls.                                                            *)

\* Points at which a worker holds a copy it may still write or build from.
HasCopy == {"marksave", "giveup", "running", "build", "beat", "savebeat",
            "last", "saveresult"}

\* Points at which a worker's copy is blank.
BlankAt == {"idle", "exists", "lrem", "lpush", "mark", "reserve", "lease",
            "get"}

Paid(r) == r.status = "absent" \/ r.paid

PaidInv ==
  /\ PlacesInv
  /\ \A j \in Jobs : acc[j] \in {"saved", "queued"} => Paid(rec[j])
  /\ \A w \in Workers : pc[w] \in HasCopy => copy[w].paid
  /\ PaidBuild
  /\ \A j \in Jobs : poll[j] # NoRec => poll[j].paid /\ acc[j] = "queued"

LEMMA InitPaidInv == Init => PaidInv
  BY InitPlacesInv DEF Init, PaidInv, PaidBuild, HasCopy, Paid

LEMMA JobStepPaidInv ==
  ASSUME PaidInv, PlacesInv', NEW j \in Jobs,
         \/ Settle(j) \/ AcceptNext(j) \/ AcceptDies(j)
         \/ PollRead(j) \/ PollSave(j)
         \/ LeaseLapses(j) \/ Age(j) \/ RecordExpires(j)
  PROVE  PaidInv'
<1>0. TypeOK BY DEF PaidInv, PlacesInv, TypeInv
<1>1. UNCHANGED workerVars
  BY DEF Settle, AcceptNext, Create, SavePaid, Push, AcceptDies, PollRead,
         PollSave, LeaseLapses, Age, RecordExpires
<1>2. /\ \A w \in Workers : pc'[w] \in HasCopy => copy'[w].paid
      /\ PaidBuild'
  BY <1>1 DEF PaidInv, PaidBuild, workerVars
<1>3. CASE Settle(j) \/ Push(j) \/ AcceptDies(j) \/ LeaseLapses(j)
  <2>1. UNCHANGED <<rec, poll>>
    BY <1>3 DEF Settle, Push, AcceptDies, LeaseLapses
  <2>2. \A i \in Jobs : /\ acc'[i] \in {"saved", "queued"} => acc[i] \in {"saved", "queued"}
                        /\ acc[i] = "queued" => acc'[i] = "queued"
    BY <1>0, <1>3 DEF Settle, Push, AcceptDies, LeaseLapses, AcceptStep, TypeOK
  <2>3. QED BY <1>2, <2>1, <2>2 DEF PaidInv
<1>4. CASE Create(j)
  <2>1. UNCHANGED poll /\ acc' = [acc EXCEPT ![j] = "created"] /\ acc[j] = "settled"
    BY <1>4 DEF Create, AcceptStep
  <2>2. \A i \in Jobs \ {j} : rec'[i] = rec[i]
    BY <1>0, <1>4 DEF Create, Save, TypeOK
  <2>3. QED BY <1>0, <1>2, <2>1, <2>2 DEF PaidInv, TypeOK
<1>5. CASE SavePaid(j)
  <2>1. UNCHANGED poll /\ acc' = [acc EXCEPT ![j] = "saved"] /\ acc[j] = "created"
    BY <1>5 DEF SavePaid, AcceptStep
  <2>2. rec'[j].paid /\ \A i \in Jobs \ {j} : rec'[i] = rec[i]
    BY <1>0, <1>5 DEF SavePaid, Save, TypeOK, NoRec
  <2>3. QED BY <1>0, <1>2, <2>1, <2>2 DEF PaidInv, Paid, TypeOK
<1>6. CASE PollRead(j)
  <2>1. acc[j] = "queued" /\ rec[j].status # "absent"
    BY <1>6 DEF PollRead
  <2>2. rec[j].paid BY <2>1 DEF PaidInv, Paid
  <2>3. [rec[j] EXCEPT !.status = "failed"].paid = rec[j].paid
    BY <1>0 DEF TypeOK, Record
  <2>4. UNCHANGED <<rec, acc>> /\ poll' = [poll EXCEPT ![j] = [rec[j] EXCEPT !.status = "failed"]]
    BY <1>6 DEF PollRead
  <2>5. QED BY <1>0, <1>2, <2>1, <2>2, <2>3, <2>4 DEF PaidInv, TypeOK
<1>7. CASE PollSave(j)
  <2>1. UNCHANGED acc /\ rec' = [rec EXCEPT ![j] = poll[j]] /\ poll[j] # NoRec
        /\ poll' = [poll EXCEPT ![j] = NoRec]
    BY <1>7 DEF PollSave, Save
  <2>2. QED BY <1>0, <1>2, <2>1 DEF PaidInv, Paid, TypeOK
<1>8. CASE Age(j)
  <2>1. UNCHANGED <<acc, poll>> /\ rec' = [rec EXCEPT ![j] = [rec[j] EXCEPT !.fresh = FALSE]]
    BY <1>8 DEF Age, Save
  <2>2. LET r == [rec[j] EXCEPT !.fresh = FALSE]
        IN  r.paid = rec[j].paid /\ r.status = rec[j].status
    BY <1>0 DEF TypeOK, Record
  <2>3. QED BY <1>0, <1>2, <2>1, <2>2 DEF PaidInv, Paid, TypeOK
<1>9. CASE RecordExpires(j)
  <2>1. UNCHANGED <<acc, poll>> /\ rec' = [rec EXCEPT ![j] = NoRec]
    BY <1>9 DEF RecordExpires, Save
  <2>2. NoRec.status = "absent" BY DEF NoRec
  <2>3. QED BY <1>0, <1>2, <2>1, <2>2 DEF PaidInv, Paid, TypeOK
<1>10. QED BY <1>3, <1>4, <1>5, <1>6, <1>7, <1>8, <1>9 DEF AcceptNext

\* A worker step that reads no record and writes none.
LEMMA PaidFrame ==
  ASSUME PaidInv, PlacesInv', NEW w \in Workers, UNCHANGED <<rec, acc, poll>>,
         \A v \in Workers \ {w} :
           pc'[v] = pc[v] /\ copy'[v] = copy[v] /\ thread'[v] = thread[v],
         pc'[w] \in HasCopy => copy'[w].paid,
         thread'[w] # "none" => copy'[w].paid
  PROVE  PaidInv'
  BY DEF PaidInv, PaidBuild

\* A worker step that writes its paid copy to the record of its job.
LEMMA PaidSave ==
  ASSUME PaidInv, PlacesInv', NEW w \in Workers, UNCHANGED <<acc, poll>>,
         cur[w] \in Jobs, copy[w].paid, Save(cur[w], copy[w]),
         \A v \in Workers \ {w} :
           pc'[v] = pc[v] /\ copy'[v] = copy[v] /\ thread'[v] = thread[v],
         pc'[w] \in HasCopy => copy'[w].paid,
         thread'[w] # "none" => copy'[w].paid
  PROVE  PaidInv'
<1>1. \A j \in Jobs : rec'[j] \in {rec[j], copy[w]}
  BY DEF Save, PaidInv, PlacesInv, TypeInv, TypeOK
<1>2. \A j \in Jobs : rec'[j] = rec[j] \/ rec'[j].paid
  BY <1>1
<1>3. QED BY <1>2 DEF PaidInv, Paid, PaidBuild

LEMMA WorkerStepPaidInv ==
  ASSUME PaidInv, PlacesInv', NEW w \in Workers,
         \/ StartScan(w) \/ TurnStep(w) \/ ThreadStep(w)
         \/ Crash(w) \/ RedisError(w)
  PROVE  PaidInv'
<1>0. TypeOK /\ Busy /\ Known BY DEF PaidInv, PlacesInv, TypeInv
<1>1. thread[w] # "none" => copy[w].paid BY DEF PaidInv, PaidBuild
<1>2. pc[w] \in HasCopy => copy[w].paid BY DEF PaidInv
<1>3. HasCopy \subseteq AtJob BY DEF HasCopy, AtJob, Holding
<1>4. CASE StartScan(w) \/ TakeBack(w) \/ PushBack(w)
  <2>1. UNCHANGED <<rec, acc, poll, copy, thread>>
    BY <1>4 DEF StartScan, TakeBack, PushBack
  <2>2. \A v \in Workers \ {w} : pc'[v] = pc[v]
    BY <1>0, <1>4 DEF StartScan, TakeBack, PushBack, Continue, Goto, TypeOK
  <2>3. pc'[w] \notin HasCopy
    BY <1>0, <1>4 DEF StartScan, TakeBack, PushBack, Continue, Goto, TypeOK, HasCopy
  <2>4. QED BY <1>1, <2>1, <2>2, <2>3, PaidFrame
<1>5. CASE CheckLease(w)
  <2>1. UNCHANGED <<rec, acc, poll, copy, thread>>
    BY <1>5 DEF CheckLease
  <2>2. /\ pc'[w] \notin HasCopy
        /\ \A v \in Workers \ {w} : pc'[v] = pc[v]
    BY <1>0, <1>5 DEF CheckLease, Continue, Goto, TypeOK, HasCopy
  <2>3. QED BY <1>1, <2>1, <2>2, PaidFrame
<1>6. CASE MarkGet(w)
  <2>1. UNCHANGED <<rec, acc, poll, thread>> /\ pc[w] = "mark"
    BY <1>6 DEF MarkGet
  <2>2. thread[w] = "none" BY <1>0, <2>1 DEF Busy, Holding, TypeOK
  <2>3. PICK j \in taken[w] :
          \/ Continue(w, {}, taken[w] \ {j}) /\ UNCHANGED copy
          \/ /\ rec[j].status # "absent" /\ Goto(w, "marksave")
             /\ copy' = [copy EXCEPT ![w] =
                  [rec[j] EXCEPT !.status = "queued", !.fresh = TRUE]]
    BY <1>6 DEF MarkGet
  <2>4. j \in Jobs /\ acc[j] = "queued" BY <1>0 DEF Known, TypeOK
  <2>5. rec[j].status # "absent" => rec[j].paid BY <2>4 DEF PaidInv, Paid
  <2>6. [rec[j] EXCEPT !.status = "queued", !.fresh = TRUE].paid = rec[j].paid
    BY <1>0, <2>4 DEF TypeOK, Record
  <2>7. \A v \in Workers \ {w} : pc'[v] = pc[v] /\ copy'[v] = copy[v]
    BY <1>0, <2>3 DEF Continue, Goto, TypeOK
  <2>8. pc'[w] \in HasCopy => copy'[w].paid
    BY <1>0, <2>3, <2>5, <2>6 DEF Continue, Goto, TypeOK, HasCopy
  <2>9. QED BY <2>1, <2>2, <2>7, <2>8, PaidFrame
<1>7. CASE MarkSave(w)
  <2>1. pc[w] = "marksave" /\ thread[w] = "none"
    BY <1>0, <1>7 DEF MarkSave, Busy, Holding, TypeOK
  <2>2. cur[w] \in Jobs /\ copy[w].paid
    BY <1>0, <1>2, <2>1 DEF Busy, AtJob, HasCopy
  <2>3. /\ UNCHANGED <<acc, poll, thread>> /\ Save(cur[w], copy[w])
        /\ pc'[w] \notin HasCopy
        /\ \A v \in Workers \ {w} : pc'[v] = pc[v] /\ copy'[v] = copy[v]
    BY <1>0, <1>7 DEF MarkSave, Continue, Goto, TypeOK, HasCopy
  <2>4. QED BY <2>1, <2>2, <2>3, PaidSave
<1>8. CASE Reserve(w) \/ TakeLease(w) \/ AckRemove(w)
  <2>1. UNCHANGED <<rec, acc, poll, copy, thread>>
    BY <1>8 DEF Reserve, TakeLease, AckRemove
  <2>2. /\ pc'[w] \notin HasCopy
        /\ \A v \in Workers \ {w} : pc'[v] = pc[v]
    BY <1>0, <1>8 DEF Reserve, TakeLease, AckRemove, Goto, TypeOK, HasCopy
  <2>3. QED BY <1>1, <2>1, <2>2, PaidFrame
<1>9. CASE GetRecord(w)
  <2>1. UNCHANGED <<rec, acc, poll, thread>> /\ pc[w] = "get" /\ cur[w] \in Jobs
    BY <1>0, <1>9 DEF GetRecord, Busy, AtJob, Holding
  <2>2. acc[cur[w]] = "queued" BY <1>0, <2>1 DEF Known
  <2>3. rec[cur[w]].status # "absent" => rec[cur[w]].paid
    BY <2>1, <2>2 DEF PaidInv, Paid
  <2>4. NextAttempt(rec[cur[w]]).paid = rec[cur[w]].paid
    BY <1>0, <2>1 DEF NextAttempt, TypeOK, Record
  <2>5. \/ pc'[w] = "acklrem" /\ UNCHANGED copy
        \/ /\ rec[cur[w]].status # "absent"
           /\ copy' = [copy EXCEPT ![w] = NextAttempt(rec[cur[w]])]
    BY <1>0, <1>9 DEF GetRecord, Goto, TypeOK
  <2>6. \A v \in Workers \ {w} : pc'[v] = pc[v] /\ copy'[v] = copy[v]
    BY <1>0, <1>9, <2>5 DEF GetRecord, Goto, TypeOK
  <2>7. copy'[w].paid \/ (pc'[w] = "acklrem" /\ UNCHANGED copy)
    BY <1>0, <2>3, <2>4, <2>5 DEF TypeOK
  <2>8. QED BY <1>1, <2>1, <2>6, <2>7, PaidFrame DEF HasCopy
<1>10. CASE SaveGivenUp(w) \/ SaveRunning(w) \/ SaveBeat(w) \/ SaveResult(w)
  <2>1. pc[w] \in HasCopy
    BY <1>10 DEF SaveGivenUp, SaveRunning, SaveBeat, SaveResult, HasCopy
  <2>2. cur[w] \in Jobs /\ copy[w].paid
    BY <1>0, <1>2, <1>3, <2>1 DEF Busy
  <2>3. UNCHANGED <<acc, poll, copy>> /\ Save(cur[w], copy[w])
    BY <1>10 DEF SaveGivenUp, SaveRunning, SaveBeat, SaveResult
  <2>4. \A v \in Workers \ {w} : pc'[v] = pc[v] /\ thread'[v] = thread[v]
    BY <1>0, <1>10 DEF SaveGivenUp, SaveRunning, SaveBeat, SaveResult, Goto, TypeOK
  <2>5. QED BY <2>2, <2>3, <2>4, PaidSave
<1>11. CASE ThreadStep(w)
  <2>1. UNCHANGED <<rec, acc, poll, pc>> /\ thread[w] # "none"
    BY <1>11 DEF ThreadStep, ThreadDecides, ThreadEnds
  <2>2. \/ UNCHANGED copy
        \/ \E s \in Outcomes : copy' = [copy EXCEPT ![w] = [copy[w] EXCEPT !.status = s]]
    BY <1>11 DEF ThreadStep, ThreadDecides, ThreadEnds, Conclude, Outcomes
  <2>3. \A s \in Outcomes : [copy[w] EXCEPT !.status = s].paid = copy[w].paid
    BY <1>0 DEF TypeOK, Record
  <2>4. copy'[w].paid = copy[w].paid /\ \A v \in Workers \ {w} : copy'[v] = copy[v]
    BY <1>0, <2>2, <2>3 DEF TypeOK
  <2>5. \A v \in Workers \ {w} : thread'[v] = thread[v]
    BY <1>0, <1>11 DEF ThreadStep, ThreadDecides, ThreadEnds, TypeOK
  <2>6. QED BY <1>1, <2>1, <2>4, <2>5, PaidFrame
<1>12. CASE Forget(w) /\ UNCHANGED <<rec, acc, poll>>
  <2>1. pc'[w] = "idle" /\ thread'[w] = "none"
    BY <1>0, <1>12 DEF Forget, Goto, TypeOK
  <2>2. \A v \in Workers \ {w} :
          pc'[v] = pc[v] /\ copy'[v] = copy[v] /\ thread'[v] = thread[v]
    BY <1>0, <1>12 DEF Forget, Goto, TypeOK
  <2>3. QED BY <1>12, <2>1, <2>2, PaidFrame DEF HasCopy
<1>13. CASE RenewGet(w) \/ RenewExpire(w)
  <2>1. CASE ~Forget(w)
    <3>1. UNCHANGED <<rec, acc, poll, copy, thread>>
      BY <1>13, <2>1 DEF RenewGet, RenewExpire
    <3>2. pc[w] \in HasCopy BY <1>13 DEF RenewGet, RenewExpire, HasCopy
    <3>3. \A v \in Workers \ {w} : pc'[v] = pc[v]
      BY <1>0, <1>13, <2>1 DEF RenewGet, RenewExpire, Goto, TypeOK
    <3>4. QED BY <1>2, <3>1, <3>2, <3>3, PaidFrame
  <2>2. UNCHANGED <<rec, acc, poll>> BY <1>13 DEF RenewGet, RenewExpire
  <2>3. QED BY <1>12, <2>1, <2>2
<1>14. CASE AckDelete(w) \/ Crash(w) \/ RedisError(w)
  BY <1>12, <1>14 DEF AckDelete, Crash, RedisError
<1>15. QED
  BY <1>4, <1>5, <1>6, <1>7, <1>8, <1>9, <1>10, <1>11, <1>13, <1>14 DEF TurnStep

LEMMA NextPaidInv == PaidInv /\ [Next]_vars => PaidInv'
<1> SUFFICES ASSUME PaidInv, [Next]_vars PROVE PaidInv'
  OBVIOUS
<1>1. PlacesInv' BY NextPlacesInv DEF PaidInv
<1>2. CASE Next BY <1>1, <1>2, JobStepPaidInv, WorkerStepPaidInv DEF Next
<1>3. CASE UNCHANGED vars
  BY <1>1, <1>3 DEF vars, workerVars, PaidInv, PaidBuild
<1>4. QED BY <1>2, <1>3

\* No build runs from a record that does not say it was paid for.
THEOREM OnlyPaidBuilds == Spec => []PaidBuild
<1>1. PaidInv => PaidBuild BY DEF PaidInv
<1>2. QED BY <1>1, InitPaidInv, NextPaidInv, PTL DEF Spec
-----------------------------------------------------------------------------
(* HonestOutcome.                                                           *)

HonestInv ==
  /\ PlacesInv
  /\ HonestOutcome
  /\ \A j \in Jobs : Justifies(verdicts[j], poll[j])
  /\ \A w \in Workers : cur[w] \in Jobs => Justifies(verdicts[cur[w]], copy[w])
  /\ \A w \in Workers : pc[w] \in BlankAt => copy[w].status = "absent"

LEMMA JustifiesMore ==
  ASSUME NEW V, NEW W, V \subseteq W, NEW r, Justifies(V, r)
  PROVE  Justifies(W, r)
  BY DEF Justifies

LEMMA JustifiesNone ==
  ASSUME NEW V, NEW r, r.status \notin Outcomes
  PROVE  Justifies(V, r)
  BY DEF Justifies, Outcomes

LEMMA NoRecBlank == NoRec.status \notin Outcomes
  BY DEF NoRec, Outcomes

\* A verdict once given is not forgotten.
Growing == \A j \in Jobs : verdicts[j] \subseteq verdicts'[j]

LEMMA VerdictGrows ==
  ASSUME TypeOK, NEW j \in Jobs, NEW why, Verdict(j, why)
  PROVE  Growing /\ why \in verdicts'[j]
  BY DEF Verdict, Growing, TypeOK

LEMMA InitHonestInv == Init => HonestInv
<1> SUFFICES ASSUME Init PROVE HonestInv
  OBVIOUS
<1>1. PlacesInv BY InitPlacesInv
<1>2. /\ \A j \in Jobs : rec[j] = NoRec /\ poll[j] = NoRec
      /\ \A w \in Workers : copy[w] = NoRec
  BY DEF Init
<1>3. QED BY <1>1, <1>2, NoRecBlank, JustifiesNone
             DEF HonestInv, HonestOutcome, NoRec

\* What is left to show of a step: every record, poll and copy it writes is
\* an old one of the same job, or justified in its own right.
LEMMA HonestStep ==
  ASSUME HonestInv, PlacesInv', Growing,
         \A j \in Jobs : rec'[j] = rec[j] \/ Justifies(verdicts'[j], rec'[j]),
         \A j \in Jobs : poll'[j] = poll[j] \/ Justifies(verdicts'[j], poll'[j]),
         \A w \in Workers : cur'[w] \in Jobs =>
           \/ cur'[w] = cur[w] /\ copy'[w] = copy[w]
           \/ Justifies(verdicts'[cur'[w]], copy'[w]),
         \A w \in Workers : pc'[w] \in BlankAt => copy'[w].status = "absent"
  PROVE  HonestInv'
<1>1. HonestOutcome'
  BY JustifiesMore DEF HonestInv, HonestOutcome, Growing
<1>2. \A j \in Jobs : Justifies(verdicts'[j], poll'[j])
  BY JustifiesMore DEF HonestInv, Growing
<1>3. \A w \in Workers : cur'[w] \in Jobs => Justifies(verdicts'[cur'[w]], copy'[w])
  BY JustifiesMore DEF HonestInv, Growing
<1>4. QED BY <1>1, <1>2, <1>3 DEF HonestInv

LEMMA JobStepHonestInv ==
  ASSUME HonestInv, PlacesInv', NEW j \in Jobs,
         \/ Settle(j) \/ AcceptNext(j) \/ AcceptDies(j)
         \/ PollRead(j) \/ PollSave(j)
         \/ LeaseLapses(j) \/ Age(j) \/ RecordExpires(j)
  PROVE  HonestInv'
<1>0. TypeOK BY DEF HonestInv, PlacesInv, TypeInv
<1>1. UNCHANGED workerVars
  BY DEF Settle, AcceptNext, Create, SavePaid, Push, AcceptDies, PollRead,
         PollSave, LeaseLapses, Age, RecordExpires
<1>2. /\ \A w \in Workers : cur'[w] = cur[w] /\ copy'[w] = copy[w]
      /\ \A w \in Workers : pc'[w] \in BlankAt => copy'[w].status = "absent"
  BY <1>1 DEF workerVars, HonestInv
<1>3. CASE UNCHANGED <<rec, poll, verdicts>>
  BY <1>2, <1>3, HonestStep DEF Growing
<1>4. CASE Create(j) \/ SavePaid(j) \/ Age(j) \/ RecordExpires(j)
  <2>1. UNCHANGED <<poll, verdicts>>
    BY <1>4 DEF Create, SavePaid, Age, RecordExpires, history
  <2>2. \A i \in Jobs \ {j} : rec'[i] = rec[i]
    BY <1>0, <1>4 DEF Create, SavePaid, Age, RecordExpires, Save, TypeOK
  <2>3. rec'[j].status \notin Outcomes
    <3>1. CASE Create(j) \/ SavePaid(j)
      BY <1>0, <3>1 DEF Create, SavePaid, Save, TypeOK, NoRec, Outcomes
    <3>2. CASE Age(j)
      BY <1>0, <3>2 DEF Age, Save, TypeOK, Record, Outcomes
    <3>3. CASE RecordExpires(j)
      BY <1>0, <3>3, NoRecBlank DEF RecordExpires, Save, TypeOK
    <3>4. QED BY <1>4, <3>1, <3>2, <3>3
  <2>4. QED BY <1>2, <2>1, <2>2, <2>3, HonestStep, JustifiesNone DEF Growing
<1>5. CASE PollRead(j)
  <2>1. UNCHANGED rec /\ Verdict(j, "reaped")
        /\ poll' = [poll EXCEPT ![j] = [rec[j] EXCEPT !.status = "failed"]]
    BY <1>5 DEF PollRead
  <2>2. Growing /\ "reaped" \in verdicts'[j] BY <1>0, <2>1, VerdictGrows
  <2>3. poll'[j].status = "failed" /\ \A i \in Jobs \ {j} : poll'[i] = poll[i]
    BY <1>0, <2>1 DEF TypeOK, Record
  <2>4. Justifies(verdicts'[j], poll'[j]) BY <2>2, <2>3 DEF Justifies
  <2>5. QED BY <1>2, <2>1, <2>2, <2>3, <2>4, HonestStep
<1>6. CASE PollSave(j)
  <2>1. UNCHANGED verdicts /\ rec' = [rec EXCEPT ![j] = poll[j]]
        /\ poll' = [poll EXCEPT ![j] = NoRec]
    BY <1>6 DEF PollSave, Save, history
  <2>2. /\ rec'[j] = poll[j] /\ poll'[j] = NoRec
        /\ \A i \in Jobs \ {j} : rec'[i] = rec[i] /\ poll'[i] = poll[i]
    BY <1>0, <2>1 DEF TypeOK
  <2>3. Justifies(verdicts'[j], rec'[j]) BY <2>1, <2>2 DEF HonestInv
  <2>4. Justifies(verdicts'[j], poll'[j]) BY <2>2, JustifiesNone, NoRecBlank
  <2>5. QED BY <1>2, <2>1, <2>2, <2>3, <2>4, HonestStep DEF Growing
<1>7. QED
  BY <1>3, <1>4, <1>5, <1>6
     DEF Settle, AcceptNext, Push, AcceptDies, LeaseLapses, history

LEMMA WorkerStepHonestInv ==
  ASSUME HonestInv, PlacesInv', NEW w \in Workers,
         \/ StartScan(w) \/ TurnStep(w) \/ ThreadStep(w)
         \/ Crash(w) \/ RedisError(w)
  PROVE  HonestInv'
<1>0. TypeOK /\ Busy BY DEF HonestInv, PlacesInv, TypeInv
<1>1. pc[w] \in BlankAt => copy[w].status = "absent" BY DEF HonestInv
<1>2. ASSUME UNCHANGED <<rec, poll, copy, verdicts>>,
             \A v \in Workers \ {w} : pc'[v] = pc[v] /\ cur'[v] = cur[v],
             pc[w] \in BlankAt \/ (cur'[w] = cur[w] /\ pc'[w] \notin BlankAt)
      PROVE  HonestInv'
  <2>1. cur'[w] \in Jobs =>
          cur'[w] = cur[w] \/ Justifies(verdicts'[cur'[w]], copy'[w])
    BY <1>1, <1>2, JustifiesNone DEF Outcomes
  <2>2. \A v \in Workers : pc'[v] \in BlankAt => copy'[v].status = "absent"
    BY <1>1, <1>2 DEF HonestInv
  <2>3. QED BY <1>2, <2>1, <2>2, HonestStep DEF Growing
<1>3. CASE \/ StartScan(w) \/ CheckLease(w) \/ TakeBack(w) \/ PushBack(w)
           \/ Reserve(w) \/ TakeLease(w)
  <2>1. pc[w] \in BlankAt /\ UNCHANGED <<rec, poll, copy, verdicts>>
    BY <1>3 DEF StartScan, CheckLease, TakeBack, PushBack, Reserve, TakeLease,
                BlankAt, history
  <2>2. \A v \in Workers \ {w} : pc'[v] = pc[v] /\ cur'[v] = cur[v]
    <3>1. CASE StartScan(w) \/ TakeBack(w) \/ PushBack(w)
      BY <1>0, <3>1 DEF StartScan, TakeBack, PushBack, Continue, Goto, TypeOK
    <3>2. CASE CheckLease(w)
      BY <1>0, <3>2 DEF CheckLease, Continue, Goto, TypeOK
    <3>3. CASE Reserve(w) \/ TakeLease(w)
      BY <1>0, <3>3 DEF Reserve, TakeLease, Goto, TypeOK
    <3>4. QED BY <1>3, <3>1, <3>2, <3>3
  <2>3. QED BY <1>2, <2>1, <2>2
<1>4. CASE MarkGet(w)
  <2>1. UNCHANGED <<rec, poll, verdicts>> /\ copy[w].status = "absent"
    BY <1>1, <1>4 DEF MarkGet, BlankAt, history
  <2>2. PICK j \in taken[w] :
          \/ Continue(w, {}, taken[w] \ {j}) /\ UNCHANGED <<cur, copy>>
          \/ /\ Goto(w, "marksave")
             /\ cur' = [cur EXCEPT ![w] = j]
             /\ copy' = [copy EXCEPT ![w] =
                  [rec[j] EXCEPT !.status = "queued", !.fresh = TRUE]]
    BY <1>4 DEF MarkGet
  <2>3. j \in Jobs BY <1>0 DEF TypeOK
  <2>4. [rec[j] EXCEPT !.status = "queued", !.fresh = TRUE].status = "queued"
    BY <1>0, <2>3 DEF TypeOK, Record
  <2>5. \A v \in Workers \ {w} :
          pc'[v] = pc[v] /\ cur'[v] = cur[v] /\ copy'[v] = copy[v]
    BY <1>0, <2>2 DEF Continue, Goto, TypeOK
  <2>6. copy'[w].status \in {"absent", "queued"}
        /\ (pc'[w] \in BlankAt => copy'[w].status = "absent")
    BY <1>0, <2>1, <2>2, <2>4 DEF Continue, Goto, TypeOK, BlankAt
  <2>7. \A V : Justifies(V, copy'[w]) BY <2>6, JustifiesNone DEF Outcomes
  <2>8. \A v \in Workers : pc'[v] \in BlankAt => copy'[v].status = "absent"
    BY <2>5, <2>6 DEF HonestInv
  <2>9. QED BY <2>1, <2>5, <2>7, <2>8, HonestStep DEF Growing
<1>5. ASSUME cur[w] \in Jobs, Save(cur[w], copy[w]), UNCHANGED <<poll, verdicts>>,
             \A v \in Workers \ {w} :
               pc'[v] = pc[v] /\ cur'[v] = cur[v] /\ copy'[v] = copy[v],
             \/ cur'[w] = cur[w] /\ copy'[w] = copy[w] /\ pc'[w] \notin BlankAt
             \/ copy'[w] = NoRec
      PROVE  HonestInv'
  <2>1. \A j \in Jobs : rec'[j] = rec[j] \/ Justifies(verdicts'[j], rec'[j])
    BY <1>0, <1>5 DEF Save, TypeOK, HonestInv
  <2>2. copy'[w] = NoRec => copy'[w].status = "absent" /\ \A V : Justifies(V, copy'[w])
    BY JustifiesNone, NoRecBlank DEF NoRec
  <2>3. \A v \in Workers : pc'[v] \in BlankAt => copy'[v].status = "absent"
    BY <1>5, <2>2 DEF HonestInv
  <2>4. QED BY <1>5, <2>1, <2>2, <2>3, HonestStep DEF Growing
<1>6. CASE MarkSave(w)
  <2>1. cur[w] \in Jobs BY <1>0, <1>6 DEF MarkSave, Busy, AtJob
  <2>2. copy'[w] = NoRec /\ UNCHANGED <<poll, verdicts>> /\ Save(cur[w], copy[w])
    BY <1>0, <1>6 DEF MarkSave, history, TypeOK
  <2>3. \A v \in Workers \ {w} :
          pc'[v] = pc[v] /\ cur'[v] = cur[v] /\ copy'[v] = copy[v]
    BY <1>0, <1>6 DEF MarkSave, Continue, Goto, TypeOK
  <2>4. QED BY <1>5, <2>1, <2>2, <2>3
<1>7. CASE SaveGivenUp(w) \/ SaveRunning(w) \/ SaveBeat(w) \/ SaveResult(w)
  <2>1. cur[w] \in Jobs
    BY <1>0, <1>7 DEF SaveGivenUp, SaveRunning, SaveBeat, SaveResult, Busy,
                      AtJob, Holding
  <2>2. UNCHANGED <<poll, cur, copy, verdicts>> /\ Save(cur[w], copy[w])
    BY <1>7 DEF SaveGivenUp, SaveRunning, SaveBeat, SaveResult, history
  <2>3. pc'[w] \notin BlankAt /\ \A v \in Workers \ {w} : pc'[v] = pc[v]
    BY <1>0, <1>7 DEF SaveGivenUp, SaveRunning, SaveBeat, SaveResult, Goto,
                      TypeOK, BlankAt
  <2>4. QED BY <1>5, <2>1, <2>2, <2>3
<1>8. CASE GetRecord(w)
  <2>1. UNCHANGED <<rec, poll, cur>> /\ cur[w] \in Jobs /\ pc'[w] \notin BlankAt
    BY <1>0, <1>8 DEF GetRecord, Busy, AtJob, Holding, Goto, TypeOK, BlankAt
  <2>2. \A v \in Workers \ {w} : pc'[v] = pc[v] /\ copy'[v] = copy[v]
    BY <1>0, <1>8 DEF GetRecord, Goto, TypeOK
  <2>3. Growing
    BY <1>0, <1>8, <2>1, VerdictGrows DEF GetRecord, Growing
  <2>4. UNCHANGED copy \/ Justifies(verdicts'[cur[w]], copy'[w])
    <3> DEFINE r == rec[cur[w]]
    <3>1. CASE UNCHANGED copy BY <3>1
    <3>2. CASE copy' = [copy EXCEPT ![w] = NextAttempt(r)]
      <4>1. copy'[w] = NextAttempt(r) BY <1>0, <3>2 DEF TypeOK
      <4>2. r \in Record BY <1>0, <2>1 DEF TypeOK
      <4>3. NextAttempt(r).status =
              IF r.attempts + 1 > MaxAttempts THEN "failed" ELSE "running"
        BY <4>2 DEF NextAttempt, Record
      <4>4. CASE r.attempts + 1 > MaxAttempts
        <5>1. Verdict(cur[w], "exhausted") \/ UNCHANGED copy
          BY <1>8, <4>4 DEF GetRecord
        <5>2. Verdict(cur[w], "exhausted") => "exhausted" \in verdicts'[cur[w]]
          BY <1>0, <2>1, VerdictGrows
        <5>3. QED BY <4>1, <4>3, <4>4, <5>1, <5>2 DEF Justifies
      <4>5. CASE ~(r.attempts + 1 > MaxAttempts)
        BY <4>1, <4>3, <4>5, JustifiesNone DEF Outcomes
      <4>6. QED BY <4>4, <4>5
    <3>3. QED BY <1>8, <3>1, <3>2 DEF GetRecord
  <2>5. QED BY <2>1, <2>2, <2>3, <2>4, HonestStep DEF HonestInv
<1>9. CASE ThreadStep(w)
  <2>1. UNCHANGED <<rec, poll, cur, pc>> /\ cur[w] \in Jobs /\ pc[w] \notin BlankAt
    <3>1. thread[w] # "none" /\ UNCHANGED <<rec, poll, cur, pc>>
      BY <1>9 DEF ThreadStep, ThreadDecides, ThreadEnds
    <3>2. pc[w] \in Holding \ {"get"} BY <1>0, <3>1 DEF Busy
    <3>3. QED BY <1>0, <3>1, <3>2 DEF Busy, AtJob, Holding, BlankAt
  <2>2. CASE UNCHANGED <<copy, verdicts>>
    BY <1>2, <2>1, <2>2
  <2>3. CASE \E s \in Outcomes : Conclude(w, s)
    <3>1. PICK s \in Outcomes : Conclude(w, s) BY <2>3
    <3>2. Growing /\ s \in verdicts'[cur[w]]
      BY <1>0, <2>1, <3>1, VerdictGrows DEF Conclude
    <3>3. copy'[w].status = s /\ \A v \in Workers \ {w} : copy'[v] = copy[v]
      BY <1>0, <3>1 DEF Conclude, TypeOK, Record
    <3>4. Justifies(verdicts'[cur[w]], copy'[w])
      BY <3>1, <3>2, <3>3 DEF Justifies, Outcomes
    <3>5. QED BY <2>1, <3>2, <3>3, <3>4, HonestStep DEF HonestInv
  <2>4. QED BY <1>9, <2>2, <2>3 DEF ThreadStep, ThreadDecides, ThreadEnds, Outcomes
<1>10. CASE Forget(w) /\ UNCHANGED <<rec, poll, verdicts>>
  <2>1. copy'[w] = NoRec /\ copy'[w].status = "absent"
    BY <1>0, <1>10 DEF Forget, TypeOK, NoRec
  <2>2. \A v \in Workers \ {w} :
          pc'[v] = pc[v] /\ cur'[v] = cur[v] /\ copy'[v] = copy[v]
    BY <1>0, <1>10 DEF Forget, Goto, TypeOK
  <2>3. \A V : Justifies(V, copy'[w]) BY <2>1, JustifiesNone, NoRecBlank
  <2>4. \A v \in Workers : pc'[v] \in BlankAt => copy'[v].status = "absent"
    BY <2>1, <2>2 DEF HonestInv
  <2>5. QED BY <1>10, <2>2, <2>3, <2>4, HonestStep DEF Growing
<1>11. CASE RenewGet(w) \/ RenewExpire(w)
  <2>1. UNCHANGED <<rec, poll, verdicts>>
    BY <1>11 DEF RenewGet, RenewExpire, history
  <2>2. CASE ~Forget(w)
    <3>1. UNCHANGED <<cur, copy>> /\ pc'[w] \notin BlankAt
          /\ \A v \in Workers \ {w} : pc'[v] = pc[v]
      BY <1>0, <1>11, <2>2 DEF RenewGet, RenewExpire, Goto, TypeOK, BlankAt
    <3>2. QED BY <1>2, <2>1, <3>1
  <2>3. QED BY <1>10, <2>1, <2>2
<1>12. CASE AckRemove(w)
  <2>1. UNCHANGED <<rec, poll, copy, verdicts, cur>> /\ pc'[w] \notin BlankAt
        /\ \A v \in Workers \ {w} : pc'[v] = pc[v]
    BY <1>0, <1>12 DEF AckRemove, Goto, TypeOK, BlankAt, history
  <2>2. QED BY <1>2, <2>1
<1>13. CASE AckDelete(w) \/ Crash(w) \/ RedisError(w)
  BY <1>10, <1>13 DEF AckDelete, Crash, RedisError, history
<1>14. QED
  BY <1>3, <1>4, <1>6, <1>7, <1>8, <1>9, <1>11, <1>12, <1>13 DEF TurnStep

LEMMA NextHonestInv == HonestInv /\ [Next]_vars => HonestInv'
<1> SUFFICES ASSUME HonestInv, [Next]_vars PROVE HonestInv'
  OBVIOUS
<1>1. PlacesInv' BY NextPlacesInv DEF HonestInv
<1>2. CASE Next BY <1>1, <1>2, JobStepHonestInv, WorkerStepHonestInv DEF Next
<1>3. CASE UNCHANGED vars
  BY <1>1, <1>3 DEF vars, workerVars, history, HonestInv, HonestOutcome
<1>4. QED BY <1>2, <1>3

\* Whatever copy of a record is written late, lost or overwritten, the buyer is
\* never shown an outcome that no attempt, no give-up and no reaping produced.
THEOREM OutcomesAreHonest == Spec => []HonestOutcome
<1>1. HonestInv => HonestOutcome BY DEF HonestInv
<1>2. QED BY <1>1, InitHonestInv, NextHonestInv, PTL DEF Spec
=============================================================================
