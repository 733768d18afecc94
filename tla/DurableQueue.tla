---------------------------- MODULE DurableQueue ----------------------------
(***************************************************************************)
(* Durable execution of paid builds, one action per Redis command:         *)
(*   service/queue.py   RedisBuildQueue  pending, inflight, lease keys     *)
(*   service/jobs.py    RedisJobStore, reap_stale                          *)
(*   service/worker.py  BuildWorker.run_once, recover_abandoned, _execute  *)
(*   service/app.py     create_build, get_build, the end of build_work     *)
(* Workers, the accepting requests and the polling buyers interleave       *)
(* between any two commands.  Processes crash, commands fail, leases lapse *)
(* and heartbeats go stale, each as often as FaultLimit allows.            *)
(***************************************************************************)
EXTENDS Naturals, Sequences

CONSTANTS
  Jobs,         \* build ids
  Workers,      \* worker processes
  NoJob, NoWorker,
  MaxAttempts,  \* BuildWorker.max_attempts
  FaultLimit,   \* bound: how many faults of each kind a behaviour may have
  FaultAt       \* the points of a worker's turn where a fault may hit it

FaultKinds == {"crash", "error", "stall", "overlap", "age", "expire"}

PCs == {"idle", "exists", "lrem", "lpush", "mark", "marksave", "reserve",
        "lease", "get", "giveup", "running", "build", "beat", "savebeat",
        "last", "saveresult", "acklrem", "ackdel"}

ASSUME ConstantsAssumption ==
  /\ NoJob \notin Jobs
  /\ NoWorker \notin Workers
  /\ MaxAttempts \in Nat \ {0}
  /\ FaultLimit \in [FaultKinds -> Nat]
  /\ FaultAt \subseteq PCs \cup {"settled", "prune"}

VARIABLES
  pending,   \* Redis list; LPUSH appends here, LMOVE ... RIGHT takes the head
  inflight,  \* Redis list as a bag: how many entries each id has
  lease,     \* lease key of each job: its owner, or NoOwner when absent
  rec,       \* job record in Redis; status "absent" when the key is not there
  acc,       \* how far POST /builds got with the job
  poll,      \* a GET /builds/{id} between its read and its reaping write
  pc,        \* next command of each worker
  cur,       \* the job a worker is busy with
  copy,      \* the BuildJob object in a worker's memory
  scan,      \* inflight ids a reaper has still to look at
  taken,     \* ids it requeued and has still to mark on the record
  thread,    \* the build thread of the current attempt
  inc,       \* incarnation of a worker: its owner id is fresh at every start
  left,      \* faults still allowed
  starts,    \* history: build threads started for the job
  verdicts   \* history: reasons for which the job was ever given an outcome

queueVars  == <<pending, inflight, lease>>
workerVars == <<pc, cur, copy, scan, taken, thread, inc>>
history    == <<starts, verdicts>>
vars == <<queueVars, rec, acc, poll, workerVars, left, history>>

Outcomes == {"succeeded", "failed"}
Statuses == {"absent", "queued", "running"} \cup Outcomes
Record   == [status : Statuses, attempts : Nat, paid : BOOLEAN, fresh : BOOLEAN]
NoRec    == [status |-> "absent", attempts |-> 0, paid |-> FALSE, fresh |-> TRUE]
Owners   == (Workers \cup {NoWorker}) \X Nat
NoOwner  == <<NoWorker, 0>>
Me(w)    == <<w, inc[w]>>
Stages   == {"new", "settled", "created", "saved", "queued", "dead"}
Reasons  == {"succeeded", "failed", "exhausted", "reaped"}

Terminal(r) == r.status \in Outcomes
Waiting     == {pending[i] : i \in 1 .. Len(pending)}
InFlight    == {j \in Jobs : inflight[j] > 0}

\* Where a worker that attends to its reserved job can be.
Holding == {"get", "giveup", "running", "build", "beat", "savebeat", "last",
            "saveresult", "acklrem", "ackdel"}
Attends(w, j) == pc[w] \in Holding /\ cur[w] = j /\ lease[j] = Me(w)
Attended(j) == \E w \in Workers : Attends(w, j)

\* Nothing in the queue, and nobody who works on it, knows the job any more.
Orphan(j) ==
  /\ j \notin Waiting /\ inflight[j] = 0
  /\ \A w \in Workers : cur[w] # j /\ j \notin scan[w] /\ j \notin taken[w]

Init ==
  /\ pending = <<>>
  /\ inflight = [j \in Jobs |-> 0]
  /\ lease = [j \in Jobs |-> NoOwner]
  /\ rec = [j \in Jobs |-> NoRec]
  /\ acc = [j \in Jobs |-> "new"]
  /\ poll = [j \in Jobs |-> NoRec]
  /\ pc = [w \in Workers |-> "idle"]
  /\ cur = [w \in Workers |-> NoJob]
  /\ copy = [w \in Workers |-> NoRec]
  /\ scan = [w \in Workers |-> {}]
  /\ taken = [w \in Workers |-> {}]
  /\ thread = [w \in Workers |-> "none"]
  /\ inc = [w \in Workers |-> 0]
  /\ left = FaultLimit
  /\ starts = [j \in Jobs |-> 0]
  /\ verdicts = [j \in Jobs |-> {}]

Goto(w, p) == pc' = [pc EXCEPT ![w] = p]
Save(j, r) == rec' = [rec EXCEPT ![j] = r]
Verdict(j, why) == verdicts' = [verdicts EXCEPT ![j] = @ \cup {why}]
Spend(kind) == left[kind] > 0 /\ left' = [left EXCEPT ![kind] = @ - 1]

\* A worker drops everything it remembers and starts its next turn.
Forget(w) ==
  /\ Goto(w, "idle")
  /\ cur' = [cur EXCEPT ![w] = NoJob]
  /\ copy' = [copy EXCEPT ![w] = NoRec]
  /\ scan' = [scan EXCEPT ![w] = {}]
  /\ taken' = [taken EXCEPT ![w] = {}]
  /\ thread' = [thread EXCEPT ![w] = "none"]

-----------------------------------------------------------------------------
(* POST /builds, once the payment has settled.                              *)

AcceptStep(j, from, to) == acc[j] = from /\ acc' = [acc EXCEPT ![j] = to]

Settle(j) ==
  /\ AcceptStep(j, "new", "settled")
  /\ UNCHANGED <<queueVars, rec, poll, workerVars, left, history>>

\* store.create: the record exists, but nothing says yet that it is paid.
Create(j) ==
  /\ AcceptStep(j, "settled", "created")
  /\ Save(j, [NoRec EXCEPT !.status = "queued"])
  /\ UNCHANGED <<queueVars, poll, workerVars, left, history>>

\* store.save of the same BuildJob object, now marked paid.
SavePaid(j) ==
  /\ AcceptStep(j, "created", "saved")
  /\ Save(j, [NoRec EXCEPT !.status = "queued", !.paid = TRUE])
  /\ UNCHANGED <<queueVars, poll, workerVars, left, history>>

\* Mutant: the id is queued before the record says it is paid.
PushUnpaid(j) ==
  /\ AcceptStep(j, "created", "queued")
  /\ pending' = Append(pending, j)
  /\ UNCHANGED <<inflight, lease, rec, poll, workerVars, left, history>>

\* queue.push, and the 202 answer that tells the buyer the id.
Push(j) ==
  /\ AcceptStep(j, "saved", "queued")
  /\ pending' = Append(pending, j)
  /\ UNCHANGED <<inflight, lease, rec, poll, workerVars, left, history>>

\* The accepting process dies, or a command raises, between two of its steps.
AcceptDies(j) ==
  /\ acc[j] \in {"settled", "created", "saved"}
  /\ Spend("crash")
  /\ acc' = [acc EXCEPT ![j] = "dead"]
  /\ UNCHANGED <<queueVars, rec, poll, workerVars, history>>

-----------------------------------------------------------------------------
(* recover_abandoned: requeue_expired over a snapshot of inflight, then the *)
(* record of every id it requeued.                                          *)

Continue(w, s, t) ==
  Goto(w, IF s # {} THEN "exists" ELSE IF t # {} THEN "mark" ELSE "reserve")

\* LRANGE inflight 0 -1
StartScan(w) ==
  /\ pc[w] = "idle"
  /\ scan' = [scan EXCEPT ![w] = InFlight]
  /\ Continue(w, InFlight, {})
  /\ UNCHANGED <<queueVars, rec, acc, poll, cur, copy, taken, thread, inc,
                 left, history>>

\* A live worker still works on the job: it is inside `reserve`, between LMOVE
\* and SET, or its lease lapsed or was deleted by another's ack.
Worked(j) == \E v \in Workers : pc[v] \in Holding \cup {"lease"} /\ cur[v] = j

\* EXISTS lease.  How often a reaper takes a job from a worker that still works
\* on it, which needs a coincidence each time, is bounded like a fault.
CheckLease(w) ==
  /\ pc[w] = "exists"
  /\ \E j \in scan[w] :
       /\ scan' = [scan EXCEPT ![w] = @ \ {j}]
       /\ \/ /\ lease[j] # NoOwner
             /\ Continue(w, scan[w] \ {j}, taken[w])
             /\ UNCHANGED <<cur, left>>
          \/ /\ lease[j] = NoOwner
             /\ Goto(w, "lrem")
             /\ cur' = [cur EXCEPT ![w] = j]
             /\ IF Worked(j) THEN Spend("overlap") ELSE UNCHANGED left
  /\ UNCHANGED <<queueVars, rec, acc, poll, copy, taken, thread, inc, history>>

\* Mutant: the reply of LREM is not looked at.
TakeBackUnchecked(w) ==
  /\ pc[w] = "lrem"
  /\ inflight' = [inflight EXCEPT ![cur[w]] = IF @ > 0 THEN @ - 1 ELSE 0]
  /\ Goto(w, "lpush")
  /\ UNCHANGED <<pending, lease, rec, acc, poll, cur, copy, scan, taken,
                 thread, inc, left, history>>

\* LREM inflight 1: only the reaper that removed an entry pushes the id back.
TakeBack(w) ==
  /\ pc[w] = "lrem"
  /\ IF inflight[cur[w]] > 0
     THEN /\ inflight' = [inflight EXCEPT ![cur[w]] = @ - 1]
          /\ Goto(w, "lpush")
          /\ UNCHANGED cur
     ELSE /\ Continue(w, scan[w], taken[w])
          /\ cur' = [cur EXCEPT ![w] = NoJob]
          /\ UNCHANGED inflight
  /\ UNCHANGED <<pending, lease, rec, acc, poll, copy, scan, taken, thread,
                 inc, left, history>>

\* LPUSH pending
PushBack(w) ==
  /\ pc[w] = "lpush"
  /\ pending' = Append(pending, cur[w])
  /\ taken' = [taken EXCEPT ![w] = @ \cup {cur[w]}]
  /\ Continue(w, scan[w], taken[w] \cup {cur[w]})
  /\ cur' = [cur EXCEPT ![w] = NoJob]
  /\ UNCHANGED <<inflight, lease, rec, acc, poll, copy, scan, thread, inc,
                 left, history>>

\* Mutant: a requeued job starts over with its attempts.
MarkGetAfresh(w) ==
  /\ pc[w] = "mark"
  /\ \E j \in taken[w] :
       /\ taken' = [taken EXCEPT ![w] = @ \ {j}]
       /\ Goto(w, "marksave")
       /\ cur' = [cur EXCEPT ![w] = j]
       /\ copy' = [copy EXCEPT ![w] =
            [rec[j] EXCEPT !.status = "queued", !.attempts = 0]]
  /\ UNCHANGED <<queueVars, rec, acc, poll, scan, thread, inc, left, history>>

\* GET the record of a requeued id; what is saved back is this copy of it.
MarkGet(w) ==
  /\ pc[w] = "mark"
  /\ \E j \in taken[w] :
       /\ taken' = [taken EXCEPT ![w] = @ \ {j}]
       /\ IF rec[j].status = "absent"
          THEN /\ Continue(w, {}, taken[w] \ {j})
               /\ UNCHANGED <<cur, copy>>
          ELSE /\ Goto(w, "marksave")
               /\ cur' = [cur EXCEPT ![w] = j]
               /\ copy' = [copy EXCEPT ![w] =
                    [rec[j] EXCEPT !.status = "queued", !.fresh = TRUE]]
  /\ UNCHANGED <<queueVars, rec, acc, poll, scan, thread, inc, left, history>>

MarkSave(w) ==
  /\ pc[w] = "marksave"
  /\ Save(cur[w], copy[w])
  /\ Continue(w, {}, taken[w])
  /\ cur' = [cur EXCEPT ![w] = NoJob]
  /\ copy' = [copy EXCEPT ![w] = NoRec]
  /\ UNCHANGED <<queueVars, acc, poll, scan, taken, thread, inc, left, history>>

-----------------------------------------------------------------------------
(* run_once: reserve a job and decide what to do with it.                   *)

\* Mutant: RPOP, with the id kept in the worker's memory only.
ReserveByPop(w) ==
  /\ pc[w] \in {"idle", "reserve"}
  /\ pending # <<>>
  /\ pending' = Tail(pending)
  /\ cur' = [cur EXCEPT ![w] = Head(pending)]
  /\ Goto(w, "lease")
  /\ UNCHANGED <<inflight, lease, rec, acc, poll, copy, scan, taken, thread,
                 inc, left, history>>

\* LMOVE pending inflight RIGHT LEFT; a turn may skip the recovery scan.
Reserve(w) ==
  /\ pc[w] \in {"idle", "reserve"}
  /\ IF pending = <<>>
     THEN pc[w] = "reserve" /\ Goto(w, "idle")
          /\ UNCHANGED <<pending, inflight, cur>>
     ELSE /\ pending' = Tail(pending)
          /\ inflight' = [inflight EXCEPT ![Head(pending)] = @ + 1]
          /\ cur' = [cur EXCEPT ![w] = Head(pending)]
          /\ Goto(w, "lease")
  /\ UNCHANGED <<lease, rec, acc, poll, copy, scan, taken, thread, inc, left,
                 history>>

\* SET lease owner EX lease_seconds
TakeLease(w) ==
  /\ pc[w] = "lease"
  /\ lease' = [lease EXCEPT ![cur[w]] = Me(w)]
  /\ Goto(w, "get")
  /\ UNCHANGED <<pending, inflight, rec, acc, poll, cur, copy, scan, taken,
                 thread, inc, left, history>>

\* Mutant: the last attempt is already written as a failure.
NextAttemptEarly(r) ==
  [r EXCEPT !.attempts = @ + 1, !.fresh = TRUE,
            !.status = IF r.attempts + 1 >= MaxAttempts
                       THEN "failed" ELSE "running"]

\* The attempt the worker is about to make, as it will write it.
NextAttempt(r) ==
  [r EXCEPT !.attempts = @ + 1, !.fresh = TRUE,
            !.status = IF r.attempts + 1 > MaxAttempts
                       THEN "failed" ELSE "running"]

\* Mutant: the attempts already made are compared, not the one to come.
GetRecordLenient(w) ==
  /\ pc[w] = "get"
  /\ LET r == rec[cur[w]] IN
     IF r.status = "absent" \/ Terminal(r)
     THEN Goto(w, "acklrem") /\ UNCHANGED <<copy, verdicts>>
     ELSE /\ copy' = [copy EXCEPT ![w] = NextAttempt(r)]
          /\ IF r.attempts > MaxAttempts
             THEN Goto(w, "giveup") /\ Verdict(cur[w], "exhausted")
             ELSE Goto(w, "running") /\ UNCHANGED verdicts
  /\ UNCHANGED <<queueVars, rec, acc, poll, cur, scan, taken, thread, inc,
                 left, starts>>

\* GET the record: drop an id with nothing to build, or prepare the attempt.
GetRecord(w) ==
  /\ pc[w] = "get"
  /\ LET r == rec[cur[w]] IN
     IF r.status = "absent" \/ Terminal(r)
     THEN Goto(w, "acklrem") /\ UNCHANGED <<copy, verdicts>>
     ELSE /\ copy' = [copy EXCEPT ![w] = NextAttempt(r)]
          /\ IF r.attempts + 1 > MaxAttempts
             THEN Goto(w, "giveup") /\ Verdict(cur[w], "exhausted")
             ELSE Goto(w, "running") /\ UNCHANGED verdicts
  /\ UNCHANGED <<queueVars, rec, acc, poll, cur, scan, taken, thread, inc,
                 left, starts>>

SaveGivenUp(w) ==
  /\ pc[w] = "giveup"
  /\ Save(cur[w], copy[w])
  /\ Goto(w, "acklrem")
  /\ UNCHANGED <<queueVars, acc, poll, cur, copy, scan, taken, thread, inc,
                 left, history>>

\* SET status running, then start the build thread.
SaveRunning(w) ==
  /\ pc[w] = "running"
  /\ Save(cur[w], copy[w])
  /\ thread' = [thread EXCEPT ![w] = "alive"]
  /\ starts' = [starts EXCEPT ![cur[w]] = @ + 1]
  /\ Goto(w, "build")
  /\ UNCHANGED <<queueVars, acc, poll, cur, copy, scan, taken, inc, left,
                 verdicts>>

-----------------------------------------------------------------------------
(* _execute: the build thread, and the loop that renews the lease meanwhile.*)

Conclude(w, outcome) ==
  /\ copy' = [copy EXCEPT ![w].status = outcome]
  /\ Verdict(cur[w], outcome)

\* build_work.run sets the outcome on the shared job object and goes on to
\* prune the build directory; it refuses a job that is not marked paid.
ThreadDecides(w) ==
  /\ thread[w] = "alive"
  /\ thread' = [thread EXCEPT ![w] = "decided"]
  /\ \E outcome \in Outcomes :
       /\ outcome = "succeeded" => copy[w].paid
       /\ Conclude(w, outcome)
  /\ UNCHANGED <<queueVars, rec, acc, poll, pc, cur, scan, taken, inc, left,
                 starts>>

\* The thread ends; an exception on its way out turns the outcome to failed.
ThreadEnds(w) ==
  /\ thread[w] = "decided"
  /\ thread' = [thread EXCEPT ![w] = "done"]
  /\ \/ UNCHANGED <<copy, verdicts, left>>
     \/ /\ copy[w].status = "succeeded"
        /\ "prune" \in FaultAt /\ Spend("error")
        /\ Conclude(w, "failed")
  /\ UNCHANGED <<queueVars, rec, acc, poll, pc, cur, scan, taken, inc, starts>>

\* Mutant: any lease on the job counts as the worker's own.
RenewGetAnyOwner(w) ==
  /\ pc[w] = "build"
  /\ IF lease[cur[w]] # NoOwner
     THEN /\ Goto(w, IF thread[w] = "done" THEN "last" ELSE "beat")
          /\ UNCHANGED <<cur, copy, scan, taken, thread>>
     ELSE Forget(w)
  /\ UNCHANGED <<queueVars, rec, acc, poll, inc, left, history>>

\* renew: GET the lease.  Another owner, or none, means standing down: the
\* loop leaves the attempt (and its thread, which cannot be stopped) behind.
RenewGet(w) ==
  /\ pc[w] = "build"
  /\ IF lease[cur[w]] = Me(w)
     THEN /\ Goto(w, IF thread[w] = "done" THEN "last" ELSE "beat")
          /\ UNCHANGED <<cur, copy, scan, taken, thread>>
     ELSE Forget(w)
  /\ UNCHANGED <<queueVars, rec, acc, poll, inc, left, history>>

\* renew: EXPIRE the lease; it answers whether the key exists, whoever owns it.
RenewExpire(w) ==
  /\ pc[w] \in {"beat", "last"}
  /\ IF lease[cur[w]] # NoOwner
     THEN /\ Goto(w, IF pc[w] = "last" THEN "saveresult" ELSE "savebeat")
          /\ UNCHANGED <<cur, copy, scan, taken, thread>>
     ELSE Forget(w)
  /\ UNCHANGED <<queueVars, rec, acc, poll, inc, left, history>>

\* SET the job as it is in memory, with whatever the thread did to it so far.
SaveBeat(w) ==
  /\ pc[w] = "savebeat"
  /\ Save(cur[w], copy[w])
  /\ Goto(w, "build")
  /\ UNCHANGED <<queueVars, acc, poll, cur, copy, scan, taken, thread, inc,
                 left, history>>

SaveResult(w) ==
  /\ pc[w] = "saveresult"
  /\ Save(cur[w], copy[w])
  /\ Goto(w, "acklrem")
  /\ UNCHANGED <<queueVars, acc, poll, cur, copy, scan, taken, thread, inc,
                 left, history>>

\* Mutant: the entry is counted down instead of removed if it is there.
AckRemoveCounting(w) ==
  /\ pc[w] = "acklrem"
  /\ inflight' = [inflight EXCEPT ![cur[w]] = @ - 1]
  /\ Goto(w, "ackdel")
  /\ UNCHANGED <<pending, lease, rec, acc, poll, cur, copy, scan, taken,
                 thread, inc, left, history>>

\* ack: LREM inflight 0, whoever holds the job now
AckRemove(w) ==
  /\ pc[w] = "acklrem"
  /\ inflight' = [inflight EXCEPT ![cur[w]] = 0]
  /\ Goto(w, "ackdel")
  /\ UNCHANGED <<pending, lease, rec, acc, poll, cur, copy, scan, taken,
                 thread, inc, left, history>>

\* ack: DEL lease, whoever owns it now
AckDelete(w) ==
  /\ pc[w] = "ackdel"
  /\ lease' = [lease EXCEPT ![cur[w]] = NoOwner]
  /\ Forget(w)
  /\ UNCHANGED <<pending, inflight, rec, acc, poll, inc, left, history>>

-----------------------------------------------------------------------------
(* GET /builds/{id}: reap_stale reads the record and writes it back failed. *)

\* Mutant: only running jobs are reaped, not those whose id was lost.
PollReadRunning(j) ==
  /\ acc[j] = "queued"
  /\ poll[j] = NoRec
  /\ rec[j].status = "running"
  /\ ~rec[j].fresh
  /\ poll' = [poll EXCEPT ![j] = [rec[j] EXCEPT !.status = "failed"]]
  /\ Verdict(j, "reaped")
  /\ UNCHANGED <<queueVars, rec, acc, workerVars, left, starts>>

\* reap_stale: nobody reported on the job for longer than STALE_AFTER.
PollRead(j) ==
  /\ acc[j] = "queued"
  /\ poll[j] = NoRec
  /\ rec[j].status \in {"queued", "running"}
  /\ ~rec[j].fresh
  /\ poll' = [poll EXCEPT ![j] = [rec[j] EXCEPT !.status = "failed"]]
  /\ Verdict(j, "reaped")
  /\ UNCHANGED <<queueVars, rec, acc, workerVars, left, starts>>

PollSave(j) ==
  /\ poll[j] # NoRec
  /\ Save(j, poll[j])
  /\ poll' = [poll EXCEPT ![j] = NoRec]
  /\ UNCHANGED <<queueVars, acc, workerVars, left, history>>

-----------------------------------------------------------------------------
(* Time and faults.                                                         *)

\* Where a fault would hit: before its next command, or "settled" when the
\* record of the job it holds shows an outcome already.
Point(w) == IF pc[w] \in Holding /\ Terminal(rec[cur[w]])
            THEN "settled" ELSE pc[w]

\* A lease nobody renews runs out; one whose holder is alive does so only if
\* the holder is stalled or cut off from Redis for longer than the lease.
LeaseLapses(j) ==
  /\ lease[j] # NoOwner
  /\ IF Attended(j)
     THEN /\ \A w \in Workers : Attends(w, j) => Point(w) \in FaultAt
          /\ Spend("stall")
     ELSE UNCHANGED left
  /\ lease' = [lease EXCEPT ![j] = NoOwner]
  /\ UNCHANGED <<pending, inflight, rec, acc, poll, workerVars, history>>

\* More than STALE_AFTER has passed since the heartbeat (or, before the first
\* one, since creation).  Never under a live lease, which is far shorter.
Age(j) ==
  /\ acc[j] = "queued"
  /\ rec[j].status \in {"queued", "running"}
  /\ rec[j].fresh
  /\ lease[j] = NoOwner
  /\ IF Orphan(j) THEN UNCHANGED left ELSE Spend("age")
  /\ Save(j, [rec[j] EXCEPT !.fresh = FALSE])
  /\ UNCHANGED <<queueVars, acc, poll, workerVars, history>>

\* The record outlives its last write by `ttl` and no longer; of a job that is
\* not finished this is far more than STALE_AFTER.
RecordExpires(j) ==
  /\ rec[j].status # "absent"
  /\ rec[j].fresh => Terminal(rec[j])
  /\ Spend("expire")
  /\ Save(j, NoRec)
  /\ UNCHANGED <<queueVars, acc, poll, workerVars, history>>

\* The worker process dies and is started again under a new owner id.
Crash(w) ==
  /\ pc[w] # "idle" /\ Point(w) \in FaultAt
  /\ Spend("crash")
  /\ Forget(w)
  /\ inc' = [inc EXCEPT ![w] = @ + 1]
  /\ UNCHANGED <<queueVars, rec, acc, poll, history>>

\* A Redis command raises: run_forever logs it and starts the next turn, the
\* owner id stays, and a build thread is left behind unattended.
RedisError(w) ==
  /\ pc[w] # "idle" /\ Point(w) \in FaultAt
  /\ Spend("error")
  /\ Forget(w)
  /\ UNCHANGED <<queueVars, rec, acc, poll, inc, history>>

-----------------------------------------------------------------------------
AcceptNext(j) == Create(j) \/ SavePaid(j) \/ Push(j)

TurnStep(w) ==
  \/ CheckLease(w) \/ TakeBack(w) \/ PushBack(w) \/ MarkGet(w) \/ MarkSave(w)
  \/ Reserve(w) \/ TakeLease(w) \/ GetRecord(w) \/ SaveGivenUp(w)
  \/ SaveRunning(w) \/ RenewGet(w) \/ RenewExpire(w) \/ SaveBeat(w)
  \/ SaveResult(w) \/ AckRemove(w) \/ AckDelete(w)

ThreadStep(w) == ThreadDecides(w) \/ ThreadEnds(w)

Next ==
  \/ \E j \in Jobs : \/ Settle(j) \/ AcceptNext(j) \/ AcceptDies(j)
                     \/ PollRead(j) \/ PollSave(j)
                     \/ LeaseLapses(j) \/ Age(j) \/ RecordExpires(j)
  \/ \E w \in Workers : \/ StartScan(w) \/ TurnStep(w) \/ ThreadStep(w)
                        \/ Crash(w) \/ RedisError(w)

Spec == Init /\ [][Next]_vars

\* The worker loop never stops taking turns and scans every recover_every
\* seconds whatever else it does; a buyer keeps polling; unattended leases
\* and orphaned records age because time passes.
Fairness ==
  /\ \A w \in Workers : WF_vars(TurnStep(w)) /\ SF_vars(StartScan(w))
  /\ \A j \in Jobs :
       /\ WF_vars(AcceptNext(j))
       /\ WF_vars(PollRead(j)) /\ WF_vars(PollSave(j))
       /\ WF_vars(~Attended(j) /\ LeaseLapses(j))
       /\ WF_vars(Orphan(j) /\ Age(j))

\* Builds end: Gradle, the model and the tools are called with timeouts.
BuildsEnd == \A w \in Workers : WF_vars(ThreadStep(w))

FairSpec == Spec /\ Fairness
-----------------------------------------------------------------------------
(* Properties.                                                              *)

TypeOK ==
  /\ pending \in Seq(Jobs)
  /\ inflight \in [Jobs -> Nat]
  /\ lease \in [Jobs -> Owners]
  /\ rec \in [Jobs -> Record]
  /\ acc \in [Jobs -> Stages]
  /\ poll \in [Jobs -> Record]
  /\ pc \in [Workers -> PCs]
  /\ cur \in [Workers -> Jobs \cup {NoJob}]
  /\ copy \in [Workers -> Record]
  /\ scan \in [Workers -> SUBSET Jobs]
  /\ taken \in [Workers -> SUBSET Jobs]
  /\ thread \in [Workers -> {"none", "alive", "decided", "done"}]
  /\ inc \in [Workers -> Nat]
  /\ left \in [FaultKinds -> Nat]
  /\ starts \in [Jobs -> Nat]
  /\ verdicts \in [Jobs -> SUBSET Reasons]

\* However many reapers, acks and late pushes overlap, an id is in the queue
\* at most once, a reaper between LREM and LPUSH counted (queue.py, "exactly
\* one gets a non-zero reply and does the requeue").
QueueOnce ==
  /\ \A i, k \in 1 .. Len(pending) : pending[i] = pending[k] => i = k
  /\ \A j \in Jobs : inflight[j] <= 1
  /\ \A j \in Jobs : inflight[j] = 1 => j \notin Waiting
  /\ \A w \in Workers : pc[w] = "lpush" =>
       cur[w] \notin Waiting /\ inflight[cur[w]] = 0
  /\ \A v, w \in Workers :
       pc[v] = "lpush" /\ pc[w] = "lpush" /\ cur[v] = cur[w] => v = w

\* No build thread runs for a job whose record was read without the mark of
\* payment, though the record exists unpaid for a while and is rewritten from
\* stale copies (app.py saves before it pushes, build_work refuses unpaid).
PaidBuild == \A w \in Workers : thread[w] # "none" => copy[w].paid

\* The outcome a record shows, if any, has one of these reasons behind it.
Justifies(reasons, r) ==
  /\ r.status = "succeeded" => "succeeded" \in reasons
  /\ r.status = "failed" =>
       reasons \cap {"failed", "exhausted", "reaped"} # {}

\* No stale copy, reaper or late poll can show the buyer an outcome that the
\* job never had: "succeeded" needs an attempt that succeeded, "failed" one
\* that failed, the attempts used up, or a reaping.
HonestOutcome == \A j \in Jobs : Justifies(verdicts[j], rec[j])

\* A build that is owed is in the queue or in the hands of a live worker.
NeverLost == \A j \in Jobs :
  acc[j] = "queued" /\ rec[j].status \in {"queued", "running"} => ~Orphan(j)

\* A build is started at most max_attempts times (worker.py, "A build must
\* never be retried for ever").
AttemptsBounded == \A j \in Jobs : starts[j] <= MaxAttempts

\* Two workers never run the same build.
OneBuilder == \A v, w \in Workers :
  thread[v] # "none" /\ thread[w] # "none" /\ cur[v] = cur[w] => v = w

\* A build that waits in the queue is not failed by the polling buyer
\* (jobs.py, "a build waiting its turn behind a long queue is not mistaken").
WaitingNotReaped == \A j \in Waiting : rec[j].status # "failed"

\* A finished build keeps its outcome (worker.py, "Re-running it would
\* overwrite a result the buyer may already have downloaded").
TerminalStands == [][\A j \in Jobs :
  Terminal(rec[j]) => rec'[j].status = rec[j].status]_vars

\* Whatever finite number of faults, races and lost ids there is, every queued
\* build reaches an outcome that stands, provided that builds end.
EventuallySettled == BuildsEnd =>
  \A j \in Jobs : [](acc[j] = "queued" => <>[]Terminal(rec[j]))

\* Two workers that run the same build do not go on for ever: one finds its
\* lease gone at a heartbeat, even if the builds themselves never end.
OverlapEnds == \A v, w \in Workers :
  []<>(v = w \/ thread[v] = "none" \/ thread[w] = "none" \/ cur[v] # cur[w])

\* What the buyer sees is an execution of JobLifecycle.
Seen(j) == acc[j] = "queued"
Lifecycle == INSTANCE JobLifecycle WITH
  status   <- [j \in Jobs |-> IF Seen(j) THEN rec[j].status ELSE "absent"],
  attempts <- [j \in Jobs |-> rec[j].attempts]
ImplementsLifecycle == Lifecycle!Spec
=============================================================================
