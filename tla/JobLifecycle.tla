---------------------------- MODULE JobLifecycle ----------------------------
(***************************************************************************)
(* What a buyer is promised about a build, with the queue, the leases and  *)
(* the workers hidden: `BuildStatus` and `attempts` of jobs.py as          *)
(* GET /builds/{id} reports them.  DurableQueue is shown to implement it   *)
(* when no fault hits a job whose outcome is already on record.            *)
(***************************************************************************)
EXTENDS Naturals

CONSTANTS
  Jobs,         \* ids of builds that were paid for
  MaxAttempts   \* BuildWorker.max_attempts

VARIABLES
  status,       \* what the buyer sees; "absent" until the 202 answer
  attempts      \* how often a worker picked the job up, as the buyer sees it

vars == <<status, attempts>>

Outcomes == {"succeeded", "failed"}
Statuses == {"absent", "queued", "running"} \cup Outcomes

Init ==
  /\ status = [j \in Jobs |-> "absent"]
  /\ attempts = [j \in Jobs |-> 0]

Become(j, s) == status' = [status EXCEPT ![j] = s]

\* The 202 answer: from here on the build is owed.
Accept(j) ==
  /\ status[j] = "absent"
  /\ Become(j, "queued")
  /\ UNCHANGED attempts

\* A worker picks the job up.
Start(j) ==
  /\ status[j] \in {"queued", "running"}
  /\ attempts[j] < MaxAttempts
  /\ Become(j, "running")
  /\ attempts' = [attempts EXCEPT ![j] = @ + 1]

\* The worker is found dead; the job waits for another attempt.
Requeue(j) ==
  /\ status[j] \in {"queued", "running"}
  /\ Become(j, "queued")
  /\ UNCHANGED attempts

\* An attempt ends with an outcome, which stands.
Conclude(j) ==
  /\ status[j] = "running"
  /\ \E s \in Outcomes : Become(j, s)
  /\ UNCHANGED attempts

\* The attempts are used up; the next pick-up fails the job instead.
GiveUp(j) ==
  /\ status[j] \in {"queued", "running"}
  /\ attempts[j] = MaxAttempts
  /\ Become(j, "failed")
  /\ attempts' = [attempts EXCEPT ![j] = @ + 1]

Next == \E j \in Jobs :
  Accept(j) \/ Start(j) \/ Requeue(j) \/ Conclude(j) \/ GiveUp(j)

Spec == Init /\ [][Next]_vars
=============================================================================
