------------------------------ MODULE Payment ------------------------------
(***************************************************************************)
(* From the X-Payment header to the 202 or 402 answer:                     *)
(*   payments/x402.py         X402Verifier.settle, UnsettledFacilitator    *)
(*   payments/eip3009.py      verify_payment                               *)
(*   payments/replay.py       InMemoryNonceStore, RedisNonceStore          *)
(*   payments/facilitator.py  HttpFacilitator.precheck, settle             *)
(*   service/app.py           create_build                                 *)
(* Handlers run on a thread pool, so the requests of a process interleave  *)
(* and share its one verifier.  Several processes may share Redis.         *)
(***************************************************************************)
EXTENDS Naturals

CONSTANTS
  Requests,    \* POST /builds requests
  Auths,       \* signed authorizations, told apart by their replay_key
  Processes,   \* API processes
  None,        \* Python's None: no header, no receipt, no error
  Deployments, \* where claimed nonces are kept, and whether there is a facilitator
  Before,      \* validBefore of each authorization
  Skew,        \* X402_CLOCK_SKEW
  Grace,       \* RedisNonceStore's grace
  Retries,     \* HttpFacilitator.retries
  Horizon,     \* bound: the clock stops there
  FaultLimit   \* bound: restarts and failing Redis commands

ASSUME PaymentAssumption ==
  /\ None \notin Auths
  /\ Deployments \subseteq [store : {"redis", "memory"}, chain : BOOLEAN]
  /\ Before \in [Auths -> Nat]
  /\ Skew \in Nat /\ Grace \in Nat /\ Retries \in Nat
  /\ Horizon \in Nat /\ FaultLimit \in Nat

VARIABLES
  deploy,   \* the environment the processes are started in
  now,      \* seconds, coarsely
  pc,       \* next step of each request
  auth,     \* the authorization in its header
  proc,     \* the process that handles it
  tries,    \* settle attempts that were left without a definite answer
  answer,   \* the receipt, or the reason of the refusal, in its response
  error,    \* verifier.last_error of each process
  receipt,  \* verifier.last_transaction; the authorization it moved, or None
  claims,   \* processes in whose nonce store the authorization is claimed
  moved,    \* authorizations executed on the chain
  limbo,    \* submitted without an answer: may still execute
  faults,   \* how many faults have happened
  spenders  \* history: requests whose claim of the authorization succeeded

verifier == <<error, receipt>>
chain    == <<moved, limbo>>
request  == <<auth, proc, deploy>>
vars == <<now, pc, request, tries, answer, verifier, claims, chain, faults,
          spenders>>

\* Where claimed nonces are kept; without a facilitator a payment is verified only.
Store   == deploy.store
OnChain == deploy.chain

Reasons == {"no header", "invalid", "unconfirmed", "unreachable", "used",
            "refused", "unknown"}
\* Where a request is in hand; from "submit" on its authorization is spent.
Running  == {"verify", "precheck", "claim", "submit", "create", "receipt",
             "queue", "refuse"}
Final    == {"away", "accepted", "refused", "dead"}

\* The payment of the request has settled and its build is on its way.
Granted(r) == pc[r] \in {"create", "receipt", "queue", "accepted"}

Init ==
  /\ deploy \in Deployments
  /\ now = 0
  /\ pc = [r \in Requests |-> "new"]
  /\ auth = [r \in Requests |-> None]
  /\ proc \in [Requests -> Processes]
  /\ tries = [r \in Requests |-> 0]
  /\ answer = [r \in Requests |-> None]
  /\ error = [p \in Processes |-> None]
  /\ receipt = [p \in Processes |-> None]
  /\ claims = [a \in Auths |-> {}]
  /\ moved = {}
  /\ limbo = {}
  /\ faults = 0
  /\ spenders = [a \in Auths |-> {}]

Goto(r, p) == pc' = [pc EXCEPT ![r] = p]
Fault == faults < FaultLimit /\ faults' = faults + 1

\* settle returns False; the reason waits in the verifier for the 402 body.
Refuse(r, why) ==
  /\ error' = [error EXCEPT ![proc[r]] = why]
  /\ Goto(r, "refuse")
  /\ UNCHANGED receipt

\* Mutant: a bool comes back instead of the transaction.
AcceptBool(r, tx) ==
  /\ receipt' = [receipt EXCEPT ![proc[r]] = TRUE]
  /\ Goto(r, "create")
  /\ UNCHANGED error

\* settle returns True; the transaction waits in the verifier for the job.
Accept(r, tx) ==
  /\ receipt' = [receipt EXCEPT ![proc[r]] = tx]
  /\ Goto(r, "create")
  /\ UNCHANGED error

-----------------------------------------------------------------------------
(* Before the money.                                                        *)

\* The rate limit, an unusable generator or a malformed PRD ends the request.
TurnAway(r) ==
  /\ pc[r] = "new"
  /\ Goto(r, "away")
  /\ UNCHANGED <<now, request, tries, answer, verifier, claims, chain, faults,
                 spenders>>

\* settle starts by resetting what the verifier says of its last call.
Arrive(r) ==
  /\ pc[r] = "new"
  /\ \E a \in Auths \cup {None} :
       /\ auth' = [auth EXCEPT ![r] = a]
       /\ Goto(r, IF a = None THEN "refuse" ELSE "verify")
       /\ error' = [error EXCEPT ![proc[r]] =
                      IF a = None THEN "no header" ELSE None]
  /\ receipt' = [receipt EXCEPT ![proc[r]] = None]
  /\ UNCHANGED <<now, deploy, proc, tries, answer, claims, chain, faults, spenders>>

\* verify_payment: a header may be wrong in many ways; expiry is the one that
\* changes with time.
Verify(r) ==
  /\ pc[r] = "verify"
  /\ \/ /\ Before[auth[r]] + Skew > now
        /\ Goto(r, "precheck")
        /\ UNCHANGED verifier
     \/ Refuse(r, "invalid")
  /\ UNCHANGED <<now, request, tries, answer, claims, chain, faults, spenders>>

\* The facilitator's /verify: only an explicit "valid" goes on.
Precheck(r) ==
  /\ pc[r] = "precheck"
  /\ \/ /\ Goto(r, "claim")
        /\ UNCHANGED verifier
     \/ /\ OnChain
        /\ \E why \in {"unconfirmed", "unreachable"} : Refuse(r, why)
  /\ UNCHANGED <<now, request, tries, answer, claims, chain, faults, spenders>>

-----------------------------------------------------------------------------
(* The nonce.                                                               *)

\* claim answered True, or False.
Claimed(r) ==
  /\ spenders' = [spenders EXCEPT ![auth[r]] = @ \cup {r}]
  /\ Goto(r, "submit")
  /\ UNCHANGED verifier
NotClaimed(r) == Refuse(r, "used") /\ UNCHANGED spenders

\* _evict_expired leaves this of the claims in process p.
Evicted(p, a) == IF Before[a] <= now THEN claims[a] \ {p} ELSE claims[a]

ClaimMemory(r) ==
  /\ pc[r] = "claim" /\ Store = "memory"
  /\ LET p == proc[r]
         left == [a \in Auths |-> Evicted(p, a)]
     IN IF p \in left[auth[r]]
        THEN claims' = left /\ NotClaimed(r)
        ELSE /\ claims' = [left EXCEPT ![auth[r]] = @ \cup {p}]
             /\ Claimed(r)
  /\ UNCHANGED <<now, request, tries, answer, chain, faults>>

\* The key of a claim lives until `grace` after validBefore.
KeyExists(a) == claims[a] # {} /\ now < Before[a] + Grace

\* Mutant: the time that remains is not looked at.
ClaimRedisLate(r) ==
  /\ pc[r] = "claim" /\ Store = "redis"
  /\ \/ /\ ~KeyExists(auth[r])
        /\ claims' = [claims EXCEPT ![auth[r]] = Processes]
        /\ Claimed(r)
     \/ /\ KeyExists(auth[r])
        /\ UNCHANGED claims
        /\ NotClaimed(r)
  /\ UNCHANGED <<now, request, tries, answer, chain, faults>>

\* SET NX EX: a lapsed authorization is refused before Redis is asked.
ClaimRedis(r) ==
  /\ pc[r] = "claim" /\ Store = "redis"
  /\ IF now < Before[auth[r]] /\ ~KeyExists(auth[r])
     THEN /\ claims' = [claims EXCEPT ![auth[r]] = Processes]
          /\ Claimed(r)
     ELSE UNCHANGED claims /\ NotClaimed(r)
  /\ UNCHANGED <<now, request, tries, answer, chain, faults>>

\* The command raises, whether or not Redis executed it: payment is refused.
ClaimFails(r) ==
  /\ pc[r] = "claim" /\ Store = "redis"
  /\ Fault
  /\ \/ UNCHANGED claims
     \/ claims' = [claims EXCEPT ![auth[r]] = Processes]
  /\ NotClaimed(r)
  /\ UNCHANGED <<now, request, tries, answer, chain>>

-----------------------------------------------------------------------------
(* The settlement.                                                          *)

\* UnsettledFacilitator: recorded, not submitted, and no transaction.
Record(r) ==
  /\ pc[r] = "submit" /\ ~OnChain
  /\ Accept(r, None)
  /\ UNCHANGED <<now, request, tries, answer, claims, chain, faults, spenders>>

\* The facilitator executes the transfer and says so.
Settled(r) ==
  /\ pc[r] = "submit" /\ OnChain
  /\ auth[r] \notin moved
  /\ moved' = moved \cup {auth[r]}
  /\ Accept(r, auth[r])
  /\ UNCHANGED <<now, request, tries, answer, claims, limbo, faults, spenders>>

\* It refuses: no funds, a 4xx, or a nonce that an attempt before has spent.  The
\* answer is definite, and what the attempts before left open is forgotten.
SettleRefused(r) ==
  /\ pc[r] = "submit" /\ OnChain
  /\ Refuse(r, "refused")
  /\ UNCHANGED <<now, request, tries, answer, claims, chain, faults, spenders>>

\* Mutant: an outcome that stays unknown counts as settled.
SettleSilentTrusting(r) ==
  /\ pc[r] = "submit" /\ OnChain
  /\ tries' = [tries EXCEPT ![r] = @ + 1]
  /\ limbo' = limbo \cup {auth[r]}
  /\ IF tries[r] < Retries THEN UNCHANGED <<pc, verifier>>
                           ELSE Accept(r, auth[r])
  /\ UNCHANGED <<now, request, answer, claims, moved, faults, spenders>>

\* Mutant: a silent attempt is retried without being counted.
SettleSilentForever(r) ==
  /\ pc[r] = "submit" /\ OnChain
  /\ limbo' = limbo \cup {auth[r]}
  /\ UNCHANGED <<now, pc, request, tries, answer, verifier, claims, moved,
                 faults, spenders>>

\* Timeout, transport error, 5xx or unreadable body: it is tried again, up to
\* `retries` times; the transfer may have been broadcast or not.
SettleSilent(r) ==
  /\ pc[r] = "submit" /\ OnChain
  /\ tries' = [tries EXCEPT ![r] = @ + 1]
  /\ limbo' \in {limbo, limbo \cup {auth[r]}}
  /\ IF tries[r] < Retries THEN UNCHANGED <<pc, verifier>>
                           ELSE Refuse(r, "unknown")
  /\ UNCHANGED <<now, request, answer, claims, moved, faults, spenders>>

\* A broadcast transfer executes, once, sooner or later.
Execute(a) ==
  /\ a \in limbo
  /\ limbo' = limbo \ {a}
  /\ moved' = moved \cup {a}
  /\ UNCHANGED <<now, pc, request, tries, answer, verifier, claims, faults,
                 spenders>>

-----------------------------------------------------------------------------
(* The answer.                                                              *)

\* The 402 body reads the reason back from the verifier.
AnswerRefusal(r) ==
  /\ pc[r] = "refuse"
  /\ answer' = [answer EXCEPT ![r] = error[proc[r]]]
  /\ Goto(r, "refused")
  /\ UNCHANGED <<now, request, tries, verifier, claims, chain, faults, spenders>>

\* store.create, a Redis command under way while other requests settle.
CreateJob(r) ==
  /\ pc[r] = "create"
  /\ Goto(r, "receipt")
  /\ UNCHANGED <<now, request, tries, answer, verifier, claims, chain, faults,
                 spenders>>

\* job.settlement_tx = verifier.last_transaction
TakeReceipt(r) ==
  /\ pc[r] = "receipt"
  /\ answer' = [answer EXCEPT ![r] = receipt[proc[r]]]
  /\ Goto(r, "queue")
  /\ UNCHANGED <<now, request, tries, verifier, claims, chain, faults, spenders>>

\* store.save and queue.push, then 202.
QueueJob(r) ==
  /\ pc[r] = "queue"
  /\ Goto(r, "accepted")
  /\ UNCHANGED <<now, request, tries, answer, verifier, claims, chain, faults,
                 spenders>>

\* The store or the queue raises: the buyer gets a 500.
JobFails(r) ==
  /\ pc[r] \in {"create", "queue"}
  /\ Fault
  /\ Goto(r, "dead")
  /\ UNCHANGED <<now, request, tries, answer, verifier, claims, chain, spenders>>

\* The process dies with its requests; a nonce store in memory dies too.
Restart(p) ==
  /\ Fault
  /\ pc' = [r \in Requests |->
              IF proc[r] = p /\ pc[r] \in Running THEN "dead" ELSE pc[r]]
  /\ error' = [error EXCEPT ![p] = None]
  /\ receipt' = [receipt EXCEPT ![p] = None]
  /\ claims' = [a \in Auths |->
                  IF Store = "memory" THEN claims[a] \ {p} ELSE claims[a]]
  /\ UNCHANGED <<now, request, tries, answer, chain, spenders>>

Tick ==
  /\ now < Horizon
  /\ now' = now + 1
  /\ UNCHANGED <<pc, request, tries, answer, verifier, claims, chain, faults,
                 spenders>>

-----------------------------------------------------------------------------
Step(r) ==
  \/ Verify(r) \/ Precheck(r) \/ ClaimMemory(r) \/ ClaimRedis(r)
  \/ Record(r) \/ Settled(r) \/ SettleRefused(r) \/ SettleSilent(r)
  \/ AnswerRefusal(r) \/ CreateJob(r) \/ TakeReceipt(r) \/ QueueJob(r)

Next ==
  \/ \E r \in Requests : \/ TurnAway(r) \/ Arrive(r) \/ Step(r)
                         \/ ClaimFails(r) \/ JobFails(r)
  \/ \E a \in Auths : Execute(a)
  \/ \E p \in Processes : Restart(p)
  \/ Tick

Spec == Init /\ [][Next]_vars

\* A handler's thread keeps running: every call it waits for has a timeout.
FairSpec == Spec /\ \A r \in Requests : WF_vars(Step(r))

-----------------------------------------------------------------------------
(* Properties.                                                              *)

TypeOK ==
  /\ deploy \in [store : {"redis", "memory"}, chain : BOOLEAN]
  /\ now \in Nat
  /\ pc \in [Requests -> {"new"} \cup Running \cup Final]
  /\ auth \in [Requests -> Auths \cup {None}]
  /\ proc \in [Requests -> Processes]
  /\ tries \in [Requests -> Nat]
  /\ answer \in [Requests -> Auths \cup Reasons \cup {None}]
  /\ error \in [Processes -> Reasons \cup {None}]
  /\ receipt \in [Processes -> Auths \cup {None}]
  /\ claims \in [Auths -> SUBSET Processes]
  /\ moved \in SUBSET Auths
  /\ limbo \in SUBSET Auths
  /\ faults \in Nat
  /\ spenders \in [Auths -> SUBSET Requests]

\* With the nonces in Redis, of all requests that ever present an authorization,
\* at the same time, after a failure, a restart or its expiry, one spends it
\* (replay.py, "exactly one wins", "A claim is never released").
SpentOnce == Store = "redis" =>
  \A a \in Auths : \A r, s \in spenders[a] : r = s

\* An authorization buys at most one build, even when the nonce store forgets:
\* then the chain, which executes it once, is what refuses the second buyer.
OneBuild == OnChain \/ Store = "redis" => \A r, s \in Requests :
  Granted(r) /\ Granted(s) /\ auth[r] = auth[s] => r = s

\* With a facilitator, a build is granted only when the transfer was executed,
\* however many attempts went unanswered before (facilitator.py, "nothing
\* counts as settled unless the response says so explicitly").
PaidFor == OnChain => \A r \in Requests : Granted(r) => auth[r] \in moved

\* A settlement that comes back as refused has not been executed, so the buyer
\* told "payment was not settled" has not been charged (facilitator.py,
\* "Collapsing unknown into failure would be a lie about whether the buyer was
\* charged").
RefusedIsUncharged ==
  [][\A r \in Requests : SettleRefused(r) => auth[r] \notin moved]_vars

\* The receipt on a job is of the buyer's own transfer (x402.py, "The buyer's
\* receipt").
ReceiptIsOwn == OnChain => \A r \in Requests :
  pc[r] = "accepted" => answer[r] = auth[r]

\* Every request is answered, whatever the facilitator does.
Answered == \A r \in Requests : pc[r] \in Running ~> pc[r] \in Final
=============================================================================
