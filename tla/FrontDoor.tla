----------------------------- MODULE FrontDoor -----------------------------
(***************************************************************************)
(* What happens to a request before a job is in the queue:                 *)
(*   service/app.py        create_app, create_build, create_preview,       *)
(*                         mcp_endpoint, _start_build_for_agent, healthz   *)
(*   service/ratelimit.py  RateLimiter: one window in Redis, and one in    *)
(*                         each process when there is no Redis or it fails *)
(*   service/mcp.py        handle, handle_payload                          *)
(* A process has an event loop and a pool of threads.  The HTTP routes run *)
(* on threads; an MCP call runs create_build on the loop itself.  How a     *)
(* payment settles is Payment's subject: here it takes time, and ends in   *)
(* one of three ways.                                                      *)
(***************************************************************************)
EXTENDS Naturals, FiniteSets

CONSTANTS
  Requests,     \* numbered as they arrive
  Processes, Callers,
  NoOne,        \* a free event loop
  Deployments,  \* environments the service may be started in
  Menu,         \* bound: what a request may ask for
  Limit,        \* RateLimiter.limit by name; 0 disables it
  Window,       \* RateLimiter.window_seconds by name, in ticks
  Pool,         \* threads of a process
  Horizon,      \* bound: the clock
  Crashes, Errors  \* bounds: processes that die, Redis calls that fail

Limiters == {"builds", "ip", "all"}

Asks == [route : {"build", "preview", "poll"}, mcp : BOOLEAN,
         caller : Callers, valid : BOOLEAN, pays : BOOLEAN,
         at : Processes]

ASSUME FrontAssumption ==
  /\ Requests \subseteq Nat /\ NoOne \notin Requests \cup Callers
  /\ Limit \in [Limiters -> Nat] /\ Window \in [Limiters -> Nat \ {0}]
  /\ Menu \subseteq Asks
  /\ Pool \in Nat \ {0} /\ Horizon \in Nat /\ Crashes \in Nat /\ Errors \in Nat

VARIABLES
  deploy,  \* the environment: _settings, _redis, _verifier_from_env
  now,     \* the clock
  loop,    \* the MCP call that runs on a process's event loop
  ask,     \* what each request asks for
  pc,      \* how far it got
  answer,  \* status code, 0 before
  charged, \* how its settlement ended.  "yes": in True; "unsure": in False, and a
           \* transfer may have executed all the same
  job,     \* the job it created
  shared,  \* counts of the current windows in Redis
  local,   \* windows in each process
  passed,  \* history: when it passed each limiter
  left     \* faults still allowed

limits == <<shared, local, passed>>
vars   == <<deploy, now, loop, ask, pc, answer, charged, job, limits, left>>

Never   == Horizon + 1
Keys    == Callers \cup {NoOne}    \* the global budget counts all as one
NoAsk   == [route |-> "none", mcp |-> FALSE, caller |-> NoOne,
            valid |-> FALSE, pays |-> FALSE, at |-> NoOne]
PCs     == {"new", "socket", "limit", "global", "check", "settle", "record",
            "push", "reply", "done", "dead"}
Running == {"limit", "global", "check", "settle", "record", "push", "reply"}
Charges == {"no", "yes", "unsure"}
Job     == [state : {"none", "saved", "queued", "taken", "lost"},
            paid : BOOLEAN, preview : BOOLEAN]
NoJob   == [state |-> "none", paid |-> FALSE, preview |-> FALSE]
Fresh   == [count |-> 0, resets |-> 0]

Bucket(lim, t) == t \div Window[lim]

Init ==
  /\ deploy \in Deployments
  /\ now = 0
  /\ loop = [p \in Processes |-> NoOne]
  /\ ask = [r \in Requests |-> NoAsk]
  /\ pc = [r \in Requests |-> "new"]
  /\ answer = [r \in Requests |-> 0]
  /\ charged = [r \in Requests |-> "no"]
  /\ job = [r \in Requests |-> NoJob]
  /\ shared = [l \in Limiters |-> [k \in Keys |-> 0]]
  /\ local = [p \in Processes |-> [l \in Limiters |-> [k \in Keys |-> Fresh]]]
  /\ passed = [r \in Requests |-> [l \in Limiters |-> Never]]
  /\ left = [crash |-> Crashes, error |-> Errors]

-----------------------------------------------------------------------------
\* What the environment makes of the service.

\* _generator_unusable
Unusable == deploy.generator = "claude" /\ ~deploy.key

\* _verifier_from_env: x402, else the dev secret, else refuse everything.
Verifier == IF deploy.token THEN "x402" ELSE IF deploy.secret THEN "dev" ELSE "none"

\* healthz: durable_execution and embedded_worker.
Durable  == deploy.redis
SomeoneBuilds == deploy.embedded \/ deploy.standalone

-----------------------------------------------------------------------------
\* Limiters.

Key(r, lim) == IF lim = "all" THEN NoOne ELSE ask[r].caller

\* Mutant: compares the count before this request.
CheckRedisBefore(r, lim, ok) ==
  LET n == shared[lim][Key(r, lim)] IN
    /\ shared' = [shared EXCEPT ![lim][Key(r, lim)] = n + 1]
    /\ ok = (n <= Limit[lim])
    /\ UNCHANGED local

\* _check_redis: INCR of this window's key; an EXPIRE that goes with it.
CheckRedis(r, lim, ok) ==
  LET n == shared[lim][Key(r, lim)] + 1 IN
    /\ shared' = [shared EXCEPT ![lim][Key(r, lim)] = n]
    /\ ok = (n <= Limit[lim])
    /\ UNCHANGED local

\* _check_local: a window that starts with the first call in it.
CheckLocal(r, lim, ok) ==
  LET w == local[ask[r].at][lim][Key(r, lim)]
      v == IF now >= w.resets
           THEN [count |-> 1, resets |-> now + Window[lim]]
           ELSE [w EXCEPT !.count = @ + 1]
  IN /\ local' = [local EXCEPT ![ask[r].at][lim][Key(r, lim)] = v]
     /\ ok = (v.count <= Limit[lim])
     /\ UNCHANGED shared

\* RateLimiter.check: off, in Redis, or in the process when Redis fails.
Check(r, lim, ok) ==
  /\ \/ Limit[lim] = 0 /\ ok /\ UNCHANGED <<shared, local, left>>
     \/ Limit[lim] > 0 /\ deploy.redis /\ CheckRedis(r, lim, ok) /\ UNCHANGED left
     \/ /\ Limit[lim] > 0 /\ (deploy.redis => left.error > 0)
        /\ CheckLocal(r, lim, ok)
        /\ left' = IF deploy.redis THEN [left EXCEPT !.error = @ - 1] ELSE left
  /\ passed' = IF ok THEN [passed EXCEPT ![r][lim] = now] ELSE passed

-----------------------------------------------------------------------------
\* Requests.

To(r, p)    == pc' = [pc EXCEPT ![r] = p]
Say(r, code) == To(r, "reply") /\ answer' = [answer EXCEPT ![r] = code]
Still       == UNCHANGED <<deploy, now, loop, ask>>
Threads(p)  == {r \in Requests : ask[r].at = p /\ ~ask[r].mcp /\ pc[r] \in Running}

\* Anyone may send anything.
Arrive(r) ==
  /\ pc[r] = "new" /\ \A q \in Requests : q < r => pc[q] # "new"
  /\ \E a \in Menu : ask' = [ask EXCEPT ![r] = a]
  /\ To(r, "socket")
  /\ UNCHANGED <<deploy, now, loop, answer, charged, job, limits, left>>

\* The loop accepts it, and gives it a thread unless it is an MCP call.
Entry(r) == IF ask[r].route = "poll" THEN "reply"
            ELSE IF ask[r].route = "preview" /\ Unusable THEN "check" ELSE "limit"

Dispatch(r) ==
  /\ pc[r] = "socket"
  /\ LET p == ask[r].at IN
       /\ loop[p] = NoOne
       /\ ~ask[r].mcp => Cardinality(Threads(p)) < Pool
       /\ loop' = IF ask[r].mcp THEN [loop EXCEPT ![p] = r] ELSE loop
  /\ To(r, Entry(r))
  /\ answer' = IF ask[r].route = "poll" THEN [answer EXCEPT ![r] = 200] ELSE answer
  /\ UNCHANGED <<deploy, now, ask, charged, job, limits, left>>

\* The limiter of the route; then, for a preview, the global budget.
Limited(r, lim, next) ==
  /\ \E ok \in BOOLEAN :
       /\ Check(r, lim, ok)
       /\ IF ok THEN To(r, next) /\ UNCHANGED answer ELSE Say(r, 429)
  /\ Still /\ UNCHANGED <<charged, job>>

CheckLimit(r) ==
  /\ pc[r] = "limit"
  /\ IF ask[r].route = "build" THEN Limited(r, "builds", "check")
     ELSE Limited(r, "ip", "global")

CheckGlobal(r) == pc[r] = "global" /\ Limited(r, "all", "check")

\* Mutant: a second copy of the route, for agents, that does not charge.
AfterCheckHttp(r) == IF ask[r].route = "build" /\ ~ask[r].mcp THEN "settle" ELSE "record"

\* A deployment that cannot build, a document that is not a PRD.
AfterCheck(r) == IF ask[r].route = "build" THEN "settle" ELSE "record"

Validate(r) ==
  /\ pc[r] = "check"
  /\ IF Unusable THEN Say(r, 503)
     ELSE IF ~ask[r].valid THEN Say(r, 422)
     ELSE To(r, AfterCheck(r)) /\ UNCHANGED answer
  /\ Still /\ UNCHANGED <<charged, job, limits, left>>

SettleAs(r, how) == charged' = [charged EXCEPT ![r] = how]
Granted(r)       == To(r, "record") /\ UNCHANGED answer

\* A facilitator has been asked to move this buyer's money.
MayExecute(r) == ask[r].pays /\ Verifier = "x402" /\ deploy.chain

\* Mutant: a settlement without an answer is granted.
SettleTrusting(r) ==
  /\ pc[r] = "settle"
  /\ \/ ask[r].pays /\ Verifier # "none" /\ SettleAs(r, "yes") /\ Granted(r)
     \/ (ask[r].pays => Verifier # "dev") /\ SettleAs(r, "no") /\ Say(r, 402)
     \/ MayExecute(r) /\ SettleAs(r, "unsure") /\ Granted(r)
  /\ Still /\ UNCHANGED <<job, limits, left>>

\* verifier.settle: waits for the facilitator, in the thread or in the loop.
\* The dev secret is right or wrong; x402 may refuse whoever pays, and the
\* refusal is free, or its transfer has been submitted and may have executed.
Settle(r) ==
  /\ pc[r] = "settle"
  /\ \/ ask[r].pays /\ Verifier # "none" /\ SettleAs(r, "yes") /\ Granted(r)
     \/ (ask[r].pays => Verifier # "dev") /\ SettleAs(r, "no") /\ Say(r, 402)
     \/ MayExecute(r) /\ SettleAs(r, "unsure") /\ Say(r, 402)
  /\ Still /\ UNCHANGED <<job, limits, left>>

\* Mutant: a record that starts as running.
JobForRunning(r) == [state |-> "running", paid |-> ask[r].route = "build",
                     preview |-> ask[r].route = "preview"]

\* store.create and store.save, with the flag of the route.
JobFor(r) == [state |-> "saved", paid |-> ask[r].route = "build",
              preview |-> ask[r].route = "preview"]

\* Mutant: answers once the record is saved, and pushes nothing.
RecordAnswers(r) ==
  /\ pc[r] = "record"
  /\ job' = [job EXCEPT ![r] = JobFor(r)]
  /\ Say(r, 202)
  /\ Still /\ UNCHANGED <<charged, limits, left>>

Record(r) ==
  /\ pc[r] = "record"
  /\ job' = [job EXCEPT ![r] = JobFor(r)]
  /\ To(r, "push")
  /\ Still /\ UNCHANGED <<answer, charged, limits, left>>

Push(r) ==
  /\ pc[r] = "push"
  /\ job' = [job EXCEPT ![r].state = "queued"]
  /\ Say(r, 202)
  /\ Still /\ UNCHANGED <<charged, limits, left>>

\* Mutant: a handler that turns the exception into "cannot build".
RedisErrorRefused(r) ==
  /\ pc[r] \in {"record", "push"} /\ deploy.redis /\ left.error > 0
  /\ left' = [left EXCEPT !.error = @ - 1]
  /\ Say(r, 503)
  /\ Still /\ UNCHANGED <<charged, job, limits>>

\* Redis fails at one of these commands: an unhandled exception.
RedisError(r) ==
  /\ pc[r] \in {"record", "push"} /\ deploy.redis /\ left.error > 0
  /\ left' = [left EXCEPT !.error = @ - 1]
  /\ Say(r, 500)
  /\ Still /\ UNCHANGED <<charged, job, limits>>

\* Mutant: a refused MCP call keeps the loop.
ReplyHolds(r) ==
  /\ pc[r] = "reply" /\ loop[ask[r].at] \in {NoOne, r}
  /\ loop' = [loop EXCEPT ![ask[r].at] = IF answer[r] < 400 THEN NoOne ELSE @]
  /\ To(r, "done")
  /\ UNCHANGED <<deploy, now, ask, answer, charged, job, limits, left>>

\* The loop sends the answer; an MCP call has held it until now.
Reply(r) ==
  /\ pc[r] = "reply" /\ loop[ask[r].at] \in {NoOne, r}
  /\ loop' = [loop EXCEPT ![ask[r].at] = NoOne]
  /\ To(r, "done")
  /\ UNCHANGED <<deploy, now, ask, answer, charged, job, limits, left>>

-----------------------------------------------------------------------------
\* Workers, processes, time.

\* Mutant: only a process that accepts also builds.
ReachableInside(r) == deploy.embedded

\* A worker reserves the job: any worker finds it in Redis, only the worker
\* inside the process that accepted it finds it in memory.
Reachable(r) ==
  IF deploy.redis THEN deploy.standalone \/ deploy.embedded
  ELSE deploy.embedded

Take(r) ==
  /\ job[r].state = "queued" /\ Reachable(r)
  /\ job' = [job EXCEPT ![r].state = "taken"]
  /\ UNCHANGED <<deploy, now, loop, ask, pc, answer, charged, limits, left>>

\* A process dies, with its requests and what it has in memory, and is started
\* again ("restart: unless-stopped" in the compose file).
Here(r, p) == ask[r].at = p /\ pc[r] \in Running \cup {"socket"}

Restart(p) ==
  /\ left.crash > 0
  /\ left' = [left EXCEPT !.crash = @ - 1]
  /\ loop' = [loop EXCEPT ![p] = NoOne]
  /\ pc' = [r \in Requests |-> IF Here(r, p) THEN "dead" ELSE pc[r]]
  /\ job' = [r \in Requests |->
       IF ~deploy.redis /\ ask[r].at = p /\ job[r].state \in {"saved", "queued"}
       THEN [job[r] EXCEPT !.state = "lost"] ELSE job[r]]
  /\ local' = [local EXCEPT ![p] = [l \in Limiters |-> [k \in Keys |-> Fresh]]]
  /\ UNCHANGED <<deploy, now, ask, answer, charged, shared, passed>>

\* A new window is a new key in Redis.
Tick ==
  /\ now < Horizon
  /\ now' = now + 1
  /\ shared' = [l \in Limiters |->
       IF Bucket(l, now + 1) # Bucket(l, now) THEN [k \in Keys |-> 0] ELSE shared[l]]
  /\ UNCHANGED <<deploy, loop, ask, pc, answer, charged, job, local, passed, left>>

Handle(r) == \/ Dispatch(r) \/ CheckLimit(r) \/ CheckGlobal(r) \/ Validate(r)
             \/ Settle(r) \/ Record(r) \/ Push(r) \/ Reply(r)

Next ==
  \/ \E r \in Requests : Arrive(r) \/ Handle(r) \/ RedisError(r) \/ Take(r)
  \/ \E p \in Processes : Restart(p)
  \/ Tick

Spec == Init /\ [][Next]_vars

\* A handler goes on, the facilitator answers or its client times out, and
\* workers poll.
Fairness == \A r \in Requests : WF_vars(Handle(r)) /\ WF_vars(Take(r))
FairSpec == Spec /\ Fairness

-----------------------------------------------------------------------------
\* Properties.

\* Types.
TypeOK ==
  /\ deploy \in Deployments /\ now \in 0 .. Horizon
  /\ loop \in [Processes -> Requests \cup {NoOne}]
  /\ ask \in [Requests -> Asks \cup {NoAsk}] /\ pc \in [Requests -> PCs]
  /\ answer \in [Requests -> {0, 200, 202, 402, 422, 429, 500, 503}]
  /\ charged \in [Requests -> Charges] /\ job \in [Requests -> Job]
  /\ shared \in [Limiters -> [Keys -> Nat]]
  /\ local \in [Processes -> [Limiters -> [Keys -> [count : Nat, resets : Nat]]]]
  /\ passed \in [Requests -> [Limiters -> 0 .. Never]]
  /\ left \in [crash : 0 .. Crashes, error : 0 .. Errors]

Passed(lim, k, times, at) ==
  {r \in Requests : /\ passed[r][lim] \in times \ {Never} /\ Key(r, lim) = k
                    /\ ask[r].at \in at}

\* The windows a process can have had between two moments.
WindowsBetween(lim, t, u) == 1 + (u - t + Window[lim] - 1) \div Window[lim]

\* A limit holds over all processes together in each window of Redis, but for
\* one request with every failure of Redis.  Without Redis it holds at each
\* process in each of its windows ("twice the limit across a window boundary"),
\* and starts again with the process.
LimitHeld ==
  \A lim \in Limiters, k \in Keys, t \in 0 .. Horizon :
    Limit[lim] > 0 =>
      IF deploy.redis
      THEN LET window == {u \in 0 .. Horizon : Bucket(lim, u) = Bucket(lim, t)}
           IN Cardinality(Passed(lim, k, window, Processes))
                <= Limit[lim] + (Errors - left.error)
      ELSE \A p \in Processes, u \in t .. Horizon :
             Cardinality(Passed(lim, k, t .. u, {p}))
               <= (WindowsBetween(lim, t, u) + Crashes - left.crash) * Limit[lim]

\* Whatever way a job came in, HTTP or MCP, it is paid for or it is a preview
\* within both of its limits; and its document is valid, its deployment usable.
AdmittedRightly ==
  \A r \in Requests : job[r].state # "none" =>
    /\ ask[r].valid /\ ~Unusable
    /\ job[r].paid => charged[r] = "yes"
    /\ job[r].preview => /\ charged[r] = "no"
                         /\ passed[r]["ip"] <= now /\ passed[r]["all"] <= now
    /\ job[r].paid # job[r].preview

\* Whoever is turned away for a bad document, over the limit or at a deployment
\* that cannot build ("before any payment was taken") has not paid, and no money
\* of theirs is on its way.
RefusedIsFree ==
  \A r \in Requests : answer[r] \in {422, 429, 503} => charged[r] = "no"

\* A settled payment ends in an answer that says so, or in an error; one that
\* may have executed is told as a 402, never as accepted, and buys nothing.  So
\* money without a build is told as one of those two, or its process died
\* before the push; and nobody is told that a build runs which was not queued.
ChargeAnswered ==
  \A r \in Requests :
    /\ charged[r] = "yes" /\ pc[r] = "done" => answer[r] \in {202, 500}
    /\ charged[r] = "unsure" => job[r].state = "none" /\ answer[r] = 402
    /\ answer[r] = 202 => job[r].state \in {"queued", "taken", "lost"}
    /\ charged[r] = "yes" /\ job[r].state \in {"none", "saved"} =>
         \/ pc[r] \in {"record", "push", "dead"} \/ answer[r] = 500

\* app.py:366, "Set PREVIEW_DAILY_LIMIT=0 to switch previews off entirely".
PreviewsOff == Limit["all"] = 0 => \A r \in Requests : ~job[r].preview

\* Every request is answered or dies with its process, although a settlement
\* over MCP holds the event loop, and one over HTTP a thread.
EveryoneAnswered ==
  \A r \in Requests : pc[r] = "socket" ~> pc[r] \in {"done", "dead"}

\* A settled payment's build starts, behind a loop and threads that others hold,
\* whatever restarts, on a deployment whose /healthz says durable_execution and
\* that has a worker anywhere: unless the process died, or Redis failed, before
\* the push.  In a single container also unless its process died after it.
PaidStarts ==
  \A r \in Requests :
    charged[r] = "yes" /\ SomeoneBuilds /\ (Durable \/ deploy.embedded) ~>
      \/ job[r].state = "taken"
      \/ job[r].state \in {"none", "saved"} /\ (pc[r] = "dead" \/ answer[r] = 500)
      \/ job[r].state = "lost" /\ ~Durable
=============================================================================
