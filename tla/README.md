# Verification of the app-generation service

This directory holds TLA+ models of the service in `src/`, the TLC
configurations that check them, and TLAPS proofs about them. The service sells
builds: a buyer POSTs a PRD with an x402 payment, a worker generates a Flutter
app from it, repairs it until analysis is clean, packages an APK, and the buyer
polls for the outcome. The money moves before the build starts, so most of what
has to be right is about not losing, repeating or misreporting paid work.

Contents: [inventory](#1-inventory), [modules](#2-modules),
[the durable queue](#3-the-durable-queue), [payment](#4-payment),
[the repair loop](#5-the-repair-loop), [the build directory](#6-the-build-directory),
[the front door](#7-the-front-door), [generation](#8-generation), [runs](#9-runs),
[fairness](#10-fairness), [proofs](#11-proofs),
[disagreements](#12-where-code-and-docs-disagree),
[what is not modelled](#13-not-modelled).

## 1. Inventory

| Component | State it keeps | Operations | What is hard | What makes it correct |
|---|---|---|---|---|
| Build queue, `service/queue.py` | Redis: `pending` list, `inflight` list, one lease key per job | `push`, `reserve` (LMOVE, SET), `renew` (GET, EXPIRE), `ack` (LREM, DEL), `requeue_expired` (LRANGE, EXISTS, LREM, LPUSH) | no operation but LMOVE is atomic; every worker is also a reaper; leases lapse by themselves | an id is never lost and never queued twice; a job has one builder |
| Worker, `service/worker.py` | the job object in memory, a build thread, a heartbeat loop | `run_once`, `recover_abandoned`, `_execute`, `_give_up`, `run_forever` | crash or Redis error between any two commands; the thread cannot be stopped; the loop saves the object the thread writes | attempts are bounded; a worker that lost its job stands down; a finished build is not run again |
| Job record, `service/jobs.py` | Redis: one JSON record per job, with a TTL | `create`, `get`, `save`, `reap_stale` | whole-record last-write-wins from copies read earlier | outcomes are honest and stand; a lost job is failed, a waiting one is not |
| HTTP front, `service/app.py` | verifier, limiter, store and queue in `app.state` | `POST /builds`, `GET /builds/{id}`, previews, files | handlers run on a thread pool and share one verifier | nothing unpaid is built, whatever was paid for is queued |
| MCP endpoint, `service/mcp.py` | none | the same builds and previews, as tool calls | runs on the event loop, which a settlement then holds | the same rules as over HTTP, and everyone else is still answered in the end |
| Payment, `payments/*.py` | claimed nonces (Redis or memory), the verifier's last result | `verify_payment`, `claim`, `precheck`, `settle` with retries | concurrent replays, timeouts after execution, clock skew | one authorization buys at most one build; the buyer gets their own receipt |
| Rate limiter, `service/ratelimit.py` | window counter per caller | `check` | fallback from Redis to memory, window boundaries | at most `limit` (twice across a boundary) |
| Generation graph, `graph/*.py`, `ports/ownership.py` | `BuildState`: files per agent, diagnostics, attempts, signature | plan, genui, logic, qa, package, routing | a loop with three ways to stop; agents confined to lanes | it ends within the budget; only clean, paid builds are packaged |
| Build directory, `service/artifacts.py` | files under `BUILD_ROOT/<id>` | `keep_only_the_artifact`, `sweep_expired` | attempts of one job share the directory | the APK that the record names exists |
| Packaging, `build/*.py` | project tree | `run_build`, `ensure_android_scaffold`, `unsign_release`, `inspect_signature` | gate on payment; what a dead attempt left | no unpaid APK, no debug-signed release |
| Command line, `supervisor.py` | none | run the graph once, print the result | - | reads the result as `build_work` does |
| Apify actor, `actor/main.py` | charge state of a run | charge, build, push | failure between the steps | charged only for what is delivered |
| PRD, `prd/schema.py` | none | validate | names that differ only in their spelling | what passes can be built |
| Template generator, `ports/templates.py` | none | plan, build the UI, wire the state | every name is derived, and the document's prose goes into the text | its app passes the checks |
| Static checks, `ports/conformance.py`, `StubAnalyzer` | none | files in, diagnostics out | they search text for names, braces and quotes | what passes is what the PRD asks for |
| Model calls, `ports/llm.py`, `usage.py` | features the server rejects, token counts | one call per agent and round | - | see section 13 |
| Test builders and runner, SDK analyzer, toolchain discovery, `ports/*.py` | none | run tools | - | seen through the diagnostics they give |

How they interact: `create_build` calls the limiter, the verifier (which calls
the nonce store and the facilitator), the job store and the queue, in this
order; an MCP call is the same function on the event loop. Workers share nothing
with the API but Redis, or, in a single container, the process. A worker's heartbeat loop
and its build thread share one job object. Buyers' polls write, too:
`get_build` calls `reap_stale`, which saves the record.

The hazards this exposes are listed with their lines in `PROJECT.json`.

## 2. Modules

| Module | Models | Theorems in |
|---|---|---|
| `JobLifecycle` | what a buyer is promised about a build | (implemented by `DurableQueue`, checked) |
| `DurableQueue` | queue, job store, workers, accept and poll, in Redis | `DurableQueueProofs`, `DurableQueueAlone` |
| `Payment` | verifier, nonce stores, facilitator with retries, concurrent `create_build`s and their receipts | `PaymentProofs` |
| `RepairLoop` | graph nodes, routing, repair budget, stalled rounds, lanes, what `build_work` makes of the result | `RepairLoopProofs` |
| `BuildTree` | a job's directory, packaging, signing, pruning, retention, under retries and zombie threads | `BuildTreeProofs`, `BuildTreeArtifact` |
| `FrontDoor` | deployments, limiters, event loop and threads, HTTP and MCP, previews, single-container queue | `FrontDoorProofs` |
| `Templates` | the PRD, what its texts are to a search, and what the template generator makes of it | lemmas of `GenerationProofs` |
| `Conformance` | the static checks and the stub analyzer | lemmas of `GenerationProofs` |
| `Generation` | `RepairLoop` with the two in it: a build from its PRD to its outcome | `GenerationProofs` |

The `MC...` modules give the constants of each their small values.

How they fit together: a request passes `FrontDoor`, whose `Settle` is all of
`Payment`, whose `CreateJob` and `QueueJob` are `Settle`, `Create`, `SavePaid` and
`Push` of `DurableQueue`. What a build thread of `DurableQueue` does is `BuildTree`
as far as the directory is concerned, whose `Generate` is all of `RepairLoop`.
`Generation` composes by INSTANCE: it is `RepairLoop` with its open choices (what
is written, what the checks say) answered by `Templates` and `Conformance`.
`DurableQueue` is shown to implement `JobLifecycle` by a refinement mapping, and
`Generation` to implement `RepairLoop`.

What a next version would add: the model calls and their accounting, and the actor
(section 13).

## 3. The durable queue

`DurableQueue` has one action per Redis command, because that is what other
processes can come between. A worker's program counter `pc` names its next
command.

| Code | Actions |
|---|---|
| `create_build` after settlement | `Settle`, `Create`, `SavePaid`, `Push`; `AcceptDies` between them |
| `recover_abandoned`, `requeue_expired` | `StartScan` (LRANGE), `CheckLease` (EXISTS), `TakeBack` (LREM), `PushBack` (LPUSH), `MarkGet`, `MarkSave` |
| `run_once`, `reserve` | `Reserve` (LMOVE), `TakeLease` (SET), `GetRecord`, `SaveGivenUp`, `SaveRunning` |
| `_execute` | `ThreadDecides`, `ThreadEnds` (the thread); `RenewGet`, `RenewExpire`, `SaveBeat`, `SaveResult` (the loop) |
| `ack` | `AckRemove` (LREM), `AckDelete` (DEL) |
| `get_build`, `reap_stale` | `PollRead`, `PollSave` |
| time and failure | `LeaseLapses`, `Age`, `RecordExpires`, `Crash`, `RedisError` |

Data kept: of a record its status, attempts, `paid` and whether its heartbeat is
younger than `STALE_AFTER`; of a lease its owner (a worker and its incarnation,
since `new_owner_id` is fresh per start); `inflight` is a bag of ids. `copy[w]` is
the job object in worker `w`'s memory: what a save writes is this copy, however
old. A reaper's snapshot and the ids it requeued are sets: the order in which it
visits them is left open. `left`, `starts` and `verdicts` are not in the code: the
first counts down the faults a behaviour may still have, the others are history.

Decisions a reader should know:

* A lease that a live, running worker attends lapses only as a `stall` fault; any
  other lease may lapse at any time. A heartbeat ages only while no lease is held
  (a lease lasts minutes, `STALE_AFTER` is half an hour).
* That a reaper takes a job from a worker that still works on it is counted as an
  `overlap` fault. Each needs a coincidence (an EXISTS inside the reserve window,
  or after a lapse or another's ack), but nothing in the code bounds how many
  there are: left unbounded, two workers can take a job from each other for ever,
  each time losing an increment of `attempts` because records are written back whole, and
  neither the limit on attempts nor any liveness property holds.
* A Redis error ends the turn: `run_forever` logs it and goes on under the same
  owner id. `renew` also turns a failing GET into a lost lease; that outcome is
  the same as the error, which drops the attempt.

`FaultAt` says where in a worker's turn a fault may strike. `Anywhere` is no
restriction. `BeforeResult` leaves out the moments where a fault truly breaks
`JobLifecycle`: a job whose outcome is already on record (`MCFinishedRerun.cfg`, section 12),
the exception during pruning, and the moment between LREM and LPUSH, when only
the reaper knows the id; an id that is lost there leaves a record that the buyer's
poll fails in the end, which `settles` checks with crashes anywhere.

## 4. Payment

A request of `Payment` is one `POST /builds` on a thread of one API process, from
`verify_payment` to the queued job. `pc[r]` names its next step.

| Code | Actions |
|---|---|
| `_verifier_from_env`: nonce store, facilitator | `deploy` (`Store`, `OnChain`), chosen in `Init` |
| `X402Verifier.settle`: header, `last_*` reset | `TurnAway`, `Arrive` |
| `_verify`: window, amount, signature | `Verify` |
| `facilitator.precheck` | `Precheck` |
| `claim` of the nonce | `ClaimMemory`; `ClaimRedis`, `ClaimFails` |
| `settle` | `Record` (no facilitator); `Settled`, `SettleRefused`, `SettleSilent` |
| `create_build` around them | `AnswerRefusal`, `CreateJob`, `TakeReceipt`, `QueueJob`, `JobFails` |
| the chain, external | `Execute`, and the effect of `Settled` |
| time and failure | `Tick`, `Restart` |

* All the reasons to refuse a header (format, amount, address, `valid_after`,
  signature) are one open choice, "invalid". Expiry is not: `Before`, `Skew` and
  `Grace` are compared as the code does, and the clock moves between the steps.
* `error` and `receipt` are `last_error` and `last_transaction`: one pair per process,
  shared by its requests.
* A facilitator's answer is taken by its meaning. `SettleSilent` is every answer that
  leaves the outcome open (timeout, transport error, 5xx, unreadable body); it is
  retried `Retries` times and the transfer may have been broadcast: `limbo`. The
  chain executes such a transfer whenever it likes, an authorization at most once,
  and does not look at the clock, which allows more than it would.
* What `settle` tells its caller is the answer of its last attempt. An earlier one that
  went unanswered may have executed all the same; the retry then reverts on the spent
  nonce, and `SettleRefused` passes that refusal on as definite, as the code does. The
  model keeps no memory of the earlier attempt beyond the counter of the retry loop.
  `pay_ambiguous` shows the case (section 12). `PaidFor` is the direction that holds: no
  unanswered attempt is taken for a payment.
* A nonce key in Redis lives until the expiry plus `Grace`; the store in memory
  forgets at a restart and evicts at its next claim. `faults` counts restarts and
  failing Redis commands, of which `ClaimFails` may have executed its SET.

## 5. The repair loop

`RepairLoop` has one action per node of the graph, `Route` for the edge out of qa,
`Finish` for the end of `build_work`, `Raise` for an exception in a node, and
`Restart` for a worker that dies and whose job is started again.

Files are paths; what a generator writes (any set of paths, out of its lane too)
and what the checks report (any of `Reports`, an error placed by its path only in a
file that is there) is open. A diagnostic is its path and the class of its code in
`ownership.py`; the lane violations that the agents record are diagnostics of their
own. Since line and message are left out, the set of errors is its own
signature, and `diagnostic_signature` needs no variable. Only fatal diagnostics
matter to the loop, so others are left out. The tests that qa derives from the
sources come and go with them and are not kept apart.

`route_after_agent` never fails: no agent sets the phase to "failed" since lane
violations are reported instead, whatever the comment at the edge
(`builder.py:54`) still says; the model has the plain edge.

`before`, `told` and `steps` are history: what a start found in the directory, which
of the current errors were given to their owner, and how many nodes ran.

## 6. The build directory

`BuildTree` follows one job through its attempts. An attempt is a build thread,
with its own program counter, and the job object that the worker's main loop
publishes. All attempts work in `BUILD_ROOT/<id>`.

| Code | Actions |
|---|---|
| worker: reserve, heartbeat, result | `Start`, `Heartbeat`, `SaveResult`, `GiveUp` |
| lease lost, process dead | `Lose` (the thread runs on: a zombie), `Crash` |
| `build_work` up to packaging | `Mkdir`, `Generate` |
| `run_build`: the gate, then Flutter | `Package` |
| `ensure_android_scaffold` | `Create`, `Copy`, `CopyFile`, `CopyEnd` |
| `unsign_release`, Gradle, `_artifact`, `inspect_signature` | `Unsign`, `Gradle`, `Output`, `Artifact`, `Inspect` |
| outcome onto the job object | `Decide`, and `Outcome` in the failures |
| `keep_only_the_artifact` | `Prune`, `Unlink`, `Move`, `Delete` |
| `sweep_expired` | `Sweep`, `SweepByOther`, `Age` |
| `get_apk`, `build_files` | `GetApk`, `BuildFiles` |

* The directory is what later steps look at: is it there and older than the
  retention, is there source, how much of `android/` and does its Gradle file sign
  with the debug key, and which APK of each mode lies where Gradle leaves it
  (`inner`) and beside the pruned tree (`top`).
* A build mode belongs to an attempt, since a worker may be restarted with another
  one. What Gradle, `flutter create` and `apksigner` do is open: success without an APK,
  a spelling that the unsigning pattern misses, a signature that cannot be told.
* Copying, unlinking, moving and deleting are steps, so that a crash or a zombie
  comes between them. A deletion itself is one step.
* `final` and `swept` are history: whose result was saved under its lease, and whether
  the retention has removed the directory.
* `UnsignedRelease`, `ArtifactKept` and `Leftover` are for attempts that kept their
  leases. With a lost lease they are false; section 12 says why.

## 7. The front door

`FrontDoor` is what happens to a request until its job is in the queue, in any
deployment the environment variables allow.

| Code | Actions |
|---|---|
| `create_app`, `_verifier_from_env`, `_generator_unusable` | `Init`, `Verifier`, `Unusable` |
| routing: a pool thread, or the event loop for an MCP call | `Arrive`, `Dispatch`, `Reply` |
| `RateLimiter.check` | `Check`, with `CheckRedis` and `CheckLocal` |
| `create_build`, `create_preview`, `_start_build_for_agent` | `CheckLimit`, `CheckGlobal`, `Validate`, `Settle`, `Record`, `Push`, `RedisError` |
| a worker anywhere, or inside the process | `Take` |
| time and failure | `Tick`, `Restart` |

* `deploy` is the environment: Redis or not, an embedded and a standalone worker,
  generator and key, x402 token and dev secret. It is chosen in `Init`.
* Redis counts per fixed window, and a window's key goes with its window; the local
  window starts with its first call, and is forgotten at a restart.
* Without Redis queue and store are in memory: a job in them is `lost` with its
  process, and only an embedded worker can reach it. This is how the single-process
  variants (`InMemoryBuildQueue`, `InMemoryJobStore`) are modelled.
* An MCP call holds `loop[p]` from `Dispatch` to `Reply`: nothing else of that process is
  accepted or answered meanwhile. This is how a blocking settlement in an async
  endpoint shows.
* `charged` is how a settlement ended, as `Payment` has it in detail: "yes" with `True`; "no" or
  "unsure" with a 402, the second if a transfer may have executed behind the refusal (an
  unanswered attempt, or the duplicate of one). "unsure" needs a facilitator. `RefusedIsFree` is
  about those who are turned away before settlement; `ChargeAnswered` says what a charge
  of either kind is told. A process that dies during a settlement leaves "no": its
  outcome is unknown to everybody, and the buyer has no answer.
* `PaidStarts` begins with the settled payment, so it goes through recording, pushing and
  the worker, behind whatever holds the loop and the threads.
* `passed` is history: at which time a request passed which limiter.

## 8. Generation

`Generation` runs `RepairLoop`'s nodes with contents in the files. A file is what
the checks look for in it (`File`): the classes it has, in order; what it declares,
provides, mentions and watches; the screens a search finds a way to; form fields;
the braces it has too many; whether it looks like a routes table; and what is wrong
with it on its own.

| Code | Definitions |
|---|---|
| `PRD` and its `_referential_integrity` | `Documents`, `Valid` |
| `snake`, `pascal`, `camel` | `Snake` gives a text its words; texts with the same words have the same class, file and route. `Camel` are the names that `camel` leaves as they are |
| `dart_string`, and a search in what it wrote | `Says`: per text the ways, the braces, the literals found in its quotes, and whether `_DECLARES_ROUTES` matches |
| `build_ui`, `_render_screen`, `wire_logic`, `_render_providers` | `BuildUi`, `RenderScreen`, `RenderApp`, `WireLogic`, `RenderProviders` |
| the words after a dot in the screens' templates, Material and Cupertino | `TemplateMembers` |
| `fault` of the template generator | `Broken` |
| a model (`ports/llm.py`), external | `Answers`: any functions from paths to files |
| the merge of an answer into the state | `Merged` |
| planning's repairs of the manifest | `RepairDescription`, `RepairStrayLine`, `EnsureLint` |
| `check_conformance`, one operator per check | `CheckTheme` to `CheckManifest` |
| `StubAnalyzer`, the qa node's use of it | `Analyze`, `Errors` |

* `Documents` is what the schema admits: its `Literal` sets for themes and kinds, any
  lists of screens, models, fields and actions, with free text for titles, labels,
  collections and the app's name. `Cases` may be any of them that is `Valid`.
  `TextsAssumption` says that a text has words (`snake` never returns nothing) and that
  an identifier in quotes is its own text, and its own slug if it is one word.
  `GenerationAssumption` adds that the template generator plans its own manifest
  (`TemplateManifest`), whose keys it writes literally.
* A model answers each call with a member of `Answers`, whatever it was asked. The
  theorems hold for any set of them: any paths under `lib/`, the frozen manifest too,
  any class names, several screens in one file, an app with `home:` and no routes, files out of a lane, any of
  the faults the checks know. The run gives eight, for one PRD. A file is still a `File`: what the checks do not look for is not in it.
* The checks search text. A search for one name in another is a question about their
  words (`Inside`, `Starts`; `Begins` says which word begins which), so that a
  screen `note` is found in `NoteListScreen`, as it is by the code.
* `Ways` collects what `_check_navigation_reachable` takes for a way to a screen: words
  after a dot in the templates, the field a row shows, and what is in quotes, which is a
  target that is pushed, but also a field, an action or a piece of a title.
* `OwnNames` and `NoAccidents` are the preconditions of `TemplatesDeliver`: every
  declaration has a name and file of its own, no screen's name is part of another's,
  and no target is found as a way in a screen that does not go there (a target called
  `add`, `key` or `length`, or like a field). Section 12 shows what happens without them.
  `Delivered` needs neither; it says of a success only what the checks can know.
* `Buildable` is the class of PRDs that the templates complete, found by checking,
  explained from the code, and proved: every model has a list screen, and its collection
  is found in quotes; every target is one word that another screen pushes, from a file
  that does not look like a routes table; the app's name holds no screen's name, unless
  that screen's file sorts before `app.dart`; and no file has its braces upset by a title, a label, a
  collection or the app's name (in a screen they are summed, as the analyzer counts per file).
  `TemplatesDeliver` says, under its preconditions and the bounds below, that these
  PRDs are completed and no others, and how many repairs a faulty first pass needs (`Needed`).

These operators were also transcribed into Python (a script that is not kept here) and compared with
the repository's own `TemplateGenerator`, `check_conformance` and `StubAnalyzer` on 40,000
random PRDs with titles, labels, collections and names of these kinds: the errors were the
same in each, none in a quarter of them.

What prose is assumed not to do, in the templates' files: no title, label or collection
declares a class, a variable or `main`, imports a package, watches a provider, calls
`setState`, names a root widget, or holds the name of a class or provider of the app; none has a `//` that would cut its
line for the searches that drop comments; no word begins with a digit (`pascal` would join `a1` and `a 1`);
a collection is not empty and is none of the literals that `main.dart` and the provider template have anyway;
and a field's name is found in a title or label only through `Common`, the names that
begin a word of every screen's template (`body` of a `Scaffold`). Each of these would
make a check see more, or less, than the model says; none is refused by the schema.

## 9. Runs

Small sets: one job suffices for races on a job, since jobs share nothing but
the lists; a second job is there where order in the lists matters. Two workers
give two reapers, an old and a new holder, and a late ack. `MaxAttempts` is 2 (a
retry and a give-up), 1 in `settles`. Two requests with one authorization are two rivals,
or a buyer and a replay, at any distance in time; the properties speak of pairs. Two
processes are two memories. `MaxRepairs` is 2:
the first round, one that stalls, and one after the flip to the other agent.
Three attempts at a directory are a zombie, one that dies, and one that succeeds over
what both left. Two requests at a limit of one are the one that passes and the one
that does not; with one thread in the pool the second waits for the first.

| Run | Bounds | Shows |
|---|---|---|
| `queue_races` | 2 workers; crash, race, stale heartbeat, expiry each once, anywhere | `TypeOK`, `QueueOnce`, `PaidBuild`, `HonestOutcome` |
| `lifecycle` | 2 jobs, 1 worker; 2 crashes, error, stall, not near a result | `NeverLost`, `AttemptsBounded`, refinement of `JobLifecycle` |
| `settles` | 2 workers, 1 attempt; crash and race once | `OverlapEnds`; `EventuallySettled` if builds end |
| `payments` | 2 requests, 2 processes, 4 deployments (Redis or memory, facilitator with 2 retries or none); skew 2 over grace 1, clock to 3; 1 fault | `TypeOK`, `SpentOnce`, `PaidFor`, `OneBuild`, `Answered` |
| `repair` | a path per lane, four kinds of error, budget 2, 1 restart | `TypeOK`, `WithinBudget`, `CleanSuccess`, `OwnersHadTurn`, `NoRoundLeaves` |
| `build_tree` | 3 attempts, both modes, paid and preview; 2 crashes, 1 lost lease, 1 retention | `TypeOK`, `PreviewFree`, `UnsignedRelease`, `OwnMode`, `ArtifactKept`, `Leftover` |
| `front_door` | 2 requests of 6 kinds, 2 processes with 1 thread, 5 deployments, 2 windows; 1 restart, 1 Redis error | `TypeOK`, `LimitHeld`, `AdmittedRightly`, `RefusedIsFree`, `ChargeAnswered`, `EveryoneAnswered`, `PaidStarts` |
| `generation` | the templates on PRDs of 2 screens and up to 2 models over 4 pairs of names, with faults and themes, and on one PRD with every mixture of prose; a model with 8 answers on that PRD, with all manifests | `TypeOK`, `TemplatesDeliver`, `Delivered`, `Placed` |

The runs that expect a violation are those of section 12. `AttemptsBounded` is
checked with one worker because it holds only there: with two, a reaper's write
of a record it read earlier can undo the count. Requests and builds end: the runs of
`Payment`, `RepairLoop`, `BuildTree`, `FrontDoor` and `Generation` do not check deadlock;
those of `DurableQueue`, whose workers poll for ever, do. `build_tree` is the largest
run (7 million states).

## 10. Fairness

`Fairness` of `DurableQueue` assumes what the code's loops give. `run_forever` never
stops taking turns and swallows every exception, so a worker's next command is taken
(weak fairness of `TurnStep`). The scan is due every `recover_every` seconds by a clock,
however busy the queue, so it cannot be passed over for ever although a turn may
skip it (strong fairness of `StartScan`). A buyer keeps polling. Unattended leases
run out, and the heartbeat of an orphaned record ages, because time passes; no
fault is ever fair. `BuildsEnd` says a build thread ends: its model calls, Gradle
and analyzer runs all carry timeouts. `EventuallySettled` assumes it, `OverlapEnds`
does not.

`Payment` assumes that a handler takes its next step: it runs on a thread of its
own, and every call it makes has a timeout. Nothing is assumed of the facilitator
or the chain, so `Answered` has to survive a facilitator that stays silent for ever.

`FrontDoor` assumes the same of a request (weak fairness of `Handle`): the event loop
serves what is in its socket as long as nothing holds the loop, and a settlement ends
by answer or timeout, as `Answered` shows. Workers poll, hence `Take`; restarts and
errors are never fair. `RepairLoop`, `BuildTree` and `Generation` need no fairness.

## 11. Proofs

`DurableQueueProofs` proves, for any sets of jobs and
workers, any attempt limit, any number of faults of each kind and any places
where they may strike (only `ConstantsAssumption` is assumed):

* `TypeCorrect`: `Spec => []TypeOK`. `TypeOK` alone is not inductive: a save writes
  at `cur[w]`, which may be `NoJob`. `Busy` adds that a worker at a command that
  needs a job has one.
* `NoDuplicateIds`: `Spec => []QueueOnce`. It needs, beyond `QueueOnce` itself,
  `Known`: an id is anywhere in the queue or in a worker's hands only after it was
  pushed, so that the one `Push` of an id finds it nowhere. The argument follows an
  id's places: LMOVE moves the one pending entry, LREM's reply is what entitles a
  reaper to its LPUSH, and an ack can only remove.
* `OnlyPaidBuilds`: `Spec => []PaidBuild`, by `PaidInv`: from `Push` on the record is
  paid or absent, and so is every copy any process may still write back.
* `OutcomesAreHonest`: `Spec => []HonestOutcome`, by `HonestInv`: not only the record
  but every copy in a worker's memory and every read of a poll carries only
  outcomes with a reason, so that a write of any age is harmless in this respect.

`DurableQueueAlone` proves about a deployment with one worker (`Alone`; the compose file
starts one container with the worker in it), for any number of jobs and attempts:

* `OwedNeverLost`: `Spec => []NeverLost`, for any number of faults of every kind and at
  every point but between LREM and LPUSH of a requeue. `OwedInv` places an owed id: in
  one of the lists, or with the reaper about to push it (`Kept`). `TurnInv` says that the
  entry is still there all the while a job is worked on and that what was requeued
  stays pending while the scan lasts; `EndInv` that the worker acks only what has an
  outcome.
* `AttemptsAreBounded`: `Spec => []AttemptsBounded`, for any number of crashes, errors,
  lapses and expired records, at any point, as long as no build waits longer than
  `STALE_AFTER`. `CountInv` says that the record, every poll and every copy count at
  least the builds that were started; a copy that could be written late is of a job
  that is orphaned, and `OrphanStays` proves that nobody returns to such a job.
* `LifecycleImplemented`: `Spec => ImplementsLifecycle`, the refinement, in calm (`Calm`:
  the `BeforeResult` of the runs, no long wait and no expiry), for any number of
  crashes, errors and stalls. `LifeInv` adds that an outcome on record belongs to the
  job the worker is finishing, whose lease is its own, or to one whose entry is gone
  (`StandsInv`), and that what a worker is about to write is one attempt, or one
  outcome, away from what is on record (`CopyInv`). Then a save is a `Start`, `Requeue`,
  `Conclude`, `GiveUp` or a stutter, and every other step but `Push` is a stutter.

All three properties are false with two workers: a reaper may write its copy of a
record after the job it requeued was built and acked.

`PaymentProofs` proves, for any requests, authorizations, processes, clocks,
retries and faults (only `PaymentAssumption` is assumed):

* `TypeCorrect`, with the addition that a request past the header check has an
  authorization.
* `NonceSpentOnce`: `Spec => []SpentOnce`, which speaks of nonces in Redis. `SpentInv` adds
  that a spent nonce was claimed: SET NX then answers no for as long as the key is
  there, and when it is gone, `Grace` after the expiry, the claim itself refuses the
  authorization as expired.
* `GrantedIsPaidFor`: `Spec => []PaidFor`. A build is granted by a definite success only
  (`Moves`: no other step but the record of a verification-only service leads there), and
  what the chain has executed stays executed.
* `OneBuildEach`: `Spec => []OneBuild`, by cases. With a facilitator two grants are two
  executions of one transfer; without one, but with Redis, two spenders of one nonce
  (`SpenderInv`). Of the remaining deployment, memory and no facilitator, `OneBuild` says
  nothing: its claims do not outlive a restart, and nothing else refuses a replay.

`RepairLoopProofs` proves, for any files, diagnostics, budget and number of starts
(only `RepairAssumption` is assumed):

* `TypeCorrect`, which holds the lanes: no path of one agent in the other's files.
* `BudgetKept`: at most `3 * MaxRepairs + 5` nodes per start. `BudgetInv` counts the nodes
  from the repairs at each node. (LangGraph gives up after 25 by default: the
  default budget of 3 needs 14, a budget of 6 the last one that must fit.)
* `SuccessIsClean`: `CleanInv` follows the violations the agents recorded into the
  diagnostics, and these to the two places where the result is read.
* `OwnersFirst`: `TurnInv` holds in front of qa: every error of the round before was
  given to its owner. A mixed batch goes to GenUI first, then Logic; a flipped
  round changes nothing, since the errors were told already.
* `RoundsCleanUp`: `DiskInv` says that the directory is what was found in it and what
  the list of the last round names.

`BuildTreeProofs` and `BuildTreeArtifact` prove all six invariants of `BuildTree`, for
any number of attempts, crashes, lost leases and retentions (only
`BoundsAssumption` is assumed):

* `TypeCorrect`, which is inductive.
* `Previews`: `Spec => []PreviewFree`. `PreviewInv` adds that the threads of a preview
  stay at the steps before the gate or after packaging (`Ungated`).
* `OwnApk`: `Spec => []OwnMode`, zombies included. `ModeInv` says of every attempt
  (`Turn`) that a path its job object inherited from an earlier one stays only with a
  failure, and of the saved result (`Saved`) that it is the last word: no lease, no
  retry and no main loop changes it.
* `NeverDebugSigned`, `ArtifactIsKept`, `OnlyTheDeliverable`: `UnsignedRelease`,
  `ArtifactKept` and `Leftover`, from one `ArtifactInv`. `Lone` says that with every
  lease kept only the holder's thread lives; `Good` follows the APK from its inspection
  through unlink, move and delete; `Tree` says that a directory that is not there is
  empty. A sweep may come between any two steps, hence `swept` in them.

`FrontDoorProofs` proves, for any requests, callers, processes, deployments, limits,
windows, pools and faults (only `FrontAssumption` is assumed), all five invariants of
`FrontDoor`:

* `TypeCorrect`, `Admission` (`AdmittedRightly`), `Refusal` (`RefusedIsFree`) and `Charge`
  (`ChargeAnswered`), from one invariant (`StoryCorrect`): `Story(r)` tells what a request at
  each point of its way has passed, whether it is charged, not charged or unsure, and what it
  has been told, and `Asked` that it asked for something a request can ask for. A request that
  is unsure is at its 402 or past it; one that is charged has a job, or an error or a
  death to show for it.
* `LimitsHold` (`LimitHeld`). Who has passed a limiter is a set of requests that grows with
  time, and the code keeps one counter, of the current window only. `LimitInv` ties
  the two together. In Redis (`SharedHeld`) those who passed in the window of now are
  at most the counter and the failures so far. In a process, whose window begins
  with a call and not on a grid, `OpenHeld` bounds those who passed since any moment by
  the windows that can have been full since then and what the counter holds;
  `ClosedHeld` bounds the spans that are over, which no later call changes. A call that passes
  adds one request to the sets (`CheckPassed`); a tick closes a span, a restart
  gives up a counter and pays for it with a crash.

`GenerationProofs` proves, for any PRDs that the schema admits, any texts, any order of the
files, any answers of a model, any cases and any repair budget (`TextsAssumption`,
`FilesAssumption`, `GenerationAssumption`), all the properties of the run:

* `LoopImplemented`: `Spec => Loop!Spec`. Every step of a build is a step of `RepairLoop`,
  in which generators and checks are open. What has to be shown is that the files are
  paths of the loop, each in its lane (`Lanes`), and that what the checks report is
  what the loop allows them to report (`ErrorsFound`). Over the files of a PRD TLC cannot
  check this: a step of the open loop chooses among all subsets of the paths.
  `Placed`, the part of it that the checks could break, is a property of the run, and
  the theorem `ErrorsArePlaced`.
* `BuildsTerminateClean`: with the refinement, the theorems of `RepairLoopProofs` hold of a
  build. `LoopAssumption` proves what they assume of the constants: lanes that do not
  overlap, and codes that somebody or nobody owns.
* `TypeCorrect`.
* `SuccessIsDelivered` (`Delivered`), for any set of answers, from `BuildInv`: from qa to the end
  the diagnostics hold what the checks say of the files as they are, and a success has
  none. So no check found anything (`NoErrors`), and the rest is what each check's silence
  means: `ScreenFound` for a search that may meet another file, or another class of the same
  file, first (`FirstFound`); `ModelStored` for names and collections; `WayFound` for one
  that takes any word after a dot. It needs no assumption about names.
* `TemplatesComplete` (`TemplatesDeliver`). Two lemmas about the generator and the checks carry
  it: if the checks are silent over what the templates write, the PRD is `Buildable`
  (`CleanIsBuildable`), and over a `Buildable` PRD they report the error of the
  fault and no other (`TemplateErrors`). Under them there is a lemma for each check, most
  of them equivalences: `ScreenChecked`, `ModelChecked`, `WaysPass` and `WaysNeeded`,
  `BracesChecked`, `AnalyzerSays`. `TemplateInv` says which files are written in each round, and
  `RoundInv` counts rounds: the fault is in the files until GenUI is given its error, in
  the first repair (`setState`) or in the second, stalled one (a provider nobody
  declares, which the router sends to Logic first). TLC found both invariants to
  hold of the run's PRDs, for budgets of 0 to 2, before they were proved.

`RepairLoopProofs!TypeInit` and its other lemmas are cited through `Thms`, an instance with the
same substitution as `Loop`; `SameInit`, `SameNext` and `SameType` say that the two are one.

Only model-checked: the liveness properties (`EventuallySettled`, `OverlapEnds`, `Answered`,
`EveryoneAnswered`, `PaidStarts`), which are out of the prover's reach. Every invariant and
every other action property of the passing runs has a theorem.

## 12. Where code and docs disagree

Four runs expect TLC to violate one property that a comment or docstring
states; `PROJECT.json` quotes the lines.

1. `one_builder`: a reaper inside the reserve window makes two healthy workers
   build one job, with no partition and no crash.
2. `pay_ambiguous`: an attempt to settle executes and goes unanswered, its retry is refused as
   a duplicate, and `settle` returns that refusal as definite (`facilitator.py:221-224`). The
   buyer has been charged and gets a 402 that says "payment was not settled"
   (`x402.py:188`), where `facilitator.py:21-23` promises to tell unknown from refused.
3. `pay_receipt`: the receipt is read from the verifier after another request's
   settlement has replaced it, so a buyer's job shows another buyer's transaction.
   The reason in a 402 is read from `last_error` in the same way.
4. `zombie_prune`: the comment at `service/app.py:1249-1251` says that pruning happens
   "while the worker still holds the lease". A thread whose worker lost it prunes as
   well, and takes the new holder's APK, published or about to be.

These configurations are kept for running by hand
(`tlc -config MCLongWait.cfg MCDurableQueue`); each shows a violation.

| Configuration | Module, property | What the code does |
|---|---|---|
| `MCFinishedRerun` | `MCDurableQueue`, `TerminalStands` | after a crash between the result's save and the ack, recovery sets a finished build back to queued and it is built again |
| `MCLongWait` | `MCDurableQueue`, `WaitingNotReaped` | a build in the queue for half an hour before its first attempt is failed by its buyer's poll, since only a requeue sets the heartbeat |
| `MCLeftovers` | `MCRepairLoop`, `AppOnly` | a restarted job analyses and packages files of its dead attempt |
| `MCModelError` | `MCRepairLoop`, `GivesUpOnFrozen` | an error in `lib/models/`, which Logic owns by its lane, is fatal by its owner: no repair |
| `MCSweepRetry` | `BuildTree`, `RetryMeasured` | a directory's age is its mtime, which a retry does not touch at once: a sweep takes the tree of a running retry (`artifacts.py:107-113` says it is "measured from the retry") |
| `MCAvailable` | `BuildTree`, `AvailableServes` | a heartbeat publishes the path before pruning moves the APK: `apk_available` is true, `GET .../apk` is 404 |
| `MCPreviewsOff` | `MCFrontDoor`, `PreviewsOff` | `PREVIEW_DAILY_LIMIT=0` disables the budget, where `app.py:366` promises to switch previews off |
| `MCLostScreen` | `MCGeneration`, `EveryScreen` | two screens that are spelled `noteList` and `noteLIST` have one class and one file: one of them is lost, not missed, and the build succeeds |
| `MCNamedAdd` | `MCGeneration`, `EveryTarget` | a target called `add` counts as reached because the list has an `Icons.add`, so a build in which nothing goes there succeeds (`conformance.py:105`, "must actually be able to go somewhere") |

Smaller observations, not stated as properties:

* An invalid PRD, or a global budget that is spent, uses up the caller's own daily
  preview: the limits come first, and are not given back.
* `/healthz` says payments are checked on-chain whenever `X402_FACILITATOR_URL` is set,
  with or without a token.
* Which valid PRDs the templates cannot build (the complement of `Buildable`): a model that no
  list screen shows, even if a form does; a navigation target in camelCase, whose route is its
  snake case; an app whose name contains a screen's; a brace in a title, a label, a
  collection or the app's name, which upsets the stub analyzer's count; an apostrophe, `$` or
  backslash in a collection, which is escaped and then not found; `routes:` in the title of
  the only screen that goes somewhere. The build is paid for and fails.
* `usage` of a build are recorded only if the graph returned: a generator that raises,
  and the attempts before the last, are not in them, whatever the comment at
  `app.py:1229` says of failed builds.

## 13. Not modelled

* Model calls (`ports/llm.py`, `usage.py`): a model is any set of answers here. The
  renegotiation of optional request features and the sums of model usage are sequential and
  touch no other state.
* The actor (`actor/main.py`): one sequential run per container, with Apify's charge
  before the build and its storages after it; what happens to the charge of a run that is
  restarted is the platform's matter. It reads the graph's result as `build_work`
  does. The command line (`supervisor.py`) is the same without a charge.
* The test builders (`smoke`, `roundtrip`, `navigation`, `pubspec`), the test runner
  (`runtime`) and the SDK's analyzer: what they report is open in `RepairLoop` and
  absent from `Generation`, which is the service as it runs without Flutter.
* Of the checks: where exactly a pattern matches in Dart that neither the templates nor the
  sample answers hold (comments, unusual spacing). A file has a fault of its own
  (`bad`: an entrypoint elsewhere, a wrong `ConsumerState` signature, a misplaced import) or
  has it not.
* Of payment: the dev verifier (a static secret), decoding, and the text of the 402
  challenge. Of the limiter: the eviction of old local windows, which frees memory.
* A batch of JSON-RPC calls (`mcp.py:110-118`): its calls run one after the other on the event
  loop, so what `FrontDoor` shows of one call lasts for several. `EveryoneAnswered` does not
  depend on how long a call takes, only on its end.
* In-memory queue and store hand out live job objects; `FrontDoor` models where a job
  can be found and when it is lost, not the sharing of the object.
* Toolchain discovery, scripts, evaluations and deployment files around the service.
