-------------------------- MODULE FrontDoorProofs --------------------------
(***************************************************************************)
(* Theorems about FrontDoor, for any number of requests, processes and     *)
(* callers, any environments, limits and windows, and any faults.          *)
(***************************************************************************)
EXTENDS FrontDoor, FiniteSetTheorems, TLAPS

-----------------------------------------------------------------------------
(* Types.                                                                  *)

LEMMA TypeInit == Init => TypeOK
<1> SUFFICES ASSUME Init PROVE TypeOK
  OBVIOUS
<1>1. /\ local \in [Processes -> [Limiters -> [Keys -> [count : Nat, resets : Nat]]]]
      /\ shared \in [Limiters -> [Keys -> Nat]]
  BY DEF Init, Fresh
<1>2. passed \in [Requests -> [Limiters -> 0 .. Never]]
  BY FrontAssumption DEF Init, Never
<1>3. /\ deploy \in Deployments /\ now \in 0 .. Horizon
      /\ loop \in [Processes -> Requests \cup {NoOne}]
      /\ pc \in [Requests -> PCs]
      /\ answer \in [Requests -> {0, 200, 202, 402, 422, 429, 500, 503}]
      /\ charged \in [Requests -> Charges]
      /\ left \in [crash : 0 .. Crashes, error : 0 .. Errors]
  BY FrontAssumption DEF Init, PCs, Charges
<1>4. ask \in [Requests -> Asks \cup {NoAsk}] /\ job \in [Requests -> Job]
  BY DEF Init, Job, NoJob
<1> QED
  BY <1>1, <1>2, <1>3, <1>4 DEF TypeOK

\* A fault is used up, a job's record changes its state.
LEMMA FaultTyped ==
  ASSUME TypeOK, left.error > 0, left' = [left EXCEPT !.error = @ - 1]
  PROVE  left' \in [crash : 0 .. Crashes, error : 0 .. Errors]
<1>1. left \in [crash : 0 .. Crashes, error : 0 .. Errors]
  BY DEF TypeOK
<1>2. left.error \in 0 .. Errors /\ left.error - 1 \in 0 .. Errors
  BY <1>1, FrontAssumption
<1> QED
  BY <1>1, <1>2

LEMMA JobTyped ==
  ASSUME TypeOK, NEW r \in Requests, NEW st \in {"saved", "queued", "taken", "lost"},
         job' = [job EXCEPT ![r].state = st]
  PROVE  job' \in [Requests -> Job]
<1>1. job \in [Requests -> Job]
  BY DEF TypeOK
<1>2. [job[r] EXCEPT !.state = st] \in Job
  BY <1>1 DEF Job
<1>3. job' = [job EXCEPT ![r] = [job[r] EXCEPT !.state = st]]
  BY <1>1
<1> QED
  BY <1>1, <1>2, <1>3

LEMMA CountTyped ==
  ASSUME NEW w \in [count : Nat, resets : Nat]
  PROVE  [w EXCEPT !.count = @ + 1] \in [count : Nat, resets : Nat]
<1>1. w = [count |-> w.count, resets |-> w.resets] /\ w.count \in Nat /\ w.resets \in Nat
  OBVIOUS
<1>2. [w EXCEPT !.count = @ + 1] = [count |-> w.count + 1, resets |-> w.resets]
  BY <1>1
<1> QED
  BY <1>1, <1>2

\* A limiter leaves its counts, the history and the faults left well typed, and
\* notes only that r passed it.
LEMMA CheckTyped ==
  ASSUME TypeOK, NEW r \in Requests, NEW lim \in Limiters, NEW ok \in BOOLEAN,
         Check(r, lim, ok), ask[r] \in Asks
  PROVE  /\ shared' \in [Limiters -> [Keys -> Nat]]
         /\ local' \in [Processes -> [Limiters -> [Keys -> [count : Nat, resets : Nat]]]]
         /\ left' \in [crash : 0 .. Crashes, error : 0 .. Errors]
         /\ passed' \in [Requests -> [Limiters -> 0 .. Never]]
<1> USE DEF TypeOK
<1>1. Key(r, lim) \in Keys /\ ask[r].at \in Processes
  BY DEF Key, Keys, Asks
<1>2. now \in Nat /\ now \in 0 .. Never
  BY FrontAssumption DEF Never
<1>3. passed' \in [Requests -> [Limiters -> 0 .. Never]]
  <2>1. passed' = IF ok THEN [passed EXCEPT ![r][lim] = now] ELSE passed
    BY DEF Check
  <2> QED
    BY <2>1, <1>2
<1>4. CASE Limit[lim] = 0 /\ ok /\ UNCHANGED <<shared, local, left>>
  BY <1>4, <1>3
<1>5. CASE CheckRedis(r, lim, ok) /\ UNCHANGED left
  <2>1. shared[lim][Key(r, lim)] + 1 \in Nat
    BY <1>1
  <2>2. shared' = [shared EXCEPT ![lim][Key(r, lim)] = shared[lim][Key(r, lim)] + 1]
        /\ local' = local /\ left' = left
    BY <1>5 DEF CheckRedis
  <2> QED
    BY <2>1, <2>2, <1>1, <1>3
<1>6. CASE CheckLocal(r, lim, ok) /\ (deploy.redis => left.error > 0)
           /\ left' = IF deploy.redis THEN [left EXCEPT !.error = @ - 1] ELSE left
  <2> DEFINE w == local[ask[r].at][lim][Key(r, lim)]
             v == IF now >= w.resets THEN [count |-> 1, resets |-> now + Window[lim]]
                  ELSE [w EXCEPT !.count = @ + 1]
  <2>1. w \in [count : Nat, resets : Nat]
    BY <1>1
  <2>2. v \in [count : Nat, resets : Nat]
    <3>1. Window[lim] \in Nat /\ now + Window[lim] \in Nat
      BY <1>2, FrontAssumption
    <3>2. [w EXCEPT !.count = @ + 1] \in [count : Nat, resets : Nat]
      BY <2>1, CountTyped
    <3> QED
      BY <3>1, <3>2
  <2>3. local' = [local EXCEPT ![ask[r].at][lim][Key(r, lim)] = v] /\ shared' = shared
    BY <1>6, Zenon DEF CheckLocal
  <2>4. local' \in [Processes -> [Limiters -> [Keys -> [count : Nat, resets : Nat]]]]
    <3> HIDE DEF v
    <3> QED
      BY <2>2, <2>3, <1>1
  <2>5. left' \in [crash : 0 .. Crashes, error : 0 .. Errors]
    <3>1. CASE deploy.redis
      BY <3>1, <1>6, FaultTyped
    <3>2. CASE ~deploy.redis
      BY <3>2, <1>6
    <3> QED
      BY <3>1, <3>2
  <2> QED
    BY <2>3, <2>4, <2>5, <1>3
<1> QED
  BY <1>4, <1>5, <1>6, Zenon DEF Check

\* Whoever has sent something has asked for something.
Asked == \A r \in Requests : pc[r] # "new" => ask[r] \in Asks

LEMMA Moved ==
  ASSUME TypeOK, Asked, NEW r \in Requests, pc[r] # "new", NEW p \in PCs,
         pc' = [pc EXCEPT ![r] = p], ask' = ask
  PROVE  pc' \in [Requests -> PCs] /\ Asked'
<1>1. pc \in [Requests -> PCs]
  BY DEF TypeOK
<1>2. \A q \in Requests : pc'[q] # "new" => pc[q] # "new"
  BY <1>1
<1> QED
  BY <1>1, <1>2 DEF Asked

\* A settlement sets whether the request is charged and what it is told.
LEMMA SettleTyped ==
  ASSUME NEW r \in Requests, Settle(r), charged \in [Requests -> Charges],
         answer \in [Requests -> {0, 200, 202, 402, 422, 429, 500, 503}],
         pc \in [Requests -> PCs]
  PROVE  /\ charged' \in [Requests -> Charges]
         /\ answer' \in [Requests -> {0, 200, 202, 402, 422, 429, 500, 503}]
         /\ pc' \in [Requests -> PCs]
         /\ \A q \in Requests : pc'[q] # "new" => pc[q] # "new"
         /\ UNCHANGED <<deploy, now, loop, ask, job, limits, left>>
<1>1. /\ pc[r] = "settle"
      /\ UNCHANGED <<deploy, now, loop, ask, job, limits, left>>
  BY DEF Settle, Still
<1>2. CASE SettleAs(r, "yes") /\ Granted(r)
  <2>1. /\ charged' = [charged EXCEPT ![r] = "yes"] /\ answer' = answer
        /\ pc' = [pc EXCEPT ![r] = "record"]
    BY <1>2 DEF SettleAs, Granted, To
  <2> QED
    BY <1>1, <2>1 DEF PCs, Charges
<1>3. ASSUME NEW how \in {"no", "unsure"}, SettleAs(r, how), Say(r, 402)
      PROVE  /\ charged' \in [Requests -> Charges]
             /\ answer' \in [Requests -> {0, 200, 202, 402, 422, 429, 500, 503}]
             /\ pc' \in [Requests -> PCs]
             /\ \A q \in Requests : pc'[q] # "new" => pc[q] # "new"
  <2>1. /\ charged' = [charged EXCEPT ![r] = how]
        /\ answer' = [answer EXCEPT ![r] = 402]
        /\ pc' = [pc EXCEPT ![r] = "reply"]
    BY <1>3 DEF SettleAs, Say, To
  <2> QED
    BY <1>1, <2>1 DEF PCs, Charges
<1> QED
  BY <1>1, <1>2, <1>3 DEF Settle

\* A restart leaves a request where it is, or dead.
LEMMA RestartMoves ==
  ASSUME NEW p \in Processes, Restart(p), pc \in [Requests -> PCs]
  PROVE  /\ pc' \in [Requests -> PCs]
         /\ \A r \in Requests : pc'[r] # "new" => pc[r] # "new"
<1>1. pc' = [r \in Requests |-> IF Here(r, p) THEN "dead" ELSE pc[r]]
  BY DEF Restart
<1>2. \A r \in Requests : Here(r, p) => pc[r] # "new"
  BY DEF Here, Running
<1> QED
  BY <1>1, <1>2 DEF PCs

LEMMA TypeStep == TypeOK /\ Asked /\ [Next]_vars => TypeOK' /\ Asked'
<1> SUFFICES ASSUME TypeOK, Asked, [Next]_vars PROVE TypeOK' /\ Asked'
  OBVIOUS
<1> USE DEF TypeOK, Asked, PCs, limits, To, Say, Still
<1>1. ASSUME NEW r \in Requests, Arrive(r) PROVE TypeOK' /\ Asked'
  BY <1>1, FrontAssumption DEF Arrive
<1>2. ASSUME NEW r \in Requests, Dispatch(r) PROVE TypeOK' /\ Asked'
  <2>1. Entry(r) \in PCs /\ pc' = [pc EXCEPT ![r] = Entry(r)] /\ pc[r] # "new"
    BY <1>2 DEF Dispatch, Entry
  <2>2. loop' \in [Processes -> Requests \cup {NoOne}]
    BY <1>2 DEF Dispatch
  <2>3. answer' \in [Requests -> {0, 200, 202, 402, 422, 429, 500, 503}]
    BY <1>2 DEF Dispatch
  <2>4. UNCHANGED <<deploy, now, ask, charged, job, limits, left>>
    BY <1>2 DEF Dispatch
  <2>5. pc' \in [Requests -> PCs] /\ Asked'
    <3>1. ask' = ask
      BY <2>4
    <3> HIDE DEF TypeOK, Asked, PCs
    <3> QED
      BY <2>1, <3>1, Moved, Zenon
  <2> QED
    BY <2>2, <2>3, <2>4, <2>5
<1>3. ASSUME NEW r \in Requests, NEW lim \in Limiters,
             NEW next \in {"global", "check"}, Limited(r, lim, next), pc[r] # "new"
      PROVE  TypeOK' /\ Asked'
  <2>1. PICK ok \in BOOLEAN : Check(r, lim, ok)
          /\ IF ok THEN To(r, next) /\ UNCHANGED answer ELSE Say(r, 429)
    BY <1>3 DEF Limited
  <2>2. ask[r] \in Asks
    BY <1>3
  <2>3. /\ shared' \in [Limiters -> [Keys -> Nat]]
        /\ local' \in [Processes -> [Limiters -> [Keys -> [count : Nat, resets : Nat]]]]
        /\ left' \in [crash : 0 .. Crashes, error : 0 .. Errors]
        /\ passed' \in [Requests -> [Limiters -> 0 .. Never]]
    BY <2>1, <2>2, CheckTyped
  <2>4. UNCHANGED <<deploy, now, loop, ask, charged, job>>
    BY <1>3 DEF Limited
  <2>5. /\ answer' \in [Requests -> {0, 200, 202, 402, 422, 429, 500, 503}]
        /\ pc' \in [Requests -> PCs] /\ Asked'
    <3>1. CASE ok
      <4>1. pc' = [pc EXCEPT ![r] = next] /\ answer' = answer
        BY <3>1, <2>1
      <4> QED
        BY <4>1, <2>4, <1>3, Moved
    <3>2. CASE ~ok
      <4>1. pc' = [pc EXCEPT ![r] = "reply"] /\ answer' = [answer EXCEPT ![r] = 429]
        BY <3>2, <2>1
      <4> QED
        BY <4>1, <2>4, <1>3, Moved
    <3> QED
      BY <3>1, <3>2
  <2> QED
    BY <2>3, <2>4, <2>5
<1>4. ASSUME NEW r \in Requests, CheckLimit(r) PROVE TypeOK' /\ Asked'
  BY <1>4, <1>3 DEF CheckLimit, Limiters
<1>5. ASSUME NEW r \in Requests, CheckGlobal(r) PROVE TypeOK' /\ Asked'
  BY <1>5, <1>3 DEF CheckGlobal, Limiters
<1>6. ASSUME NEW r \in Requests, Validate(r) PROVE TypeOK' /\ Asked'
  <2>1. /\ \E p \in {"reply", "settle", "record"} : pc' = [pc EXCEPT ![r] = p]
        /\ \E code \in {503, 422} : answer' \in {answer, [answer EXCEPT ![r] = code]}
        /\ pc[r] # "new"
    BY <1>6 DEF Validate, AfterCheck
  <2>2. UNCHANGED <<deploy, now, loop, ask, charged, job, limits, left>>
    BY <1>6 DEF Validate
  <2>3. pc' \in [Requests -> PCs] /\ Asked'
    BY <2>1, <2>2, Moved
  <2>4. answer' \in [Requests -> {0, 200, 202, 402, 422, 429, 500, 503}]
    <3>1. answer \in [Requests -> {0, 200, 202, 402, 422, 429, 500, 503}]
      OBVIOUS
    <3>2. PICK code \in {503, 422} : answer' \in {answer, [answer EXCEPT ![r] = code]}
      BY <2>1
    <3> HIDE DEF TypeOK, Asked, PCs
    <3> QED
      BY <3>1, <3>2
  <2> QED
    BY <2>2, <2>3, <2>4
<1>7. ASSUME NEW r \in Requests, Settle(r) PROVE TypeOK' /\ Asked'
  <2>0. /\ charged \in [Requests -> Charges]
        /\ answer \in [Requests -> {0, 200, 202, 402, 422, 429, 500, 503}]
        /\ pc \in [Requests -> PCs]
    OBVIOUS
  <2> HIDE DEF TypeOK, Asked, PCs, limits, To, Say, Still
  <2>1. /\ charged' \in [Requests -> Charges]
        /\ answer' \in [Requests -> {0, 200, 202, 402, 422, 429, 500, 503}]
        /\ pc' \in [Requests -> PCs]
    BY <1>7, <2>0, SettleTyped
  <2>2. /\ UNCHANGED <<deploy, now, loop, ask, job, limits, left>>
        /\ \A q \in Requests : pc'[q] # "new" => pc[q] # "new"
    BY <1>7, <2>0, SettleTyped
  <2> USE DEF TypeOK, Asked, limits
  <2> QED
    BY <2>1, <2>2
<1>8. ASSUME NEW r \in Requests, Record(r) PROVE TypeOK' /\ Asked'
  BY <1>8 DEF Record, JobFor, Job
<1>9. ASSUME NEW r \in Requests, Push(r) PROVE TypeOK' /\ Asked'
  <2>1. job' \in [Requests -> Job]
    BY <1>9, JobTyped DEF Push
  <2> QED
    BY <1>9, <2>1 DEF Push
<1>10. ASSUME NEW r \in Requests, Reply(r) PROVE TypeOK' /\ Asked'
  BY <1>10 DEF Reply, Asks
<1>11. ASSUME NEW r \in Requests, RedisError(r) PROVE TypeOK' /\ Asked'
  <2>1. left' \in [crash : 0 .. Crashes, error : 0 .. Errors]
    BY <1>11, FaultTyped DEF RedisError
  <2> QED
    BY <1>11, <2>1 DEF RedisError
<1>12. ASSUME NEW r \in Requests, Take(r) PROVE TypeOK' /\ Asked'
  <2>1. job' \in [Requests -> Job]
    BY <1>12, JobTyped DEF Take
  <2> QED
    BY <1>12, <2>1 DEF Take
<1>13. ASSUME NEW p \in Processes, Restart(p) PROVE TypeOK' /\ Asked'
  <2>1. left' \in [crash : 0 .. Crashes, error : 0 .. Errors]
    <3>1. left.crash \in 0 .. Crashes /\ left.crash - 1 \in 0 .. Crashes
      BY <1>13, FrontAssumption DEF Restart
    <3> QED
      BY <1>13, <3>1 DEF Restart
  <2>2. job' \in [Requests -> Job]
    <3>1. ASSUME NEW j \in Job PROVE [j EXCEPT !.state = "lost"] \in Job
      BY DEF Job
    <3> QED
      BY <1>13, <3>1 DEF Restart
  <2>3. local' \in [Processes -> [Limiters -> [Keys -> [count : Nat, resets : Nat]]]]
    BY <1>13 DEF Restart, Fresh
  <2>4. pc' \in [Requests -> PCs] /\ \A r \in Requests : pc'[r] # "new" => pc[r] # "new"
    BY <1>13, RestartMoves
  <2>5. loop' \in [Processes -> Requests \cup {NoOne}]
    BY <1>13 DEF Restart
  <2>6. UNCHANGED <<deploy, now, ask, answer, charged, shared, passed>>
    BY <1>13 DEF Restart
  <2> QED
    BY <2>1, <2>2, <2>3, <2>4, <2>5, <2>6
<1>14. CASE Tick
  BY <1>14, FrontAssumption DEF Tick
<1>15. CASE UNCHANGED vars
  BY <1>15 DEF vars
<1> QED
  BY <1>1, <1>2, <1>4, <1>5, <1>6, <1>7, <1>8, <1>9, <1>10, <1>11, <1>12, <1>13,
     <1>14, <1>15 DEF Next, Handle

LEMMA AskedInit == Init => Asked
  BY DEF Init, Asked

\* Types, whatever fails: the counts of the limiters stay counts, and nobody
\* gets an answer that the routes do not give.
THEOREM TypeCorrect == Spec => []TypeOK
<1>1. Init => TypeOK /\ Asked
  BY TypeInit, AskedInit
<1>2. (TypeOK /\ Asked) /\ [Next]_vars => (TypeOK /\ Asked)'
  BY TypeStep
<1> QED
  BY <1>1, <1>2, PTL DEF Spec

-----------------------------------------------------------------------------
(* What a request has been through, by how far it is.                      *)

InLimits(r) == passed[r]["ip"] <= now /\ passed[r]["all"] <= now

\* A job of r is of r's route, for a document and a deployment that allow it.
Rightful(r) ==
  /\ ask[r].valid /\ ~Unusable
  /\ job[r].paid => charged[r] = "yes"
  /\ job[r].preview => charged[r] = "no" /\ InLimits(r)
  /\ job[r].paid # job[r].preview

Early(r) ==
  pc[r] \in {"new", "socket", "limit", "global", "check", "settle"} =>
    job[r].state = "none" /\ charged[r] = "no" /\ answer[r] = 0

Middle(r) ==
  /\ pc[r] \in {"limit", "global", "check"} => ask[r].route \in {"build", "preview"}
  /\ pc[r] = "global" => ask[r].route = "preview" /\ passed[r]["ip"] <= now
  /\ pc[r] = "check" /\ ask[r].route = "preview" => Unusable \/ InLimits(r)
  /\ pc[r] = "settle" => ask[r].route = "build" /\ ask[r].valid /\ ~Unusable

Late(r) ==
  pc[r] \in {"record", "push"} =>
    /\ answer[r] = 0 /\ ask[r].valid /\ ~Unusable
    /\ job[r].state = (IF pc[r] = "record" THEN "none" ELSE "saved")
    /\ \/ ask[r].route = "build" /\ charged[r] = "yes"
       \/ ask[r].route = "preview" /\ charged[r] = "no" /\ InLimits(r)

Done(r) ==
  /\ answer[r] \in {422, 429, 503} => charged[r] = "no"
  /\ answer[r] = 402 => charged[r] # "yes"
  /\ charged[r] = "unsure" => job[r].state = "none" /\ answer[r] = 402
  /\ answer[r] = 202 => job[r].state \in {"queued", "taken", "lost"}
  /\ charged[r] = "yes" /\ pc[r] \in {"reply", "done"} => answer[r] \in {202, 500}
  /\ charged[r] = "yes" /\ job[r].state \in {"none", "saved"} =>
       pc[r] \in {"record", "push", "dead"} \/ answer[r] = 500
  /\ job[r].state # "none" => Rightful(r)

Story(r) == Early(r) /\ Middle(r) /\ Late(r) /\ Done(r)
IInv == TypeOK /\ Asked /\ \A r \in Requests : Story(r)

LEMMA StoryInit == Init => \A r \in Requests : Story(r)
  BY DEF Init, Story, Early, Middle, Late, Done, NoJob

\* The inductive invariant says what the properties say.
LEMMA StoryImplies == IInv => AdmittedRightly /\ RefusedIsFree /\ ChargeAnswered
<1> SUFFICES ASSUME IInv PROVE AdmittedRightly /\ RefusedIsFree /\ ChargeAnswered
  OBVIOUS
<1>1. ASSUME NEW r \in Requests PROVE Done(r)
  BY DEF IInv, Story
<1>2. AdmittedRightly
  <2>1. ASSUME NEW r \in Requests, job[r].state # "none" PROVE Rightful(r)
    BY <1>1, <2>1 DEF Done
  <2> QED
    BY <2>1, Zenon DEF AdmittedRightly, Rightful, InLimits
<1>3. RefusedIsFree
  BY <1>1 DEF Done, RefusedIsFree
<1>4. ChargeAnswered
  <2>1. ASSUME NEW r \in Requests
        PROVE  /\ charged[r] = "yes" /\ pc[r] = "done" => answer[r] \in {202, 500}
               /\ charged[r] = "unsure" => job[r].state = "none" /\ answer[r] = 402
               /\ answer[r] = 202 => job[r].state \in {"queued", "taken", "lost"}
               /\ charged[r] = "yes" /\ job[r].state \in {"none", "saved"} =>
                    \/ pc[r] \in {"record", "push", "dead"} \/ answer[r] = 500
    BY <1>1 DEF Done
  <2> QED
    BY <2>1, Zenon DEF ChargeAnswered
<1> QED
  BY <1>2, <1>3, <1>4

\* A step that leaves a request alone leaves its story: time only passes.
LEMMA Untouched ==
  ASSUME TypeOK, NEW q \in Requests, Story(q), deploy' = deploy, now' \in Nat, now <= now',
         pc'[q] = pc[q], ask'[q] = ask[q], answer'[q] = answer[q], charged'[q] = charged[q],
         job'[q] = job[q], passed'[q] = passed[q]
  PROVE  Story(q)'
<1>1. Unusable' = Unusable
  BY DEF Unusable
<1>2. now \in Nat /\ passed[q]["ip"] \in Nat /\ passed[q]["all"] \in Nat
  BY FrontAssumption DEF TypeOK, Never, Limiters
<1>3. /\ passed[q]["ip"] <= now => (passed[q]["ip"] <= now)'
      /\ InLimits(q) => InLimits(q)'
  BY <1>2 DEF InLimits
<1>4. Rightful(q) => Rightful(q)'
  <2> HIDE DEF InLimits
  <2> QED
    BY <1>1, <1>3 DEF Rightful
<1>5. Early(q)' /\ Middle(q)' /\ Late(q)'
  BY <1>1, <1>3, Zenon DEF Story, Early, Middle, Late
<1>6. Done(q)'
  BY <1>4 DEF Story, Done
<1> QED
  BY <1>5, <1>6 DEF Story

Elsewhere(r) ==
  /\ deploy' = deploy /\ now' = now
  /\ \A q \in Requests \ {r} :
       /\ pc'[q] = pc[q] /\ ask'[q] = ask[q] /\ answer'[q] = answer[q]
       /\ charged'[q] = charged[q] /\ job'[q] = job[q] /\ passed'[q] = passed[q]

\* So a request's own step has only its own story to keep.
LEMMA OwnStep ==
  ASSUME IInv, NEW r \in Requests, Elsewhere(r), Story(r)'
  PROVE  \A q \in Requests : Story(q)'
<1>1. now \in Nat
  BY FrontAssumption DEF IInv, TypeOK
<1>2. ASSUME NEW q \in Requests \ {r} PROVE Story(q)'
  BY <1>1, Untouched DEF Elsewhere, IInv
<1> QED
  BY <1>2

\* The steps of a request.
LEMMA StoryHandle ==
  ASSUME IInv, NEW r \in Requests, Arrive(r) \/ Handle(r) \/ RedisError(r) \/ Take(r)
  PROVE  \A q \in Requests : Story(q)'
<1>1. /\ TypeOK /\ Asked /\ Story(r)
      /\ pc \in [Requests -> PCs] /\ ask \in [Requests -> Asks \cup {NoAsk}]
      /\ answer \in [Requests -> {0, 200, 202, 402, 422, 429, 500, 503}]
      /\ charged \in [Requests -> Charges] /\ job \in [Requests -> Job]
      /\ passed \in [Requests -> [Limiters -> 0 .. Never]]
      /\ now \in Nat
  BY FrontAssumption DEF IInv, TypeOK
<1> USE DEF To, Say, Still, limits
<1>2. CASE Arrive(r)
  <2>1. Elsewhere(r) /\ pc'[r] = "socket" /\ pc[r] = "new"
        /\ UNCHANGED <<deploy, now, answer, charged, job, passed>>
    BY <1>1, <1>2 DEF Arrive, Elsewhere
  <2>2. Story(r)'
    BY <1>1, <2>1 DEF Story, Early, Middle, Late, Done
  <2> QED
    BY <2>1, <2>2, OwnStep
<1>3. CASE Dispatch(r)
  <2>1. /\ Elsewhere(r) /\ pc[r] = "socket" /\ pc'[r] = Entry(r)
        /\ answer'[r] = IF ask[r].route = "poll" THEN 200 ELSE answer[r]
        /\ UNCHANGED <<deploy, now, ask, charged, job, passed>>
    BY <1>1, <1>3 DEF Dispatch, Elsewhere
  <2>2. ask[r].route \in {"build", "preview", "poll"}
    BY <1>1, <2>1 DEF Asked, Asks
  <2>3. Unusable' = Unusable
    BY <2>1 DEF Unusable
  <2>4. Story(r)'
    BY <1>1, <2>1, <2>2, <2>3 DEF Story, Early, Middle, Late, Done, Entry
  <2> QED
    BY <2>1, <2>4, OwnStep
<1>4. CASE Settle(r)
  <2>1. /\ Elsewhere(r) /\ pc[r] = "settle"
        /\ UNCHANGED <<deploy, now, ask, job, passed>>
        /\ \/ pc'[r] = "record" /\ charged'[r] = "yes" /\ answer'[r] = answer[r]
           \/ /\ pc'[r] = "reply" /\ charged'[r] \in {"no", "unsure"}
              /\ answer'[r] = 402
    BY <1>1, <1>4 DEF Settle, SettleAs, Granted, Elsewhere
  <2>2. Unusable' = Unusable
    BY <2>1 DEF Unusable
  <2>3. Story(r)'
    BY <1>1, <2>1, <2>2 DEF Story, Early, Middle, Late, Done
  <2> QED
    BY <2>1, <2>3, OwnStep
<1>5. CASE Validate(r)
  <2>1. /\ Elsewhere(r) /\ pc[r] = "check"
        /\ UNCHANGED <<deploy, now, ask, charged, job, passed>>
        /\ \/ pc'[r] = "reply" /\ answer'[r] \in {503, 422}
           \/ ~Unusable /\ ask[r].valid /\ pc'[r] = AfterCheck(r) /\ answer'[r] = answer[r]
    BY <1>1, <1>5 DEF Validate, Elsewhere
  <2>2. Unusable' = Unusable /\ (InLimits(r) => InLimits(r)')
    BY <2>1 DEF Unusable, InLimits
  <2>3. Story(r)'
    BY <1>1, <2>1, <2>2 DEF Story, Early, Middle, Late, Done, AfterCheck
  <2> QED
    BY <2>1, <2>3, OwnStep
<1>6. CASE Record(r)
  <2>1. /\ Elsewhere(r) /\ pc[r] = "record" /\ pc'[r] = "push" /\ job'[r] = JobFor(r)
        /\ UNCHANGED <<deploy, now, ask, charged, answer, passed>>
    BY <1>1, <1>6 DEF Record, Elsewhere
  <2>2. Unusable' = Unusable /\ (InLimits(r) => InLimits(r)')
    BY <2>1 DEF Unusable, InLimits
  <2>3. /\ job'[r].state = "saved"
        /\ job'[r].paid <=> ask[r].route = "build"
        /\ job'[r].preview <=> ask[r].route = "preview"
    <3>1. \/ ask[r].route = "build"
             /\ JobFor(r) = [state |-> "saved", paid |-> TRUE, preview |-> FALSE]
          \/ ask[r].route = "preview"
             /\ JobFor(r) = [state |-> "saved", paid |-> FALSE, preview |-> TRUE]
      BY <1>1, <2>1 DEF JobFor, Story, Late
    <3> QED
      BY <2>1, <3>1
  <2>4. /\ ask[r].valid /\ ~Unusable /\ answer[r] = 0
        /\ \/ ask[r].route = "build" /\ charged[r] = "yes"
           \/ ask[r].route = "preview" /\ charged[r] = "no" /\ InLimits(r)
    BY <1>1, <2>1 DEF Story, Late
  <2>5. job'[r].paid # job'[r].preview
    BY <2>3, <2>4
  <2>6. Rightful(r)'
    BY <2>1, <2>2, <2>3, <2>4, <2>5 DEF Rightful
  <2>7. Story(r)'
    BY <1>1, <2>1, <2>2, <2>3, <2>4, <2>6 DEF Story, Early, Middle, Late, Done
  <2> QED
    BY <2>1, <2>7, OwnStep
<1>7. CASE Push(r)
  <2>1. /\ Elsewhere(r) /\ pc[r] = "push" /\ pc'[r] = "reply" /\ answer'[r] = 202
        /\ job'[r] = [job[r] EXCEPT !.state = "queued"]
        /\ UNCHANGED <<deploy, now, ask, charged, passed>>
    BY <1>1, <1>7 DEF Push, Elsewhere
  <2>2. Unusable' = Unusable /\ (InLimits(r) => InLimits(r)')
    BY <2>1 DEF Unusable, InLimits
  <2>3. job'[r].state = "queued" /\ job'[r].paid = job[r].paid /\ job'[r].preview = job[r].preview
    BY <1>1, <2>1 DEF Job
  <2>4. Rightful(r)'
    BY <1>1, <2>1, <2>2, <2>3 DEF Story, Late, Done, Rightful
  <2>5. Story(r)'
    BY <1>1, <2>1, <2>3, <2>4 DEF Story, Early, Middle, Late, Done
  <2> QED
    BY <2>1, <2>5, OwnStep
<1>8. CASE Take(r)
  <2>1. /\ Elsewhere(r) /\ job[r].state = "queued"
        /\ job'[r] = [job[r] EXCEPT !.state = "taken"]
        /\ UNCHANGED <<deploy, now, ask, pc, answer, charged, passed>>
    BY <1>1, <1>8 DEF Take, Elsewhere
  <2>2. Unusable' = Unusable /\ (InLimits(r) => InLimits(r)')
    BY <2>1 DEF Unusable, InLimits
  <2>3. job'[r].state = "taken" /\ job'[r].paid = job[r].paid /\ job'[r].preview = job[r].preview
    BY <1>1, <2>1 DEF Job
  <2>4. Rightful(r)'
    BY <1>1, <2>1, <2>2, <2>3 DEF Story, Done, Rightful
  <2>5. Story(r)'
    BY <1>1, <2>1, <2>2, <2>3, <2>4 DEF Story, Early, Middle, Late, Done
  <2> QED
    BY <2>1, <2>5, OwnStep
<1>9. CASE Reply(r)
  <2>1. /\ Elsewhere(r) /\ pc[r] = "reply" /\ pc'[r] = "done"
        /\ UNCHANGED <<deploy, now, ask, answer, charged, job, passed>>
    BY <1>1, <1>9 DEF Reply, Elsewhere
  <2>2. Rightful(r) => Rightful(r)'
    BY <2>1 DEF Rightful, Unusable, InLimits
  <2>3. Story(r)'
    BY <1>1, <2>1, <2>2 DEF Story, Early, Middle, Late, Done
  <2> QED
    BY <2>1, <2>3, OwnStep
<1>10. CASE RedisError(r)
  <2>1. /\ Elsewhere(r) /\ pc[r] \in {"record", "push"} /\ pc'[r] = "reply" /\ answer'[r] = 500
        /\ UNCHANGED <<deploy, now, ask, charged, job, passed>>
    BY <1>1, <1>10 DEF RedisError, Elsewhere
  <2>2. Rightful(r) => Rightful(r)'
    BY <2>1 DEF Rightful, Unusable, InLimits
  <2>3. Story(r)'
    BY <1>1, <2>1, <2>2 DEF Story, Early, Middle, Late, Done
  <2> QED
    BY <2>1, <2>3, OwnStep
<1>11. ASSUME NEW lim \in Limiters, NEW next \in {"global", "check"}, Limited(r, lim, next),
              pc[r] \in {"limit", "global"},
              next = "global" => lim = "ip" /\ ask[r].route = "preview",
              next = "check" => \/ ask[r].route = "build"
                                \/ lim = "all" /\ pc[r] = "global"
       PROVE  \A q \in Requests : Story(q)'
  <2>1. PICK ok \in BOOLEAN : Check(r, lim, ok)
          /\ IF ok THEN To(r, next) /\ UNCHANGED answer ELSE Say(r, 429)
    BY <1>11 DEF Limited
  <2>2. passed' = IF ok THEN [passed EXCEPT ![r][lim] = now] ELSE passed
    BY <2>1 DEF Check
  <2>3. UNCHANGED <<deploy, now, ask, charged, job>>
    BY <1>11 DEF Limited
  <2>4. Unusable' = Unusable
    BY <2>3 DEF Unusable
  <2>5. CASE ok
    <3>1. Elsewhere(r) /\ pc'[r] = next /\ answer' = answer
          /\ passed'[r] = [passed[r] EXCEPT ![lim] = now]
      BY <1>1, <2>1, <2>2, <2>3, <2>5 DEF Elsewhere
    <3>2. next = "global" => passed'[r]["ip"] <= now'
      BY <1>1, <1>11, <2>3, <3>1 DEF Limiters
    <3>3. next = "check" /\ ask[r].route = "preview" => InLimits(r)'
      BY <1>1, <1>11, <2>3, <3>1 DEF Limiters, InLimits, Story, Middle
    <3>4. Story(r)'
      BY <1>1, <1>11, <2>3, <2>4, <3>1, <3>2, <3>3
         DEF Story, Early, Middle, Late, Done
    <3> QED
      BY <3>1, <3>4, OwnStep
  <2>6. CASE ~ok
    <3>1. Elsewhere(r) /\ pc'[r] = "reply" /\ answer'[r] = 429
      BY <1>1, <2>1, <2>2, <2>3, <2>6 DEF Elsewhere
    <3>2. Story(r)'
      BY <1>1, <1>11, <2>3, <3>1 DEF Story, Early, Middle, Late, Done
    <3> QED
      BY <3>1, <3>2, OwnStep
  <2> QED
    BY <2>5, <2>6
<1>12. CASE CheckLimit(r)
  <2>1. pc[r] = "limit" /\ ask[r].route \in {"build", "preview"}
    BY <1>1, <1>12 DEF CheckLimit, Story, Middle
  <2>2. CASE ask[r].route = "build"
    BY <2>1, <2>2, <1>12, <1>11 DEF CheckLimit, Limiters
  <2>3. CASE ask[r].route = "preview"
    BY <2>1, <2>3, <1>12, <1>11 DEF CheckLimit, Limiters
  <2> QED
    BY <2>1, <2>2, <2>3
<1>13. CASE CheckGlobal(r)
  BY <1>13, <1>11 DEF CheckGlobal, Limiters
<1> QED
  BY <1>2, <1>3, <1>4, <1>5, <1>6, <1>7, <1>8, <1>9, <1>10, <1>12, <1>13,
     Zenon DEF Handle

\* A process that dies takes its requests with it, and what it had in memory.
LEMMA StoryRestart ==
  ASSUME IInv, NEW p \in Processes, Restart(p), NEW q \in Requests
  PROVE  Story(q)'
<1>1. /\ TypeOK /\ Story(q) /\ pc \in [Requests -> PCs] /\ job \in [Requests -> Job]
      /\ now \in Nat
  BY FrontAssumption DEF IInv, TypeOK
<1>2. UNCHANGED <<deploy, now, ask, answer, charged, passed>>
  BY DEF Restart
<1>3. Rightful(q) /\ job'[q].paid = job[q].paid /\ job'[q].preview = job[q].preview
        => Rightful(q)'
  BY <1>2, Zenon DEF Rightful, Unusable, InLimits
<1>4. pc'[q] = IF Here(q, p) THEN "dead" ELSE pc[q]
  BY DEF Restart
<1>5. /\ job'[q].paid = job[q].paid /\ job'[q].preview = job[q].preview
      /\ \/ job'[q].state = job[q].state
         \/ job[q].state \in {"saved", "queued"} /\ job'[q].state = "lost" /\ ask[q].at = p
  BY <1>1 DEF Restart, Job
<1>6. CASE pc'[q] = pc[q] /\ job'[q].state = job[q].state
  BY <1>1, <1>2, <1>3, <1>5, <1>6 DEF Story, Early, Middle, Late, Done, Unusable, InLimits
<1>7. CASE pc'[q] = "dead"
  BY <1>1, <1>2, <1>3, <1>5, <1>7 DEF Story, Early, Middle, Late, Done
<1>8. CASE pc'[q] = pc[q] /\ job'[q].state = "lost" /\ job[q].state \in {"saved", "queued"}
           /\ ask[q].at = p /\ pc[q] # "dead"
  <2>1. pc[q] \notin Running \cup {"socket"}
    BY <1>4, <1>8 DEF Here
  <2> QED
    BY <1>1, <1>2, <1>3, <1>5, <1>8, <2>1
       DEF Story, Early, Middle, Late, Done, Running
<1> QED
  BY <1>4, <1>5, <1>6, <1>7, <1>8

LEMMA StoryStep == IInv /\ [Next]_vars => \A q \in Requests : Story(q)'
<1> SUFFICES ASSUME IInv, [Next]_vars PROVE \A q \in Requests : Story(q)'
  OBVIOUS
<1>1. CASE \E r \in Requests : Arrive(r) \/ Handle(r) \/ RedisError(r) \/ Take(r)
  BY <1>1, StoryHandle
<1>2. CASE \E p \in Processes : Restart(p)
  BY <1>2, StoryRestart
<1>3. CASE Tick \/ UNCHANGED vars
  <2>1. now \in Nat /\ now' \in Nat /\ now <= now'
    BY <1>3, FrontAssumption DEF IInv, TypeOK, Tick, vars
  <2>2. UNCHANGED <<deploy, ask, pc, answer, charged, job, passed>>
    BY <1>3 DEF Tick, vars, limits
  <2> QED
    BY <2>1, <2>2, Untouched DEF IInv
<1> QED
  BY <1>1, <1>2, <1>3 DEF Next

\* However requests interleave and whatever dies or fails, what a request has
\* passed, paid and created is what create_build and create_preview have done for
\* it by the step it is at.
THEOREM StoryCorrect == Spec => []IInv
<1>1. Init => IInv
  BY TypeInit, AskedInit, StoryInit DEF IInv
<1>2. IInv /\ [Next]_vars => IInv'
  BY TypeStep, StoryStep DEF IInv
<1> QED
  BY <1>1, <1>2, PTL DEF Spec

-----------------------------------------------------------------------------
(* The properties.                                                         *)

\* Every job, however its request came in, is a paid one that was charged for
\* or a preview that passed both limits, of a valid document, on a deployment
\* that can build (app.py, create_build, create_preview, _start_build_for_agent).
THEOREM Admission == Spec => []AdmittedRightly
<1>1. IInv => AdmittedRightly
  BY StoryImplies
<1> QED
  BY <1>1, StoryCorrect, PTL

\* Nobody who is turned away before the settlement has paid, or may have (app.py,
\* "before any payment was taken").
THEOREM Refusal == Spec => []RefusedIsFree
<1>1. IInv => RefusedIsFree
  BY StoryImplies
<1> QED
  BY <1>1, StoryCorrect, PTL

\* A settled payment is followed by a job in the queue unless the service dies or
\* Redis fails between the two; one that may have executed is told as a 402 and
\* buys nothing; and "accepted" is never said of less than a queued job.
THEOREM Charge == Spec => []ChargeAnswered
<1>1. IInv => ChargeAnswered
  BY StoryImplies
<1> QED
  BY <1>1, StoryCorrect, PTL
-----------------------------------------------------------------------------
(* The limiters.  Who has passed one is counted where the code counts him,  *)
(* in this window of Redis or of his process; the windows before it are     *)
(* closed.                                                                  *)

\* The moments of the window of Redis that t is in.
WindowOf(lim, t) == {u \in 0 .. Horizon : Bucket(lim, u) = Bucket(lim, t)}

Least(m, n)  == IF m <= n THEN m ELSE n
Latest(m, n) == IF m <= n THEN n ELSE m

\* Nobody has passed a limiter in the future, or before arriving.
PassesKnown ==
  \A r \in Requests, lim \in Limiters :
    /\ passed[r][lim] = Never \/ passed[r][lim] <= now
    /\ pc[r] = "new" => passed[r][lim] = Never

\* However many requests there are, finitely many have passed.
CountsFinite ==
  \A lim \in Limiters, k \in Keys : IsFiniteSet(Passed(lim, k, 0 .. Horizon, Processes))

\* In Redis: the count of this window, and the failures.
SharedHeld(lim, k) ==
  \A t \in 0 .. Horizon :
    Cardinality(Passed(lim, k, WindowOf(lim, t), Processes)) <=
      (Errors - left.error) +
        IF Bucket(lim, t) = Bucket(lim, now) THEN Least(shared[lim][k], Limit[lim])
        ELSE Limit[lim]

\* In a process: when its window began, how many windows can have been full
\* before that, and what they and the crashes have let through.
Began(w, lim)    == IF w.count = 0 THEN now ELSE w.resets - Window[lim]
Spans(lim, t, u) == (u - t + Window[lim] - 1) \div Window[lim]
Room(lim, n)     == (n + Crashes - left.crash) * Limit[lim]

WindowHeld(lim, k, p) ==
  LET w == local[p][lim][k] IN
    /\ w.count = 0 => w.resets = 0
    /\ w.count > 0 => Window[lim] <= w.resets /\ w.resets <= now + Window[lim]
    /\ w.count > 0 => \A r \in Passed(lim, k, 0 .. Horizon, {p}) : passed[r][lim] < w.resets

OpenHeld(lim, k, p) ==
  LET w == local[p][lim][k] IN
    \A t \in 0 .. now :
      Cardinality(Passed(lim, k, t .. Horizon, {p})) <=
        Room(lim, Spans(lim, t, Latest(t, Began(w, lim)))) + Least(w.count, Limit[lim])

ClosedHeld(lim, k, p) ==
  \A t, u \in 0 .. Horizon : t <= u /\ u < now =>
    Cardinality(Passed(lim, k, t .. u, {p})) <= Room(lim, 1 + Spans(lim, t, u))

LimitInv ==
  /\ TypeOK /\ Asked /\ PassesKnown /\ CountsFinite
  /\ \A lim \in Limiters, k \in Keys : Limit[lim] > 0 =>
       /\ deploy.redis => SharedHeld(lim, k)
       /\ ~deploy.redis => \A p \in Processes :
            WindowHeld(lim, k, p) /\ OpenHeld(lim, k, p) /\ ClosedHeld(lim, k, p)

\* Division and multiplication by a constant keep the order.
LEMMA DivisionFacts ==
  ASSUME NEW a \in Nat, NEW b \in Nat, NEW w \in Nat \ {0}, a <= b
  PROVE  /\ a \div w \in Nat /\ a \div w <= b \div w
         /\ (a + w) \div w = a \div w + 1
         /\ a < w => a \div w = 0
  OBVIOUS

LEMMA ProductFacts ==
  ASSUME NEW a \in Nat, NEW b \in Nat, NEW n \in Nat, a <= b
  PROVE  /\ a * n \in Nat /\ a * n <= b * n
         /\ (a + 1) * n = a * n + n
  OBVIOUS

\* The spans between two moments grow with the later one, by one in a window.
LEMMA SpanFacts ==
  ASSUME NEW lim \in Limiters, NEW t \in Nat, NEW u \in Nat, NEW v \in Nat, t <= u, u <= v
  PROVE  /\ Spans(lim, t, u) \in Nat /\ Spans(lim, t, t) = 0
         /\ Spans(lim, t, u) <= Spans(lim, t, v)
         /\ u + Window[lim] <= v => Spans(lim, t, u) + 1 <= Spans(lim, t, v)
         /\ t < u => 1 <= Spans(lim, t, u)
         /\ WindowsBetween(lim, t, u) = 1 + Spans(lim, t, u)
<1> DEFINE w == Window[lim]
           a == u - t + w - 1
           b == v - t + w - 1
<1>1. w \in Nat \ {0}
  BY FrontAssumption
<1>2. /\ a \in Nat /\ b \in Nat /\ a <= b
      /\ u + w <= v => a + w <= b /\ a + w \in Nat
      /\ t < u => w <= a
      /\ w - 1 \in Nat /\ w - 1 < w /\ t - t + w - 1 = w - 1
  BY <1>1
<1>3. Spans(lim, t, u) = a \div w /\ Spans(lim, t, v) = b \div w
      /\ Spans(lim, t, t) = (t - t + w - 1) \div w
      /\ WindowsBetween(lim, t, u) = 1 + a \div w
  BY DEF Spans, WindowsBetween
<1> HIDE DEF w, a, b
<1>4. a \div w \in Nat /\ a \div w <= b \div w /\ (a + w) \div w = a \div w + 1
  <2>1. a \in Nat /\ b \in Nat /\ a <= b
    BY <1>2
  <2> QED
    BY <1>1, <2>1, DivisionFacts
<1>5. (w - 1) \div w = 0
  <2>1. w - 1 \in Nat /\ w - 1 < w /\ w - 1 <= w - 1
    BY <1>1
  <2> DEFINE c == w - 1
  <2>2. c \in Nat /\ c < w /\ c <= c
    BY <2>1
  <2> HIDE DEF c
  <2>3. c \div w = 0
    BY <1>1, <2>2, DivisionFacts
  <2> QED
    BY <2>3 DEF c
<1>6. ASSUME u + w <= v PROVE a \div w + 1 <= b \div w
  <2>1. a + w \in Nat /\ a + w <= b /\ b \in Nat
    BY <1>2, <1>6
  <2>2. (a + w) \div w <= b \div w
    BY <1>1, <2>1, DivisionFacts
  <2> QED
    BY <1>4, <2>2
<1>7. t < u => 1 <= a \div w
  <2>1. 0 \in Nat /\ 0 <= 0 /\ 0 < w /\ 0 + w = w
    BY <1>1
  <2>2. 0 \div w = 0 /\ w \div w = 1
    BY <1>1, <2>1, DivisionFacts
  <2> QED
    BY <1>1, <1>2, <2>2, DivisionFacts
<1> QED
  BY <1>3, <1>4, <1>5, <1>6, <1>7, <1>2 DEF w

\* Room for one window more is room for what one window may hold; a crash
\* makes the same.
LEMMA RoomFacts ==
  ASSUME TypeOK, NEW lim \in Limiters, NEW m \in Nat, NEW n \in Nat, m <= n
  PROVE  /\ Room(lim, m) \in Nat /\ Room(lim, m) <= Room(lim, n)
         /\ Room(lim, m + 1) = Room(lim, m) + Limit[lim]
         /\ Limit[lim] \in Nat
         /\ left'.crash = left.crash => Room(lim, m)' = Room(lim, m)
         /\ left'.crash = left.crash - 1 => Room(lim, m)' = Room(lim, m) + Limit[lim]
<1> DEFINE c == Crashes - left.crash
           l == Limit[lim]
<1>1. left.crash \in Nat /\ Crashes \in Nat /\ c \in Nat /\ l \in Nat
  BY FrontAssumption DEF TypeOK
<1>2. Room(lim, m) = (m + c) * l /\ Room(lim, n) = (n + c) * l
  BY <1>1 DEF Room
<1>3. Room(lim, m + 1) = (m + c + 1) * l
  BY <1>1 DEF Room
<1>4. left'.crash = left.crash => Room(lim, m)' = (m + c) * l
  BY <1>1 DEF Room
<1>5. left'.crash = left.crash - 1 => Room(lim, m)' = (m + c + 1) * l
  BY <1>1 DEF Room
<1>6. m + c \in Nat /\ n + c \in Nat /\ m + c <= n + c
  BY <1>1
<1> HIDE DEF c
<1>7. /\ (m + c) * l \in Nat /\ (m + c) * l <= (n + c) * l
      /\ (m + c + 1) * l = (m + c) * l + l
  BY <1>1, <1>6, ProductFacts
<1> QED
  BY <1>1, <1>2, <1>3, <1>4, <1>5, <1>7

-----------------------------------------------------------------------------
(* Who has passed.                                                         *)

LEMMA FewerPassed ==
  ASSUME TypeOK, CountsFinite, NEW lim \in Limiters, NEW k \in Keys,
         NEW T \in SUBSET (0 .. Horizon), NEW A \in SUBSET Processes
  PROVE  /\ IsFiniteSet(Passed(lim, k, T, A)) /\ Cardinality(Passed(lim, k, T, A)) \in Nat
         /\ \A U \in SUBSET T : Cardinality(Passed(lim, k, U, A)) <= Cardinality(Passed(lim, k, T, A))
<1>1. Passed(lim, k, T, A) \subseteq Passed(lim, k, 0 .. Horizon, Processes)
  BY DEF Passed
<1>2. IsFiniteSet(Passed(lim, k, T, A))
  BY <1>1, FS_Subset DEF CountsFinite
<1>3. ASSUME NEW U \in SUBSET T
      PROVE  Cardinality(Passed(lim, k, U, A)) <= Cardinality(Passed(lim, k, T, A))
  <2>1. Passed(lim, k, U, A) \subseteq Passed(lim, k, T, A)
    BY DEF Passed
  <2> QED
    BY <1>2, <2>1, FS_Subset
<1> QED
  BY <1>2, <1>3, FS_CardinalityType

\* Before it has arrived a request has passed nothing, so what it will ask for
\* does not matter.
LEMMA SamePassed ==
  ASSUME TypeOK, PassesKnown, passed' = passed,
         \A r \in Requests : pc[r] # "new" => ask'[r] = ask[r],
         NEW lim \in Limiters, NEW k, NEW T, NEW A
  PROVE  Passed(lim, k, T, A)' = Passed(lim, k, T, A)
<1>1. ASSUME NEW r \in Requests, passed[r][lim] # Never PROVE ask'[r] = ask[r]
  BY <1>1 DEF PassesKnown
<1> QED
  BY <1>1 DEF Passed, Key

\* A limiter lets r pass, or nobody.
LetIn(r, lim, ok, l, k, T, A) ==
  ok /\ l = lim /\ Key(r, lim) = k /\ now \in T /\ ask[r].at \in A

LEMMA CheckPassed ==
  ASSUME TypeOK, CountsFinite, NEW r \in Requests, NEW lim \in Limiters, NEW ok \in BOOLEAN,
         Check(r, lim, ok), ask' = ask, NEW l \in Limiters, NEW k \in Keys,
         NEW T \in SUBSET (0 .. Horizon), NEW A \in SUBSET Processes
  PROVE  /\ IsFiniteSet(Passed(l, k, T, A)')
         /\ Cardinality(Passed(l, k, T, A)') \in Nat
         /\ Cardinality(Passed(l, k, T, A)') <= Cardinality(Passed(l, k, T, A)) + 1
         /\ ~LetIn(r, lim, ok, l, k, T, A) =>
              /\ Passed(l, k, T, A)' \subseteq Passed(l, k, T, A)
              /\ Cardinality(Passed(l, k, T, A)') <= Cardinality(Passed(l, k, T, A))
<1> DEFINE P == Passed(l, k, T, A)
<1>1. passed' = IF ok THEN [passed EXCEPT ![r][lim] = now] ELSE passed
  BY DEF Check
<1>2. passed \in [Requests -> [Limiters -> 0 .. Never]]
  BY DEF TypeOK
<1>3. ASSUME NEW q \in Requests, q # r \/ l # lim \/ ~ok PROVE passed'[q][l] = passed[q][l]
  BY <1>1, <1>2, <1>3
<1>4. ok => passed'[r][lim] = now
  BY <1>1, <1>2
<1>5. P' \subseteq P \cup {r}
  BY <1>3 DEF Passed, Key
<1>6. ~LetIn(r, lim, ok, l, k, T, A) => P' \subseteq P
  BY <1>3, <1>4 DEF Passed, Key, LetIn
<1>7. IsFiniteSet(P) /\ Cardinality(P) \in Nat
  BY FewerPassed
<1> HIDE DEF P
<1>8. /\ IsFiniteSet(P \cup {r})
      /\ Cardinality(P \cup {r}) <= Cardinality(P) + 1
  <2>1. /\ IsFiniteSet(P \cup {r})
        /\ Cardinality(P \cup {r}) = IF r \in P THEN Cardinality(P) ELSE Cardinality(P) + 1
    BY <1>7, FS_AddElement, Zenon
  <2> QED
    BY <1>7, <2>1
<1>9. IsFiniteSet(P') /\ Cardinality(P') <= Cardinality(P \cup {r})
  BY <1>5, <1>8, FS_Subset
<1>10. Cardinality(P') \in Nat
  BY <1>9, FS_CardinalityType, Zenon
<1>11. P' \subseteq P => Cardinality(P') <= Cardinality(P)
  BY <1>7, FS_Subset
<1>12. Cardinality(P \cup {r}) \in Nat
  BY <1>8, FS_CardinalityType, Zenon
<1>13. Cardinality(P') <= Cardinality(P) + 1
  BY <1>7, <1>8, <1>9, <1>10, <1>12
<1> QED
  BY <1>6, <1>9, <1>10, <1>11, <1>13 DEF P

LEMMA NobodyYet ==
  ASSUME TypeOK, PassesKnown, NEW lim \in Limiters, NEW k, NEW A,
         NEW T \in SUBSET (0 .. Horizon), \A u \in T : now < u
  PROVE  Passed(lim, k, T, A) = {} /\ Cardinality(Passed(lim, k, T, A)) = 0
<1>1. ASSUME NEW r \in Requests PROVE passed[r][lim] \notin T \ {Never}
  <2>1. passed[r][lim] \in Nat /\ now \in Nat
    BY FrontAssumption DEF TypeOK, Never
  <2> QED
    BY <2>1, FrontAssumption DEF PassesKnown
<1>2. Passed(lim, k, T, A) = {}
  BY <1>1 DEF Passed
<1> QED
  BY <1>2, FS_EmptySet

-----------------------------------------------------------------------------
(* What the invariant says.                                                *)

LEMMA LocalTyped ==
  ASSUME TypeOK, NEW lim \in Limiters, NEW k \in Keys, NEW p \in Processes
  PROVE  /\ local[p][lim][k] \in [count : Nat, resets : Nat]
         /\ local[p][lim][k].count \in Nat /\ local[p][lim][k].resets \in Nat
         /\ now \in Nat /\ now <= Horizon /\ Horizon \in Nat
         /\ Limit[lim] \in Nat /\ Window[lim] \in Nat \ {0}
  BY FrontAssumption DEF TypeOK

\* A window that has begun began by now.
LEMMA BeganTyped ==
  ASSUME TypeOK, NEW lim \in Limiters, NEW k \in Keys, NEW p \in Processes,
         WindowHeld(lim, k, p), NEW t \in 0 .. now
  PROVE  LET b == Latest(t, Began(local[p][lim][k], lim))
         IN  /\ Began(local[p][lim][k], lim) \in Nat /\ b \in Nat /\ t <= b /\ b <= now
             /\ Began(local[p][lim][k], lim) <= b
             /\ Spans(lim, t, b) \in Nat
<1>1. /\ Began(local[p][lim][k], lim) \in Nat
      /\ Began(local[p][lim][k], lim) <= now
  BY LocalTyped DEF Began, WindowHeld
<1>2. t \in Nat /\ t <= now /\ now \in Nat
  BY LocalTyped
<1> DEFINE b == Latest(t, Began(local[p][lim][k], lim))
<1>3. b \in Nat /\ t <= b /\ b <= now /\ Began(local[p][lim][k], lim) <= b
  BY <1>1, <1>2 DEF Latest
<1> HIDE DEF b
<1>4. Spans(lim, t, b) \in Nat
  BY <1>2, <1>3, SpanFacts
<1> QED
  BY <1>1, <1>3, <1>4 DEF b

\* A window that reaches to now holds no more than the ones before it and one.
LEMMA OpenBound ==
  ASSUME TypeOK, PassesKnown, CountsFinite, NEW lim \in Limiters, NEW k \in Keys,
         NEW p \in Processes, WindowHeld(lim, k, p), OpenHeld(lim, k, p),
         NEW t \in 0 .. Horizon, NEW u \in 0 .. Horizon, t <= u, now <= u
  PROVE  Cardinality(Passed(lim, k, t .. u, {p})) <= Room(lim, 1 + Spans(lim, t, u))
<1>1. t \in Nat /\ u \in Nat /\ now \in Nat /\ Limit[lim] \in Nat
  BY LocalTyped
<1>2. Spans(lim, t, u) \in Nat
  BY <1>1, SpanFacts
<1>3. /\ Room(lim, Spans(lim, t, u)) \in Nat
      /\ Room(lim, 1 + Spans(lim, t, u)) = Room(lim, Spans(lim, t, u)) + Limit[lim]
  <2>1. Spans(lim, t, u) + 1 = 1 + Spans(lim, t, u)
    BY <1>2
  <2> QED
    BY <1>2, <2>1, RoomFacts
<1>4. CASE now < t
  <2>1. Cardinality(Passed(lim, k, t .. u, {p})) = 0
    <3>1. t .. u \in SUBSET (0 .. Horizon) /\ \A x \in t .. u : now < x
      BY <1>1, <1>4, FrontAssumption
    <3> QED
      BY <3>1, NobodyYet
  <2> QED
    BY <1>1, <1>3, <2>1
<1>5. CASE t <= now
  <2> DEFINE w == local[p][lim][k]
             b == Latest(t, Began(w, lim))
  <2>1. b \in Nat /\ t <= b /\ b <= u /\ Spans(lim, t, b) \in Nat
    BY <1>1, <1>5, BeganTyped
  <2>2. Cardinality(Passed(lim, k, t .. Horizon, {p}))
          <= Room(lim, Spans(lim, t, b)) + Least(w.count, Limit[lim])
    <3>1. t \in 0 .. now
      BY <1>1, <1>5
    <3> QED
      BY <3>1, Zenon DEF OpenHeld
  <2>3. Least(w.count, Limit[lim]) \in Nat /\ Least(w.count, Limit[lim]) <= Limit[lim]
    BY LocalTyped DEF Least
  <2> HIDE DEF b, w
  <2>4. Spans(lim, t, b) <= Spans(lim, t, u)
    BY <1>1, <2>1, SpanFacts
  <2>5. /\ Room(lim, Spans(lim, t, b)) \in Nat
        /\ Room(lim, Spans(lim, t, b)) <= Room(lim, Spans(lim, t, u))
    BY <1>2, <2>1, <2>4, RoomFacts
  <2>6. /\ Cardinality(Passed(lim, k, t .. u, {p}))
             <= Cardinality(Passed(lim, k, t .. Horizon, {p}))
        /\ Cardinality(Passed(lim, k, t .. u, {p})) \in Nat
        /\ Cardinality(Passed(lim, k, t .. Horizon, {p})) \in Nat
    <3>1. t .. Horizon \in SUBSET (0 .. Horizon) /\ t .. u \in SUBSET (t .. Horizon)
          /\ t .. u \in SUBSET (0 .. Horizon)
      BY LocalTyped
    <3> QED
      BY <3>1, FewerPassed
  <2> QED
    BY <1>1, <1>3, <2>2, <2>3, <2>5, <2>6
<1> QED
  BY <1>1, <1>4, <1>5

LEMMA LimitImplies == LimitInv => LimitHeld
<1> SUFFICES ASSUME LimitInv, NEW lim \in Limiters, NEW k \in Keys, NEW t \in 0 .. Horizon,
                    Limit[lim] > 0
             PROVE  IF deploy.redis
                    THEN Cardinality(Passed(lim, k, WindowOf(lim, t), Processes))
                           <= Limit[lim] + (Errors - left.error)
                    ELSE \A p \in Processes, u \in t .. Horizon :
                           Cardinality(Passed(lim, k, t .. u, {p}))
                             <= Room(lim, WindowsBetween(lim, t, u))
  BY Zenon DEF LimitHeld, WindowOf, Room
<1>1. TypeOK /\ PassesKnown /\ CountsFinite
  BY DEF LimitInv
<1>2. CASE deploy.redis
  <2>1. SharedHeld(lim, k)
    BY <1>2 DEF LimitInv
  <2>2. Least(shared[lim][k], Limit[lim]) <= Limit[lim]
        /\ Least(shared[lim][k], Limit[lim]) \in Nat
    BY <1>1, FrontAssumption DEF Least, TypeOK
  <2>3. Limit[lim] \in Nat /\ Errors - left.error \in Nat
    BY <1>1, FrontAssumption DEF TypeOK
  <2>4. Cardinality(Passed(lim, k, WindowOf(lim, t), Processes)) \in Nat
    BY <1>1, FewerPassed DEF WindowOf
  <2>5. Cardinality(Passed(lim, k, WindowOf(lim, t), Processes))
          <= (Errors - left.error) + Limit[lim]
    BY <2>1, <2>2, <2>3, <2>4 DEF SharedHeld
  <2> QED
    BY <1>2, <2>3, <2>5
<1>3. CASE ~deploy.redis
  <2> SUFFICES ASSUME NEW p \in Processes, NEW u \in t .. Horizon
               PROVE  Cardinality(Passed(lim, k, t .. u, {p}))
                        <= Room(lim, WindowsBetween(lim, t, u))
    BY <1>3
  <2>1. WindowHeld(lim, k, p) /\ OpenHeld(lim, k, p) /\ ClosedHeld(lim, k, p)
    BY <1>3 DEF LimitInv
  <2>2. u \in 0 .. Horizon /\ t <= u /\ u \in Nat /\ t \in Nat /\ now \in Nat
    BY <1>1, LocalTyped
  <2>3. WindowsBetween(lim, t, u) = 1 + Spans(lim, t, u)
    BY <2>2, SpanFacts
  <2>4. CASE u < now
    BY <2>1, <2>2, <2>3, <2>4 DEF ClosedHeld
  <2>5. CASE now <= u
    BY <1>1, <2>1, <2>2, <2>3, <2>5, OpenBound
  <2> QED
    BY <2>2, <2>4, <2>5
<1> QED
  BY <1>2, <1>3

LEMMA LimitInit == Init => LimitInv
<1> SUFFICES ASSUME Init PROVE LimitInv
  OBVIOUS
<1>1. TypeOK /\ Asked
  BY TypeInit, AskedInit
<1>2. PassesKnown
  BY DEF Init, PassesKnown
<1>3. ASSUME NEW lim \in Limiters, NEW k, NEW T, NEW A
      PROVE  Passed(lim, k, T, A) = {}
  BY <1>3 DEF Init, Passed
<1>4. ASSUME NEW lim \in Limiters, NEW k, NEW T, NEW A
      PROVE  Cardinality(Passed(lim, k, T, A)) = 0
  BY <1>3, FS_EmptySet
<1>5. CountsFinite
  BY <1>3, FS_EmptySet DEF CountsFinite
<1>6. ASSUME NEW lim \in Limiters, NEW k \in Keys PROVE SharedHeld(lim, k)
  <2>1. /\ shared[lim][k] = 0 /\ left.error = Errors /\ Errors \in Nat /\ Limit[lim] \in Nat
    BY FrontAssumption DEF Init
  <2> QED
    BY <1>4, <2>1 DEF SharedHeld, Least
<1>7. ASSUME NEW lim \in Limiters, NEW k \in Keys, NEW p \in Processes
      PROVE  WindowHeld(lim, k, p) /\ OpenHeld(lim, k, p) /\ ClosedHeld(lim, k, p)
  <2>1. local[p][lim][k] = [count |-> 0, resets |-> 0] /\ now = 0
    BY DEF Init, Fresh
  <2>2. WindowHeld(lim, k, p)
    BY <2>1 DEF WindowHeld
  <2>3. OpenHeld(lim, k, p)
    <3> SUFFICES ASSUME NEW t \in 0 .. now
                 PROVE  0 <= Room(lim, Spans(lim, t, Latest(t, Began(local[p][lim][k], lim))))
                               + Least(0, Limit[lim])
      BY <1>4, <2>1 DEF OpenHeld
    <3>1. Spans(lim, t, Latest(t, Began(local[p][lim][k], lim))) \in Nat
      BY <1>1, <2>2, BeganTyped
    <3>2. Room(lim, Spans(lim, t, Latest(t, Began(local[p][lim][k], lim)))) \in Nat
          /\ Limit[lim] \in Nat
      BY <1>1, <3>1, RoomFacts
    <3> QED
      BY <3>2 DEF Least
  <2>4. ClosedHeld(lim, k, p)
    BY <2>1 DEF ClosedHeld
  <2> QED
    BY <2>2, <2>3, <2>4
<1> QED
  BY <1>1, <1>2, <1>5, <1>6, <1>7 DEF LimitInv

-----------------------------------------------------------------------------
(* What the steps do to it.                                                *)

\* A step that neither asks a limiter nor ends a window leaves it as it is.
LEMMA LimitQuiet ==
  ASSUME LimitInv, TypeOK', Asked', UNCHANGED <<deploy, now, shared, local, passed>>,
         \A r \in Requests : pc[r] # "new" => ask'[r] = ask[r] /\ pc'[r] # "new",
         left'.crash = left.crash, left'.error <= left.error
  PROVE  LimitInv'
<1>1. TypeOK /\ PassesKnown /\ CountsFinite
  BY DEF LimitInv
<1>2. ASSUME NEW lim \in Limiters, NEW k, NEW T, NEW A
      PROVE  Passed(lim, k, T, A)' = Passed(lim, k, T, A)
  BY <1>1, <1>2, SamePassed
<1>3. PassesKnown'
  BY <1>1 DEF PassesKnown
<1>4. CountsFinite'
  BY <1>1, <1>2 DEF CountsFinite
<1>5. ASSUME NEW lim \in Limiters, NEW k \in Keys, SharedHeld(lim, k) PROVE SharedHeld(lim, k)'
  <2> SUFFICES ASSUME NEW t \in 0 .. Horizon
               PROVE  Cardinality(Passed(lim, k, WindowOf(lim, t), Processes)') <=
                        (Errors - left'.error) +
                          IF Bucket(lim, t) = Bucket(lim, now)
                          THEN Least(shared[lim][k], Limit[lim]) ELSE Limit[lim]
    BY DEF SharedHeld, Bucket, Least, WindowOf
  <2>1. Errors \in Nat /\ left.error \in Nat /\ left'.error \in Nat /\ Limit[lim] \in Nat
        /\ Least(shared[lim][k], Limit[lim]) \in Nat
    BY <1>1, FrontAssumption DEF TypeOK, Least
  <2>2. Cardinality(Passed(lim, k, WindowOf(lim, t), Processes)) \in Nat
    BY <1>1, FewerPassed DEF WindowOf
  <2>3. Passed(lim, k, WindowOf(lim, t), Processes)' = Passed(lim, k, WindowOf(lim, t), Processes)
    BY <1>2
  <2> QED
    BY <1>5, <2>1, <2>2, <2>3 DEF SharedHeld
<1>6. ASSUME NEW lim \in Limiters, NEW n \in Nat PROVE Room(lim, n)' = Room(lim, n)
  BY <1>1, RoomFacts
<1>7. ASSUME NEW lim \in Limiters, NEW k \in Keys, NEW p \in Processes,
             WindowHeld(lim, k, p), OpenHeld(lim, k, p), ClosedHeld(lim, k, p)
      PROVE  (WindowHeld(lim, k, p) /\ OpenHeld(lim, k, p) /\ ClosedHeld(lim, k, p))'
  <2>1. WindowHeld(lim, k, p)'
    BY <1>2, <1>7 DEF WindowHeld
  <2>2. OpenHeld(lim, k, p)'
    <3> DEFINE b(t) == Latest(t, Began(local[p][lim][k], lim))
    <3> SUFFICES ASSUME NEW t \in 0 .. now
                 PROVE  Cardinality(Passed(lim, k, t .. Horizon, {p})) <=
                          Room(lim, Spans(lim, t, b(t)))' + Least(local[p][lim][k].count, Limit[lim])
      BY <1>2 DEF OpenHeld, Least
    <3> PICK n \in Nat : n = Spans(lim, t, b(t))
      BY <1>1, <1>7, BeganTyped
    <3>1. Room(lim, Spans(lim, t, b(t)))' = Room(lim, n)'
      BY DEF Room, Spans, Latest, Began
    <3>2. Cardinality(Passed(lim, k, t .. Horizon, {p})) <=
            Room(lim, n) + Least(local[p][lim][k].count, Limit[lim])
      BY <1>7, Zenon DEF OpenHeld
    <3> QED
      BY <1>6, <3>1, <3>2
  <2>3. ClosedHeld(lim, k, p)'
    <3> SUFFICES ASSUME NEW t \in 0 .. Horizon, NEW u \in 0 .. Horizon, t <= u, u < now
                 PROVE  Cardinality(Passed(lim, k, t .. u, {p})') <= Room(lim, 1 + Spans(lim, t, u))'
      BY DEF ClosedHeld
    <3> PICK n \in Nat : n = 1 + Spans(lim, t, u)
      BY SpanFacts
    <3>1. Room(lim, 1 + Spans(lim, t, u))' = Room(lim, n)'
      BY DEF Room, Spans
    <3>2. Cardinality(Passed(lim, k, t .. u, {p})) <= Room(lim, n)
      BY <1>7, Zenon DEF ClosedHeld
    <3> QED
      BY <1>2, <1>6, <3>1, <3>2
  <2> QED
    BY <2>1, <2>2, <2>3
<1> QED
  BY <1>1, <1>3, <1>4, <1>5, <1>7 DEF LimitInv

\* A process that starts again has empty windows, and one more crash to show.
LEMMA LimitRestart ==
  ASSUME LimitInv, TypeOK', Asked', NEW q \in Processes, Restart(q)
  PROVE  LimitInv'
<1>1. TypeOK /\ PassesKnown /\ CountsFinite
  BY DEF LimitInv
<1>2. /\ UNCHANGED <<deploy, now, ask, shared, passed>>
      /\ left'.crash = left.crash - 1 /\ left'.error = left.error
      /\ \A r \in Requests : pc'[r] = "new" => pc[r] = "new"
      /\ \A p \in Processes, lim \in Limiters, k \in Keys :
           local'[p][lim][k] = local[p][lim][k] \/ local'[p][lim][k] = Fresh
  <2>1. left \in [crash : 0 .. Crashes, error : 0 .. Errors]
        /\ local \in [Processes -> [Limiters -> [Keys -> [count : Nat, resets : Nat]]]]
        /\ pc \in [Requests -> PCs]
    BY <1>1 DEF TypeOK
  <2> QED
    BY <2>1 DEF Restart
<1>3. ASSUME NEW lim \in Limiters, NEW k, NEW T, NEW A
      PROVE  Passed(lim, k, T, A)' = Passed(lim, k, T, A)
  BY <1>1, <1>2, <1>3, SamePassed
<1>4. PassesKnown'
  BY <1>1, <1>2 DEF PassesKnown
<1>5. CountsFinite'
  BY <1>1, <1>3 DEF CountsFinite
<1>6. ASSUME NEW lim \in Limiters, NEW k \in Keys, SharedHeld(lim, k) PROVE SharedHeld(lim, k)'
  BY <1>2, <1>3, <1>6 DEF SharedHeld, Bucket, Least, WindowOf
<1>7. ASSUME NEW lim \in Limiters, NEW n \in Nat
      PROVE  /\ Room(lim, n)' = Room(lim, n) + Limit[lim] /\ Limit[lim] \in Nat
             /\ Room(lim, n) \in Nat
  BY <1>1, <1>2, RoomFacts
<1>8. ASSUME NEW lim \in Limiters, NEW k \in Keys, NEW p \in Processes,
             WindowHeld(lim, k, p), OpenHeld(lim, k, p), ClosedHeld(lim, k, p)
      PROVE  (WindowHeld(lim, k, p) /\ OpenHeld(lim, k, p) /\ ClosedHeld(lim, k, p))'
  <2> DEFINE w == local[p][lim][k]
  <2>1. w' = w \/ w' = [count |-> 0, resets |-> 0]
    BY <1>2 DEF Fresh
  <2>2. WindowHeld(lim, k, p)'
    <3>1. CASE w' = w
      <4>1. \A r \in Passed(lim, k, 0 .. Horizon, {p})' :
              r \in Passed(lim, k, 0 .. Horizon, {p})
        BY <1>3
      <4> QED
        BY <1>2, <1>8, <3>1, <4>1 DEF WindowHeld
    <3>2. CASE w' = [count |-> 0, resets |-> 0]
      BY <3>2 DEF WindowHeld
    <3> QED
      BY <2>1, <3>1, <3>2
  <2>3. OpenHeld(lim, k, p)'
    <3> DEFINE late(t) == Latest(t, Began(w, lim))
    <3> SUFFICES ASSUME NEW t \in 0 .. now
                 PROVE  Cardinality(Passed(lim, k, t .. Horizon, {p})) <=
                          Room(lim, Spans(lim, t, late(t)))' + Least(w.count, Limit[lim])'
      BY <1>2, <1>3 DEF OpenHeld
    <3> DEFINE b == late(t)
    <3>1. /\ b \in Nat /\ t <= b /\ b <= now /\ Spans(lim, t, b) \in Nat
          /\ t \in Nat /\ now \in Nat
      BY <1>1, <1>8, BeganTyped, LocalTyped
    <3>2. Cardinality(Passed(lim, k, t .. Horizon, {p})) <=
            Room(lim, Spans(lim, t, b)) + Least(w.count, Limit[lim])
      BY <1>8, Zenon DEF OpenHeld
    <3>3. Cardinality(Passed(lim, k, t .. Horizon, {p})) \in Nat
      <4>1. t .. Horizon \in SUBSET (0 .. Horizon)
        BY <3>1
      <4> QED
        BY <1>1, <4>1, FewerPassed
    <3>4. Least(w.count, Limit[lim]) \in Nat /\ Least(w.count, Limit[lim]) <= Limit[lim]
          /\ Limit[lim] \in Nat
      BY <1>1, LocalTyped DEF Least
    <3>5. CASE w' = w
      <4>1. b' = b /\ Least(w.count, Limit[lim])' = Least(w.count, Limit[lim])
        BY <1>2, <3>5 DEF Began, Latest, Least
      <4>2. Room(lim, Spans(lim, t, b))' = Room(lim, Spans(lim, t, b)) + Limit[lim]
            /\ Room(lim, Spans(lim, t, b)) \in Nat
        <5> PICK n \in Nat : n = Spans(lim, t, b)
          BY <3>1
        <5>1. Room(lim, Spans(lim, t, b))' = Room(lim, n)'
          BY <4>1 DEF Room, Spans
        <5> QED
          BY <1>7, <5>1
      <4> QED
        BY <3>2, <3>3, <3>4, <4>1, <4>2
    <3>6. CASE w' = [count |-> 0, resets |-> 0]
      <4>1. b' = now /\ Least(w.count, Limit[lim])' = 0
        BY <1>2, <3>1, <3>4, <3>6 DEF Began, Latest, Least
      <4>2. Room(lim, Spans(lim, t, b))' = Room(lim, Spans(lim, t, now))'
        BY <1>2, <4>1 DEF Room, Spans
      <4> PICK m \in Nat : m = b
        BY <3>1
      <4>3. Spans(lim, t, m) <= Spans(lim, t, now) /\ Spans(lim, t, now) \in Nat
            /\ Spans(lim, t, m) \in Nat
        BY <3>1, SpanFacts
      <4>4. Room(lim, Spans(lim, t, m)) \in Nat
            /\ Room(lim, Spans(lim, t, m)) <= Room(lim, Spans(lim, t, now))
        BY <1>1, <4>3, RoomFacts
      <4>5. Room(lim, Spans(lim, t, now))' = Room(lim, Spans(lim, t, now)) + Limit[lim]
            /\ Room(lim, Spans(lim, t, now)) \in Nat
        <5> PICK n \in Nat : n = Spans(lim, t, now)
          BY <4>3
        <5>1. Room(lim, Spans(lim, t, now))' = Room(lim, n)'
          BY <1>2 DEF Room, Spans
        <5> QED
          BY <1>7, <5>1
      <4>6. Cardinality(Passed(lim, k, t .. Horizon, {p})) <=
              Room(lim, Spans(lim, t, m)) + Least(w.count, Limit[lim])
        BY <3>2
      <4>7. Cardinality(Passed(lim, k, t .. Horizon, {p})) <= Room(lim, Spans(lim, t, now))'
        BY <3>3, <3>4, <4>4, <4>5, <4>6
      <4>8. Cardinality(Passed(lim, k, t .. Horizon, {p})) <= Room(lim, Spans(lim, t, b))' + 0
        BY <3>3, <3>4, <4>2, <4>5, <4>7
      <4> QED
        BY <4>1, <4>8
    <3> QED
      BY <2>1, <3>5, <3>6
  <2>4. ClosedHeld(lim, k, p)'
    <3> SUFFICES ASSUME NEW t \in 0 .. Horizon, NEW u \in 0 .. Horizon, t <= u, u < now
                 PROVE  Cardinality(Passed(lim, k, t .. u, {p})) <= Room(lim, 1 + Spans(lim, t, u))'
      BY <1>2, <1>3 DEF ClosedHeld
    <3> PICK n \in Nat : n = 1 + Spans(lim, t, u)
      BY SpanFacts
    <3>1. Room(lim, 1 + Spans(lim, t, u))' = Room(lim, n)'
      BY DEF Room, Spans
    <3>2. Cardinality(Passed(lim, k, t .. u, {p})) <= Room(lim, n)
      BY <1>8, Zenon DEF ClosedHeld
    <3>3. Cardinality(Passed(lim, k, t .. u, {p})) \in Nat
      <4>1. t .. u \in SUBSET (0 .. Horizon)
        BY FrontAssumption
      <4> QED
        BY <1>1, <4>1, FewerPassed
    <3>4. Room(lim, n)' = Room(lim, n) + Limit[lim] /\ Limit[lim] \in Nat /\ Room(lim, n) \in Nat
      BY <1>7
    <3> QED
      BY <3>1, <3>2, <3>3, <3>4
  <2> QED
    BY <2>2, <2>3, <2>4
<1> QED
  BY <1>1, <1>2, <1>4, <1>5, <1>6, <1>8 DEF LimitInv

\* When the clock moves on, nobody has passed in the moment that begins.
LEMMA LimitTick == LimitInv /\ TypeOK' /\ Asked' /\ Tick => LimitInv'
<1> SUFFICES ASSUME LimitInv, TypeOK', Asked', Tick PROVE LimitInv'
  OBVIOUS
<1>1. TypeOK /\ PassesKnown /\ CountsFinite
  BY DEF LimitInv
<1>2. /\ UNCHANGED <<deploy, loop, ask, pc, local, passed, left>>
      /\ now \in Nat /\ now < Horizon /\ now' = now + 1 /\ Horizon \in Nat
  BY <1>1, FrontAssumption DEF Tick, TypeOK
<1>3. ASSUME NEW lim \in Limiters, NEW k, NEW T, NEW A
      PROVE  Passed(lim, k, T, A)' = Passed(lim, k, T, A)
  BY <1>1, <1>2, <1>3, SamePassed
<1>4. PassesKnown'
  <2>1. passed \in [Requests -> [Limiters -> 0 .. Never]]
    BY <1>1 DEF TypeOK
  <2> QED
    BY <1>1, <1>2, <2>1, FrontAssumption DEF PassesKnown, Never
<1>5. CountsFinite'
  BY <1>1, <1>3 DEF CountsFinite
<1>6. ASSUME NEW lim \in Limiters, NEW k \in Keys, SharedHeld(lim, k) PROVE SharedHeld(lim, k)'
  <2> SUFFICES ASSUME NEW t \in 0 .. Horizon
               PROVE  Cardinality(Passed(lim, k, WindowOf(lim, t), Processes)) <=
                        (Errors - left.error) +
                          IF Bucket(lim, t) = Bucket(lim, now + 1)
                          THEN Least(shared'[lim][k], Limit[lim]) ELSE Limit[lim]
    <3>1. \A t : Passed(lim, k, WindowOf(lim, t), Processes)' = Passed(lim, k, WindowOf(lim, t), Processes)
      BY <1>3
    <3> QED
      BY <1>2, <3>1 DEF SharedHeld, Bucket, Least, WindowOf
  <2>1. /\ Errors - left.error \in Nat /\ Limit[lim] \in Nat /\ shared[lim][k] \in Nat
        /\ Window[lim] \in Nat \ {0}
    BY <1>1, FrontAssumption DEF TypeOK
  <2>2. Cardinality(Passed(lim, k, WindowOf(lim, t), Processes)) \in Nat
    BY <1>1, FewerPassed DEF WindowOf
  <2>3. Cardinality(Passed(lim, k, WindowOf(lim, t), Processes)) <=
          (Errors - left.error) + IF Bucket(lim, t) = Bucket(lim, now)
                                  THEN Least(shared[lim][k], Limit[lim]) ELSE Limit[lim]
    BY <1>6 DEF SharedHeld
  <2>4. Least(shared[lim][k], Limit[lim]) \in Nat /\ Least(shared[lim][k], Limit[lim]) <= Limit[lim]
    BY <2>1 DEF Least
  <2>5. CASE Bucket(lim, t) # Bucket(lim, now + 1)
    BY <2>1, <2>2, <2>3, <2>4, <2>5
  <2>6. CASE Bucket(lim, t) = Bucket(lim, now + 1) /\ Bucket(lim, now + 1) = Bucket(lim, now)
    <3>1. shared'[lim][k] = shared[lim][k]
      BY <2>6 DEF Tick
    <3> QED
      BY <2>3, <2>6, <3>1
  <2>7. CASE Bucket(lim, t) = Bucket(lim, now + 1) /\ Bucket(lim, now + 1) # Bucket(lim, now)
    <3>1. shared'[lim][k] = 0
      BY <2>7 DEF Tick
    <3>2. ASSUME NEW u \in WindowOf(lim, t) PROVE now < u
      <4>1. u \in Nat /\ Bucket(lim, u) = Bucket(lim, now + 1)
        BY <2>7 DEF WindowOf
      <4>2. u <= now => Bucket(lim, u) <= Bucket(lim, now) /\ Bucket(lim, u) \in Nat
        BY <1>2, <2>1, <4>1, DivisionFacts DEF Bucket
      <4>3. Bucket(lim, now) <= Bucket(lim, now + 1) /\ Bucket(lim, now) \in Nat
            /\ Bucket(lim, now + 1) \in Nat
        <5>1. now + 1 \in Nat /\ now <= now + 1 /\ now + 1 <= now + 1
          BY <1>2
        <5> QED
          BY <1>2, <2>1, <5>1, DivisionFacts DEF Bucket
      <4> QED
        BY <1>2, <2>7, <4>1, <4>2, <4>3
    <3>3. Cardinality(Passed(lim, k, WindowOf(lim, t), Processes)) = 0
      <4>1. WindowOf(lim, t) \in SUBSET (0 .. Horizon)
        BY DEF WindowOf
      <4> QED
        BY <1>1, <3>2, <4>1, NobodyYet
    <3> QED
      BY <2>1, <2>7, <3>1, <3>3 DEF Least
  <2> QED
    BY <2>5, <2>6, <2>7
<1>7. ASSUME NEW lim \in Limiters, NEW n \in Nat
      PROVE  Room(lim, n)' = Room(lim, n) /\ Room(lim, n) \in Nat /\ Limit[lim] \in Nat
  BY <1>1, <1>2, RoomFacts
<1>8. ASSUME NEW lim \in Limiters, NEW k \in Keys, NEW p \in Processes,
             WindowHeld(lim, k, p), OpenHeld(lim, k, p), ClosedHeld(lim, k, p)
      PROVE  (WindowHeld(lim, k, p) /\ OpenHeld(lim, k, p) /\ ClosedHeld(lim, k, p))'
  <2> DEFINE w == local[p][lim][k]
             late(t) == Latest(t, Began(w, lim))
  <2>1. WindowHeld(lim, k, p)'
    <3>1. \A r \in Passed(lim, k, 0 .. Horizon, {p})' : r \in Passed(lim, k, 0 .. Horizon, {p})
      BY <1>3
    <3>2. Window[lim] \in Nat /\ w.resets \in Nat
      BY <1>1, LocalTyped
    <3>3. w' = w /\ passed' = passed /\ now' = now + 1 /\ now \in Nat
      BY <1>2
    <3>4. /\ w.count = 0 => w.resets = 0
          /\ w.count > 0 => Window[lim] <= w.resets /\ w.resets <= now' + Window[lim]
      BY <1>8, <3>2, <3>3 DEF WindowHeld
    <3>5. w.count > 0 => \A r \in Passed(lim, k, 0 .. Horizon, {p})' : passed[r][lim] < w.resets
      BY <1>8, <3>1, Zenon DEF WindowHeld
    <3> QED
      BY <3>3, <3>4, <3>5, Zenon DEF WindowHeld
  <2>2. OpenHeld(lim, k, p)'
    <3> SUFFICES ASSUME NEW t \in 0 .. (now + 1)
                 PROVE  Cardinality(Passed(lim, k, t .. Horizon, {p})) <=
                          Room(lim, Spans(lim, t, late(t)))' + Least(w.count, Limit[lim])
      BY <1>2, <1>3 DEF OpenHeld, Least
    <3>1. Least(w.count, Limit[lim]) \in Nat /\ Limit[lim] \in Nat
      BY <1>1, LocalTyped DEF Least
    <3>2. PICK n \in Nat : Room(lim, Spans(lim, t, late(t)))' = Room(lim, n)'
                           /\ n = Spans(lim, t, late(t)')
      <4>1. late(t)' \in Nat /\ t <= late(t)' /\ t \in Nat
        <5>1. WindowHeld(lim, k, p)' /\ TypeOK' /\ t \in 0 .. now'
          BY <1>2, <2>1
        <5>2. Began(w, lim)' \in Nat
          BY <1>1, <1>2, <1>8, LocalTyped DEF Began, WindowHeld
        <5> QED
          BY <5>2, <1>2 DEF Latest
      <4>2. Spans(lim, t, late(t)') \in Nat
        BY <4>1, SpanFacts
      <4> QED
        BY <4>2 DEF Room, Spans
    <3>3. CASE t = now + 1
      <4>1. Cardinality(Passed(lim, k, t .. Horizon, {p})) = 0
        <5>1. t .. Horizon \in SUBSET (0 .. Horizon) /\ \A x \in t .. Horizon : now < x
          BY <1>2, <3>3
        <5> QED
          BY <1>1, <5>1, NobodyYet
      <4>2. Room(lim, n)' \in Nat
        BY <1>7
      <4> QED
        BY <3>1, <3>2, <4>1, <4>2
    <3>4. CASE t \in 0 .. now
      <4>1. /\ late(t) \in Nat /\ t <= late(t) /\ Spans(lim, t, late(t)) \in Nat /\ t \in Nat
        BY <1>1, <1>2, <1>8, <3>4, BeganTyped
      <4>2. late(t)' \in Nat /\ late(t) <= late(t)'
        BY <1>1, <1>2, <1>8, <3>4, LocalTyped DEF Began, WindowHeld, Latest
      <4>3. Spans(lim, t, late(t)) <= n
        <5> PICK a \in Nat, b \in Nat : a = late(t) /\ b = late(t)'
          BY <4>1, <4>2
        <5>1. Spans(lim, t, a) <= Spans(lim, t, b)
          BY <4>1, <4>2, SpanFacts
        <5> QED
          BY <3>2, <5>1
      <4>4. Room(lim, Spans(lim, t, late(t))) \in Nat
            /\ Room(lim, Spans(lim, t, late(t))) <= Room(lim, n)
        BY <1>1, <4>1, <4>3, RoomFacts
      <4>5. Cardinality(Passed(lim, k, t .. Horizon, {p})) <=
              Room(lim, Spans(lim, t, late(t))) + Least(w.count, Limit[lim])
        BY <1>8, <3>4, Zenon DEF OpenHeld
      <4>6. Cardinality(Passed(lim, k, t .. Horizon, {p})) \in Nat
        <5>1. t .. Horizon \in SUBSET (0 .. Horizon)
          BY <4>1
        <5> QED
          BY <1>1, <5>1, FewerPassed
      <4>7. Room(lim, n)' = Room(lim, n) /\ Room(lim, n) \in Nat
        BY <1>7
      <4>8. Cardinality(Passed(lim, k, t .. Horizon, {p})) <= Room(lim, n)' + Least(w.count, Limit[lim])
        BY <3>1, <4>4, <4>5, <4>6, <4>7
      <4> QED
        BY <3>2, <4>8
    <3> QED
      BY <1>2, <3>3, <3>4
  <2>3. ClosedHeld(lim, k, p)'
    <3> SUFFICES ASSUME NEW t \in 0 .. Horizon, NEW u \in 0 .. Horizon, t <= u, u < now + 1
                 PROVE  Cardinality(Passed(lim, k, t .. u, {p})) <= Room(lim, 1 + Spans(lim, t, u))'
      BY <1>2, <1>3 DEF ClosedHeld
    <3> PICK n \in Nat : n = 1 + Spans(lim, t, u)
      BY SpanFacts
    <3>1. Room(lim, 1 + Spans(lim, t, u))' = Room(lim, n)'
      BY DEF Room, Spans
    <3>2. Cardinality(Passed(lim, k, t .. u, {p})) <= Room(lim, 1 + Spans(lim, t, u))
      <4>1. CASE u < now
        BY <1>8, <4>1, Zenon DEF ClosedHeld
      <4>2. CASE now <= u
        BY <1>1, <1>8, <4>2, OpenBound
      <4> QED
        BY <1>2, <4>1, <4>2
    <3> QED
      BY <1>7, <3>1, <3>2
  <2> QED
    BY <2>1, <2>2, <2>3
<1> QED
  BY <1>1, <1>2, <1>4, <1>5, <1>6, <1>8 DEF LimitInv

\* A limiter that is asked lets in one more, and counts him where it counts.
LEMMA LimitCheck ==
  ASSUME LimitInv, TypeOK', Asked', NEW r \in Requests, NEW lim \in Limiters,
         NEW ok \in BOOLEAN, Check(r, lim, ok), UNCHANGED <<deploy, now, ask>>,
         pc[r] # "new", \A q \in Requests : pc[q] # "new" => pc'[q] # "new"
  PROVE  LimitInv'
<1>1. /\ TypeOK /\ PassesKnown /\ CountsFinite /\ ask[r] \in Asks
      /\ now \in Nat /\ now <= Horizon /\ Horizon \in Nat
  BY FrontAssumption DEF LimitInv, Asked, TypeOK
<1>2. Key(r, lim) \in Keys /\ ask[r].at \in Processes
  BY <1>1 DEF Key, Keys, Asks
<1>3. /\ passed' = IF ok THEN [passed EXCEPT ![r][lim] = now] ELSE passed
      /\ passed \in [Requests -> [Limiters -> 0 .. Never]]
      /\ shared \in [Limiters -> [Keys -> Nat]]
      /\ local \in [Processes -> [Limiters -> [Keys -> [count : Nat, resets : Nat]]]]
      /\ left \in [crash : 0 .. Crashes, error : 0 .. Errors]
  BY <1>1 DEF Check, TypeOK
<1>4. PassesKnown'
  BY <1>1, <1>3 DEF PassesKnown
<1>5. CountsFinite'
  <2>1. 0 .. Horizon \in SUBSET (0 .. Horizon) /\ Processes \in SUBSET Processes
    OBVIOUS
  <2> QED
    BY <1>1, <2>1, CheckPassed DEF CountsFinite
<1>6. /\ left'.crash = left.crash /\ left.error \in Nat /\ left'.error \in Nat
      /\ left'.error <= left.error /\ left'.error \in 0 .. Errors /\ Errors \in Nat
  BY <1>1, <1>3, FrontAssumption DEF Check, TypeOK
<1>7. ASSUME NEW l \in Limiters, NEW k \in Keys, Limit[l] > 0, deploy.redis, SharedHeld(l, k)
      PROVE  SharedHeld(l, k)'
  <2> SUFFICES ASSUME NEW t \in 0 .. Horizon
               PROVE  Cardinality(Passed(l, k, WindowOf(l, t), Processes)') <=
                        (Errors - left'.error) +
                          IF Bucket(l, t) = Bucket(l, now)
                          THEN Least(shared'[l][k], Limit[l]) ELSE Limit[l]
    BY DEF SharedHeld, Bucket, Least, WindowOf
  <2> DEFINE P == Passed(l, k, WindowOf(l, t), Processes)
  <2>1. /\ Cardinality(P) \in Nat /\ Cardinality(P') \in Nat
        /\ Cardinality(P') <= Cardinality(P) + 1
        /\ ~LetIn(r, lim, ok, l, k, WindowOf(l, t), Processes) => Cardinality(P') <= Cardinality(P)
    <3>1. WindowOf(l, t) \in SUBSET (0 .. Horizon) /\ Processes \in SUBSET Processes
      BY DEF WindowOf
    <3>2. Cardinality(P) \in Nat
      BY <1>1, <3>1, FewerPassed
    <3> QED
      BY <1>1, <3>1, <3>2, CheckPassed
  <2>2. Cardinality(P) <= (Errors - left.error) +
          IF Bucket(l, t) = Bucket(l, now) THEN Least(shared[l][k], Limit[l]) ELSE Limit[l]
    BY <1>7 DEF SharedHeld
  <2> HIDE DEF P
  <2>3. /\ shared[l][k] \in Nat /\ shared'[l][k] \in Nat /\ Limit[l] \in Nat
        /\ shared[l][k] <= shared'[l][k]
    <3>1. shared' = shared \/ shared' = [shared EXCEPT ![lim][Key(r, lim)] = shared[lim][Key(r, lim)] + 1]
      BY DEF Check, CheckRedis, CheckLocal
    <3>2. Limit[l] \in Nat /\ shared[l][k] \in Nat
      BY <1>3, FrontAssumption
    <3>3. CASE l = lim /\ k = Key(r, lim) /\ shared' # shared
      <4> PICK m \in Nat : m = shared[l][k]
        BY <3>2
      <4>1. shared' = [shared EXCEPT ![l][k] = m + 1]
        BY <3>1, <3>3
      <4>2. shared'[l][k] = m + 1
        BY <1>3, <4>1
      <4> QED
        BY <3>2, <4>2
    <3>4. CASE ~(l = lim /\ k = Key(r, lim)) \/ shared' = shared
      <4>1. shared'[l][k] = shared[l][k]
        BY <1>2, <1>3, <3>1, <3>4
      <4> QED
        BY <3>2, <4>1
    <3> QED
      BY <3>3, <3>4
  <2> DEFINE a == Least(shared[l][k], Limit[l])
             b == Least(shared'[l][k], Limit[l])
  <2>6. a \in Nat /\ b \in Nat /\ a <= b /\ b <= Limit[l]
    BY <2>3 DEF Least
  <2> HIDE DEF a, b
  <2>4. CASE ~LetIn(r, lim, ok, l, k, WindowOf(l, t), Processes)
    <3>1. Errors - left.error <= Errors - left'.error /\ Errors - left.error \in Nat
          /\ Errors - left'.error \in Nat
      BY <1>1, <1>3, <1>6
    <3>2. Cardinality(P') <= Cardinality(P)
      BY <2>1, <2>4
    <3> QED
      BY <2>1, <2>2, <2>3, <2>6, <3>1, <3>2 DEF a, b, P
  <2>5. CASE LetIn(r, lim, ok, l, k, WindowOf(l, t), Processes)
    <3>1. ok /\ l = lim /\ k = Key(r, lim) /\ Bucket(l, t) = Bucket(l, now)
      BY <2>5 DEF LetIn, WindowOf
    <3>2. CASE CheckRedis(r, lim, ok) /\ UNCHANGED left
      <4>1. shared'[l][k] = shared[l][k] + 1 /\ shared[l][k] + 1 <= Limit[l]
        BY <1>2, <1>3, <3>1, <3>2 DEF CheckRedis
      <4>2. b = a + 1 /\ left' = left
        BY <2>3, <3>2, <4>1 DEF Least, a, b
      <4>3. Cardinality(P) <= (Errors - left.error) + a
        BY <2>2, <3>1 DEF a
      <4>4. Cardinality(P') <= (Errors - left.error) + a + 1
        BY <1>6, <2>1, <2>6, <4>3
      <4> QED
        BY <1>6, <2>6, <3>1, <4>2, <4>4 DEF b, P
    <3>3. CASE left.error > 0 /\ left' = [left EXCEPT !.error = @ - 1]
      <4>1. left'.error = left.error - 1
        BY <1>3, <3>3
      <4>2. Cardinality(P) <= (Errors - left.error) + a
        BY <2>2, <3>1 DEF a
      <4>3. Cardinality(P') <= (Errors - left'.error) + a
        BY <1>6, <2>1, <2>6, <4>1, <4>2
      <4>4. Cardinality(P') <= (Errors - left'.error) + b
        BY <1>6, <2>1, <2>6, <4>3
      <4> QED
        BY <3>1, <4>4 DEF b, P
    <3> QED
      <4>1. \/ CheckRedis(r, lim, ok) /\ UNCHANGED left
            \/ left.error > 0 /\ left' = [left EXCEPT !.error = @ - 1]
        <5>1. Limit[lim] # 0
          BY <1>7, <3>1, FrontAssumption
        <5>2. CASE Limit[lim] > 0 /\ deploy.redis /\ CheckRedis(r, lim, ok) /\ UNCHANGED left
          BY <5>2
        <5>3. CASE /\ left.error > 0
                   /\ left' = IF deploy.redis THEN [left EXCEPT !.error = @ - 1] ELSE left
          BY <1>7, <5>3
        <5> QED
          BY <1>7, <5>1, <5>2, <5>3, Zenon DEF Check
      <4> QED
        BY <3>2, <3>3, <4>1
  <2> QED
    BY <2>4, <2>5
<1>8. ASSUME NEW l \in Limiters, NEW n \in Nat
      PROVE  Room(l, n)' = Room(l, n) /\ Room(l, n) \in Nat /\ Limit[l] \in Nat
  BY <1>1, <1>6, RoomFacts
<1>9. ASSUME NEW l \in Limiters, NEW k \in Keys, NEW p \in Processes, ClosedHeld(l, k, p)
      PROVE  ClosedHeld(l, k, p)'
  <2> SUFFICES ASSUME NEW t \in 0 .. Horizon, NEW u \in 0 .. Horizon, t <= u, u < now
               PROVE  Cardinality(Passed(l, k, t .. u, {p})') <= Room(l, 1 + Spans(l, t, u))'
    BY DEF ClosedHeld
  <2> PICK n \in Nat : n = 1 + Spans(l, t, u)
    BY SpanFacts
  <2>1. Room(l, 1 + Spans(l, t, u))' = Room(l, n)'
    BY DEF Room, Spans
  <2>2. Cardinality(Passed(l, k, t .. u, {p})) <= Room(l, n)
    BY <1>9, Zenon DEF ClosedHeld
  <2>3. t .. u \in SUBSET (0 .. Horizon) /\ now \notin t .. u /\ {p} \in SUBSET Processes
    BY <1>1
  <2>4. /\ Cardinality(Passed(l, k, t .. u, {p})') <= Cardinality(Passed(l, k, t .. u, {p}))
        /\ Cardinality(Passed(l, k, t .. u, {p})') \in Nat
        /\ Cardinality(Passed(l, k, t .. u, {p})) \in Nat
    BY <1>1, <2>3, CheckPassed, FewerPassed DEF LetIn
  <2> QED
    BY <1>8, <2>1, <2>2, <2>4

<1>10. ASSUME NEW l \in Limiters, NEW k \in Keys, NEW p \in Processes, Limit[l] > 0, ~deploy.redis,
              WindowHeld(l, k, p), OpenHeld(l, k, p)
       PROVE  (WindowHeld(l, k, p) /\ OpenHeld(l, k, p))'
  <2> DEFINE w == local[p][l][k]
             late(t) == Latest(t, Began(w, l))
  <2>1. /\ w \in [count : Nat, resets : Nat] /\ w.count \in Nat /\ w.resets \in Nat
        /\ Limit[l] \in Nat /\ Window[l] \in Nat \ {0}
    BY <1>1, LocalTyped
  <2>2. /\ w.count = 0 => w.resets = 0
        /\ w.count > 0 => Window[l] <= w.resets /\ w.resets <= now + Window[l]
        /\ w.count > 0 => \A q \in Passed(l, k, 0 .. Horizon, {p}) : passed[q][l] < w.resets
    BY <1>10, Zenon DEF WindowHeld
  <2>3. ASSUME NEW T \in SUBSET (0 .. Horizon)
        PROVE  /\ Cardinality(Passed(l, k, T, {p})) \in Nat
               /\ Cardinality(Passed(l, k, T, {p})') \in Nat
               /\ Cardinality(Passed(l, k, T, {p})') <= Cardinality(Passed(l, k, T, {p})) + 1
               /\ ~LetIn(r, lim, ok, l, k, T, {p}) =>
                    Cardinality(Passed(l, k, T, {p})') <= Cardinality(Passed(l, k, T, {p}))
    <3>1. {p} \in SUBSET Processes
      OBVIOUS
    <3> QED
      BY <1>1, <3>1, CheckPassed, FewerPassed
  <2>4. ASSUME NEW t \in 0 .. now
        PROVE  /\ late(t) \in Nat /\ t <= late(t) /\ late(t) <= now /\ Spans(l, t, late(t)) \in Nat
               /\ t \in Nat /\ t .. Horizon \in SUBSET (0 .. Horizon)
               /\ Cardinality(Passed(l, k, t .. Horizon, {p})) <=
                    Room(l, Spans(l, t, late(t))) + Least(w.count, Limit[l])
    <3>1. late(t) \in Nat /\ t <= late(t) /\ late(t) <= now /\ Spans(l, t, late(t)) \in Nat
      BY <1>1, <1>10, BeganTyped
    <3>2. Cardinality(Passed(l, k, t .. Horizon, {p})) <=
            Room(l, Spans(l, t, late(t))) + Least(w.count, Limit[l])
      BY <1>10, Zenon DEF OpenHeld
    <3> QED
      BY <1>1, <3>1, <3>2
  <2>5. ASSUME NEW q \in Requests, q \in Passed(l, k, 0 .. Horizon, {p})'
        PROVE  /\ passed'[q][l] \in Nat /\ passed'[q][l] <= now
               /\ \/ q \in Passed(l, k, 0 .. Horizon, {p}) /\ passed'[q][l] = passed[q][l]
                  \/ q = r /\ ok /\ l = lim /\ passed'[q][l] = now
    <3>1. passed'[q][l] \in (0 .. Horizon) \ {Never}
      BY <2>5 DEF Passed
    <3>2. passed'[q][l] <= now
      BY <1>4, <3>1 DEF PassesKnown
    <3>3. q = r /\ ok /\ l = lim => passed'[q][l] = now
      BY <1>3
    <3>4. ~(q = r /\ ok /\ l = lim) => passed'[q][l] = passed[q][l]
      BY <1>3
    <3>5. Key(q, l)' = Key(q, l) /\ ask'[q].at = ask[q].at
      BY DEF Key
    <3>6. q \in Passed(l, k, 0 .. Horizon, {p}) \/ passed'[q][l] # passed[q][l]
      BY <2>5, <3>5 DEF Passed
    <3>7. passed'[q][l] \in Nat
      BY <1>1, <3>1
    <3>8. CASE q = r /\ ok /\ l = lim
      BY <3>2, <3>3, <3>7, <3>8
    <3>9. CASE ~(q = r /\ ok /\ l = lim)
      <4>1. passed'[q][l] = passed[q][l]
        BY <3>4, <3>9, Zenon
      <4>2. q \in Passed(l, k, 0 .. Horizon, {p})
        BY <3>6, <4>1, Zenon
      <4> QED
        BY <3>2, <3>7, <4>1, <4>2
    <3> QED
      BY <3>8, <3>9
  <2>6. CASE l # lim \/ k # Key(r, lim) \/ p # ask[r].at
    <3>1. w' = w
      <4>1. local' = local \/ \E v : local' = [local EXCEPT ![ask[r].at][lim][Key(r, lim)] = v]
        BY DEF Check, CheckRedis, CheckLocal
      <4>2. CASE local' = local
        BY <4>2
      <4>3. ASSUME NEW v, local' = [local EXCEPT ![ask[r].at][lim][Key(r, lim)] = v] PROVE w' = w
        BY <1>2, <1>3, <2>6, <4>3
      <4> QED
        BY <4>1, <4>2, <4>3
    <3>2. ASSUME NEW T \in SUBSET (0 .. Horizon) PROVE ~LetIn(r, lim, ok, l, k, T, {p})
      BY <2>6 DEF LetIn
    <3>3. ASSUME NEW q \in Requests, q \in Passed(l, k, 0 .. Horizon, {p})', w.count > 0
          PROVE  passed'[q][l] < w.resets
      <4>1. q \in Passed(l, k, 0 .. Horizon, {p})
        <5>1. 0 .. Horizon \in SUBSET (0 .. Horizon) /\ {p} \in SUBSET Processes
          OBVIOUS
        <5>2. Passed(l, k, 0 .. Horizon, {p})' \subseteq Passed(l, k, 0 .. Horizon, {p})
          BY <1>1, <3>2, <5>1, CheckPassed
        <5> QED
          BY <3>3, <5>2
      <4>2. passed[q][l] < w.resets
        BY <2>2, <3>3, <4>1
      <4>3. ask[q].at = p /\ Key(q, l) = k
        BY <4>1 DEF Passed
      <4>4. ~(q = r /\ l = lim)
        BY <2>6, <4>3
      <4> QED
        BY <2>5, <3>3, <4>2, <4>4
    <3>4. WindowHeld(l, k, p)'
      <4>1. Passed(l, k, 0 .. Horizon, {p})' \subseteq Requests
        BY DEF Passed
      <4>2. w.count > 0 => \A q \in Passed(l, k, 0 .. Horizon, {p})' : passed'[q][l] < w.resets
        BY <3>3, <4>1
      <4> QED
        BY <2>2, <3>1, <4>2, Zenon DEF WindowHeld
    <3>5. OpenHeld(l, k, p)'
      <4> SUFFICES ASSUME NEW t \in 0 .. now
                   PROVE  Cardinality(Passed(l, k, t .. Horizon, {p})') <=
                            Room(l, Spans(l, t, late(t)))' + Least(w.count, Limit[l])
        BY <3>1 DEF OpenHeld, Least
      <4> PICK n \in Nat : n = Spans(l, t, late(t))
        BY <2>4
      <4>1. Room(l, Spans(l, t, late(t)))' = Room(l, n)'
        BY <3>1 DEF Room, Spans, Latest, Began
      <4>2. Least(w.count, Limit[l]) \in Nat
        BY <2>1 DEF Least
      <4>3. Room(l, n)' = Room(l, n) /\ Room(l, n) \in Nat
        BY <1>8
      <4>4. t .. Horizon \in SUBSET (0 .. Horizon)
            /\ Cardinality(Passed(l, k, t .. Horizon, {p})) <= Room(l, n) + Least(w.count, Limit[l])
        BY <2>4
      <4>5. /\ Cardinality(Passed(l, k, t .. Horizon, {p})) \in Nat
            /\ Cardinality(Passed(l, k, t .. Horizon, {p})') \in Nat
            /\ Cardinality(Passed(l, k, t .. Horizon, {p})') <= Cardinality(Passed(l, k, t .. Horizon, {p}))
        BY <2>3, <3>2, <4>4
      <4> QED
        BY <4>1, <4>2, <4>3, <4>4, <4>5
    <3> QED
      BY <3>4, <3>5
  <2>7. CASE l = lim /\ k = Key(r, lim) /\ p = ask[r].at
    <3> DEFINE v == IF now >= w.resets
                    THEN [count |-> 1, resets |-> now + Window[l]]
                    ELSE [w EXCEPT !.count = @ + 1]
    <3>1. w' = v /\ ok = (v.count <= Limit[l])
      <4>1. CheckLocal(r, lim, ok)
        BY <1>10, <2>7 DEF Check
      <4>2. local' = [local EXCEPT ![p][l][k] = v]
        BY <2>7, <4>1 DEF CheckLocal
      <4>3. ok = (v.count <= Limit[l])
        BY <2>7, <4>1 DEF CheckLocal
      <4> HIDE DEF v
      <4>4. w' = v
        BY <1>3, <4>2
      <4> QED
        BY <4>3, <4>4
    <3>2. CASE now >= w.resets
      <4>1. v = [count |-> 1, resets |-> now + Window[l]]
        BY <3>2
      <4>2. w'.count = 1 /\ w'.resets = now + Window[l] /\ now < now + Window[l]
        BY <1>1, <2>1, <3>1, <4>1
      <4>3. WindowHeld(l, k, p)'
        <5>1. Passed(l, k, 0 .. Horizon, {p})' \subseteq Requests
          BY DEF Passed
        <5>2. \A q \in Passed(l, k, 0 .. Horizon, {p})' : passed'[q][l] < w'.resets
          <6> SUFFICES ASSUME NEW q \in Passed(l, k, 0 .. Horizon, {p})'
                       PROVE  passed'[q][l] < w'.resets
            OBVIOUS
          <6>1. passed'[q][l] \in Nat /\ passed'[q][l] <= now
            BY <2>5, <5>1
          <6> QED
            BY <1>1, <2>1, <4>2, <6>1
        <5>3. /\ w'.count > 0 /\ w'.count # 0
              /\ Window[l] <= w'.resets /\ w'.resets <= now' + Window[l]
          BY <1>1, <2>1, <4>2
        <5> QED
          BY <5>2, <5>3, Zenon DEF WindowHeld
      <4>4. OpenHeld(l, k, p)'
        <5> SUFFICES ASSUME NEW t \in 0 .. now
                     PROVE  Cardinality(Passed(l, k, t .. Horizon, {p})') <=
                              Room(l, Spans(l, t, late(t)))' + Least(w'.count, Limit[l])
          BY DEF OpenHeld, Least
        <5>1. Least(w'.count, Limit[l]) = 1
          BY <1>10, <2>1, <4>2 DEF Least
        <5>2. late(t)' = now
          BY <1>1, <2>1, <4>2 DEF Latest, Began
        <5>9. t \in Nat /\ t <= now /\ now <= now
          BY <1>1, <2>4
        <5> PICK n \in Nat : n = Spans(l, t, now)
          BY <1>1, <5>9, SpanFacts
        <5>3. Room(l, Spans(l, t, late(t)))' = Room(l, n)'
          BY <5>2 DEF Room, Spans
        <5>4. Room(l, n)' = Room(l, n) /\ Room(l, n) \in Nat
          BY <1>8
        <5> DEFINE c == Cardinality(Passed(l, k, t .. Horizon, {p}))
                   s == Spans(l, t, late(t))
        <5>5. /\ c \in Nat /\ Cardinality(Passed(l, k, t .. Horizon, {p})') \in Nat
              /\ Cardinality(Passed(l, k, t .. Horizon, {p})') <= c + 1
          BY <2>3, <2>4
        <5>6. /\ c <= Room(l, s) + Least(w.count, Limit[l]) /\ s \in Nat
              /\ Room(l, s) \in Nat /\ Room(l, s + 1) = Room(l, s) + Limit[l]
              /\ t \in Nat /\ t <= now
          <6>1. s \in Nat /\ s <= s /\ t \in Nat /\ t <= now
            BY <1>1, <2>4
          <6>2. Room(l, s) \in Nat /\ Room(l, s + 1) = Room(l, s) + Limit[l]
            BY <1>1, <6>1, RoomFacts
          <6> QED
            BY <2>4, <6>1, <6>2
        <5>7. Least(w.count, Limit[l]) \in Nat /\ Least(w.count, Limit[l]) <= Limit[l]
          BY <2>1 DEF Least
        <5>8. c <= Room(l, n)
          <6>1. CASE w.count = 0
            <7>1. late(t) = now /\ Least(w.count, Limit[l]) = 0
              BY <1>1, <2>1, <6>1 DEF Latest, Began, Least
            <7> QED
              BY <5>4, <5>5, <5>6, <7>1
          <6>2. CASE w.count > 0 /\ (t < now \/ t <= w.resets - Window[l])
            <7>1. /\ w.resets - Window[l] \in Nat /\ w.resets - Window[l] + Window[l] <= now
                  /\ late(t) = Latest(t, w.resets - Window[l])
              <8>1. w.resets - Window[l] \in Nat /\ w.resets - Window[l] + Window[l] <= now
                <9>1. Window[l] \in Nat /\ w.resets \in Nat /\ now \in Nat
                  BY <1>1, <2>1
                <9>2. Window[l] <= w.resets /\ w.resets <= now
                  BY <2>1, <2>2, <3>2, <6>2
                <9> HIDE DEF w
                <9> QED
                  BY <9>1, <9>2
              <8>2. Began(w, l) = w.resets - Window[l]
                BY <6>2 DEF Began
              <8> QED
                BY <8>1, <8>2
            <7>2. s + 1 <= n
              <8>1. CASE t <= w.resets - Window[l]
                <9> PICK m \in Nat : m = w.resets - Window[l]
                  BY <7>1
                <9>1. late(t) = m /\ m + Window[l] <= now /\ t <= m /\ m <= now
                  BY <1>1, <2>1, <7>1, <8>1 DEF Latest
                <9>2. Spans(l, t, m) + 1 <= Spans(l, t, now)
                  BY <1>1, <5>6, <9>1, SpanFacts
                <9> QED
                  BY <9>1, <9>2
              <8>2. CASE ~(t <= w.resets - Window[l])
                <9>1. late(t) = t /\ t < now
                  BY <5>6, <6>2, <7>1, <8>2 DEF Latest
                <9>2. Spans(l, t, t) = 0 /\ 1 <= Spans(l, t, now)
                  BY <1>1, <5>6, <9>1, SpanFacts
                <9> QED
                  BY <9>1, <9>2
              <8> QED
                BY <8>1, <8>2
            <7>3. Room(l, s + 1) <= Room(l, n) /\ Room(l, s + 1) \in Nat
              <8>1. s + 1 \in Nat
                BY <5>6
              <8> QED
                BY <1>1, <7>2, <8>1, RoomFacts
            <7> QED
              BY <2>1, <5>4, <5>5, <5>6, <5>7, <7>3
          <6>3. CASE w.count > 0 /\ ~(t < now \/ t <= w.resets - Window[l])
            <7>1. t = now
              BY <1>1, <5>6, <6>3
            <7>2. Passed(l, k, t .. Horizon, {p}) = {}
              <8> SUFFICES ASSUME NEW q \in Passed(l, k, t .. Horizon, {p}) PROVE FALSE
                OBVIOUS
              <8>1. q \in Passed(l, k, 0 .. Horizon, {p}) /\ passed[q][l] \in t .. Horizon
                BY <5>6 DEF Passed
              <8>2. passed[q][l] < w.resets
                BY <2>2, <6>3, <8>1
              <8> QED
                BY <1>1, <2>1, <3>2, <7>1, <8>1, <8>2
            <7>3. c = 0
              BY <7>2, FS_EmptySet
            <7> QED
              BY <5>4, <7>3
          <6> QED
            BY <2>1, <6>1, <6>2, <6>3
        <5> QED
          BY <5>1, <5>3, <5>4, <5>5, <5>8
      <4> QED
        BY <4>3, <4>4
    <3>3. CASE ~(now >= w.resets)
      <4>1. v = [w EXCEPT !.count = @ + 1]
        BY <3>3
      <4>2. w'.count = w.count + 1 /\ w'.resets = w.resets /\ w.count > 0 /\ now < w.resets
        <5>1. w'.count = w.count + 1 /\ w'.resets = w.resets
          BY <2>1, <3>1, <4>1
        <5>2. now < w.resets
          BY <1>1, <2>1, <3>3
        <5>3. w.count > 0
          BY <1>1, <2>1, <2>2, <5>2
        <5> QED
          BY <5>1, <5>2, <5>3
      <4>3. WindowHeld(l, k, p)'
        <5>1. Passed(l, k, 0 .. Horizon, {p})' \subseteq Requests
          BY DEF Passed
        <5>2. \A q \in Passed(l, k, 0 .. Horizon, {p})' : passed'[q][l] < w.resets
          <6> SUFFICES ASSUME NEW q \in Passed(l, k, 0 .. Horizon, {p})'
                       PROVE  passed'[q][l] < w.resets
            OBVIOUS
          <6>1. q \in Requests
            BY <5>1
          <6>2. CASE q \in Passed(l, k, 0 .. Horizon, {p}) /\ passed'[q][l] = passed[q][l]
            BY <2>2, <4>2, <6>2
          <6>3. CASE passed'[q][l] = now
            BY <4>2, <6>3
          <6> QED
            BY <2>5, <6>1, <6>2, <6>3
        <5>3. /\ w'.count > 0 /\ w'.count # 0
              /\ Window[l] <= w'.resets /\ w'.resets <= now' + Window[l]
          BY <2>1, <2>2, <4>2
        <5> QED
          BY <4>2, <5>2, <5>3, Zenon DEF WindowHeld
      <4>4. OpenHeld(l, k, p)'
        <5> SUFFICES ASSUME NEW t \in 0 .. now
                     PROVE  Cardinality(Passed(l, k, t .. Horizon, {p})') <=
                              Room(l, Spans(l, t, late(t)))' + Least(w'.count, Limit[l])
          BY DEF OpenHeld, Least
        <5> PICK n \in Nat : n = Spans(l, t, late(t))
          BY <2>4
        <5>1. late(t)' = late(t)
          BY <2>1, <4>2 DEF Latest, Began
        <5>2. Room(l, Spans(l, t, late(t)))' = Room(l, n)'
          BY <5>1 DEF Room, Spans
        <5>3. Room(l, n)' = Room(l, n) /\ Room(l, n) \in Nat
          BY <1>8
        <5> DEFINE c == Cardinality(Passed(l, k, t .. Horizon, {p}))
                   d == Cardinality(Passed(l, k, t .. Horizon, {p})')
                   m == Least(w.count, Limit[l])
                   e == Least(w'.count, Limit[l])
                   x == Room(l, n)
        <5>4. /\ c \in Nat /\ d \in Nat /\ x \in Nat /\ d <= c + 1
              /\ ~ok => d <= c
          BY <2>3, <2>4, <5>3 DEF LetIn
        <5>5. c <= x + m
          BY <2>4
        <5>6. m \in Nat /\ e \in Nat /\ m <= e
          BY <2>1, <4>2 DEF Least
        <5>7. ok => e = m + 1
          <6>1. ok => w.count + 1 <= Limit[l]
            BY <2>1, <3>1, <4>1
          <6> QED
            BY <2>1, <4>2, <6>1 DEF Least
        <5> HIDE DEF c, d, m, e, x
        <5>8. d <= x + e
          <6>1. CASE ok
            BY <5>4, <5>5, <5>6, <5>7, <6>1
          <6>2. CASE ~ok
            BY <5>4, <5>5, <5>6, <6>2
          <6> QED
            BY <6>1, <6>2
        <5> QED
          BY <5>2, <5>3, <5>8 DEF d, e, x
      <4> QED
        BY <4>3, <4>4
    <3> QED
      BY <3>2, <3>3
  <2> QED
    BY <2>6, <2>7
<1> QED
  BY <1>4, <1>5, <1>7, <1>9, <1>10 DEF LimitInv

LEMMA LimitStep == LimitInv /\ [Next]_vars => LimitInv'
<1> SUFFICES ASSUME LimitInv, [Next]_vars PROVE LimitInv'
  OBVIOUS
<1>1. /\ TypeOK /\ Asked /\ TypeOK' /\ Asked'
      /\ pc \in [Requests -> PCs] /\ ask \in [Requests -> Asks \cup {NoAsk}]
      /\ left \in [crash : 0 .. Crashes, error : 0 .. Errors]
  <2>1. TypeOK /\ Asked
    BY DEF LimitInv
  <2> QED
    BY <2>1, TypeStep DEF TypeOK
<1>2. ASSUME NEW r \in Requests, NEW s \in PCs \ {"new"}, pc' = [pc EXCEPT ![r] = s],
             UNCHANGED <<deploy, now, ask, shared, local, passed>>,
             left' = left \/ left' = [left EXCEPT !.error = @ - 1]
      PROVE  LimitInv'
  <2>1. \A q \in Requests : pc[q] # "new" => ask'[q] = ask[q] /\ pc'[q] # "new"
    BY <1>1, <1>2
  <2>2. left'.crash = left.crash /\ left'.error <= left.error
    BY <1>1, <1>2, FrontAssumption
  <2> QED
    BY <1>1, <1>2, <2>1, <2>2, LimitQuiet
<1>3. ASSUME NEW r \in Requests, Arrive(r) PROVE LimitInv'
  <2>1. \A q \in Requests : pc[q] # "new" => ask'[q] = ask[q] /\ pc'[q] # "new"
    BY <1>1, <1>3 DEF Arrive, To
  <2>2. UNCHANGED <<deploy, now, shared, local, passed, left>>
    BY <1>3 DEF Arrive, limits
  <2>3. left'.crash = left.crash /\ left'.error <= left.error
    BY <1>1, <2>2, FrontAssumption
  <2> QED
    BY <1>1, <2>1, <2>2, <2>3, LimitQuiet
<1>4. ASSUME NEW r \in Requests, NEW lim \in Limiters,
             NEW next \in {"global", "check"}, Limited(r, lim, next), pc[r] # "new"
      PROVE  LimitInv'
  <2>1. PICK ok \in BOOLEAN : Check(r, lim, ok)
          /\ IF ok THEN To(r, next) /\ UNCHANGED answer ELSE Say(r, 429)
    BY <1>4 DEF Limited
  <2>2. UNCHANGED <<deploy, now, ask>>
    BY <1>4 DEF Limited, Still
  <2>3. PICK s \in {"global", "check", "reply"} : pc' = [pc EXCEPT ![r] = s]
    BY <2>1 DEF To, Say
  <2>4. \A q \in Requests : pc[q] # "new" => pc'[q] # "new"
    BY <1>1, <2>3
  <2> QED
    BY <1>1, <1>4, <2>1, <2>2, <2>4, LimitCheck
<1>5. ASSUME NEW r \in Requests, Handle(r) PROVE LimitInv'
  <2>1. CASE Dispatch(r)
    <3>1. pc' = [pc EXCEPT ![r] = Entry(r)] /\ Entry(r) \in PCs \ {"new"}
      BY <2>1 DEF Dispatch, To, Entry, PCs
    <3>2. UNCHANGED <<deploy, now, ask, shared, local, passed, left>>
      BY <2>1 DEF Dispatch, limits
    <3> QED
      BY <1>2, <3>1, <3>2
  <2>2. CASE CheckLimit(r) \/ CheckGlobal(r)
    BY <1>4, <2>2 DEF CheckLimit, CheckGlobal, Limiters
  <2>3. CASE Validate(r)
    <3>1. PICK s \in {"reply", "settle", "record"} : pc' = [pc EXCEPT ![r] = s]
      BY <2>3 DEF Validate, To, Say, AfterCheck
    <3>2. UNCHANGED <<deploy, now, ask, shared, local, passed, left>>
      BY <2>3 DEF Validate, limits, Still
    <3> QED
      BY <1>2, <3>1, <3>2 DEF PCs
  <2>4. CASE Settle(r)
    <3>1. PICK s \in {"reply", "record"} : pc' = [pc EXCEPT ![r] = s]
      BY <2>4 DEF Settle, Granted, To, Say
    <3>2. UNCHANGED <<deploy, now, ask, shared, local, passed, left>>
      BY <2>4 DEF Settle, limits, Still
    <3> QED
      BY <1>2, <3>1, <3>2 DEF PCs
  <2>5. CASE Record(r) \/ Push(r) \/ Reply(r)
    <3>1. PICK s \in {"push", "reply", "done"} : pc' = [pc EXCEPT ![r] = s]
      BY <2>5 DEF Record, Push, Reply, To, Say
    <3>2. UNCHANGED <<deploy, now, ask, shared, local, passed, left>>
      BY <2>5 DEF Record, Push, Reply, limits, Still
    <3> QED
      BY <1>2, <3>1, <3>2 DEF PCs
  <2> QED
    BY <1>5, <2>1, <2>2, <2>3, <2>4, <2>5 DEF Handle
<1>6. ASSUME NEW r \in Requests, RedisError(r) PROVE LimitInv'
  <2>1. pc' = [pc EXCEPT ![r] = "reply"] /\ left' = [left EXCEPT !.error = @ - 1]
    BY <1>6 DEF RedisError, Say, To
  <2>2. UNCHANGED <<deploy, now, ask, shared, local, passed>>
    BY <1>6 DEF RedisError, limits, Still
  <2> QED
    BY <1>2, <2>1, <2>2 DEF PCs
<1>7. ASSUME UNCHANGED <<deploy, now, ask, pc, shared, local, passed, left>> PROVE LimitInv'
  <2>1. left'.crash = left.crash /\ left'.error <= left.error
    BY <1>1, <1>7, FrontAssumption
  <2> QED
    BY <1>1, <1>7, <2>1, LimitQuiet
<1>8. CASE (\E r \in Requests : Take(r)) \/ UNCHANGED vars
  BY <1>7, <1>8 DEF Take, vars, limits
<1>9. CASE \E p \in Processes : Restart(p)
  BY <1>1, <1>9, LimitRestart
<1>10. CASE Tick
  BY <1>1, <1>10, LimitTick
<1> QED
  BY <1>3, <1>5, <1>6, <1>8, <1>9, <1>10 DEF Next

\* However many requests and processes there are, and whatever restarts or
\* fails, a limiter lets no more than its limit through in a window that it
\* counts in Redis, but for the calls that fail, and at each process no more
\* than that in each window of its own (ratelimit.py, RateLimiter.check).
THEOREM LimitsHold == Spec => []LimitHeld
<1>1. Init => LimitInv
  BY LimitInit
<1>2. LimitInv /\ [Next]_vars => LimitInv'
  BY LimitStep
<1>3. LimitInv => LimitHeld
  BY LimitImplies
<1> QED
  BY <1>1, <1>2, <1>3, PTL DEF Spec
=============================================================================
