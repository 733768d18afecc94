--------------------------- MODULE PaymentProofs ---------------------------
(***************************************************************************)
(* Theorems about Payment, for any number of requests, authorizations and  *)
(* processes, any expiry, skew, grace and number of retries, and any       *)
(* number of restarts and failures.                                        *)
(***************************************************************************)
EXTENDS Payment, TLAPS

\* A request that has passed the header check has an authorization.
HasAuth == \A r \in Requests :
  Granted(r) \/ pc[r] \in {"verify", "precheck", "claim", "submit"} =>
    auth[r] \in Auths

TypeInv == TypeOK /\ HasAuth

LEMMA TypeInit == Init => TypeInv
  BY PaymentAssumption DEF Init, TypeInv, TypeOK, HasAuth, Granted, Running, Final

\* A refusal with a proper reason leaves the verifier and the request typed.
LEMMA RefusalTyped ==
  ASSUME TypeInv, NEW r \in Requests, NEW why \in Reasons, Refuse(r, why),
         UNCHANGED <<auth, proc>>
  PROVE  /\ pc' \in [Requests -> {"new"} \cup Running \cup Final]
         /\ error' \in [Processes -> Reasons \cup {None}]
         /\ receipt' \in [Processes -> Auths \cup {None}]
         /\ HasAuth'
<1>1. /\ pc' = [pc EXCEPT ![r] = "refuse"]
      /\ error' = [error EXCEPT ![proc[r]] = why]
      /\ receipt' = receipt
  BY DEF Refuse, Goto
<1>2. "refuse" \in Running
  BY DEF Running
<1>3. HasAuth'
  BY <1>1 DEF HasAuth, Granted, TypeInv, TypeOK
<1> QED
  BY <1>1, <1>2, <1>3 DEF TypeInv, TypeOK

LEMMA FaultTyped == TypeOK /\ Fault => faults' \in Nat
  BY DEF TypeOK, Fault

LEMMA EvictedTyped ==
  ASSUME TypeOK, NEW p \in Processes, NEW a \in Auths
  PROVE  Evicted(p, a) \in SUBSET Processes
  BY DEF TypeOK, Evicted

LEMMA TypeStep == TypeInv /\ [Next]_vars => TypeInv'
<1> SUFFICES ASSUME TypeInv, [Next]_vars PROVE TypeInv'
  OBVIOUS
<1> USE DEF TypeInv
<1>1. ASSUME NEW r \in Requests, TurnAway(r) PROVE TypeInv'
  BY <1>1 DEF TurnAway, request, verifier, chain, TypeOK, HasAuth, Granted,
     Running, Final, Goto
<1>2. ASSUME NEW r \in Requests, Arrive(r) PROVE TypeInv'
  <2> PICK a \in Auths \cup {None} :
        /\ auth' = [auth EXCEPT ![r] = a]
        /\ pc' = [pc EXCEPT ![r] = IF a = None THEN "refuse" ELSE "verify"]
        /\ error' = [error EXCEPT ![proc[r]] =
                       IF a = None THEN "no header" ELSE None]
    BY <1>2 DEF Arrive, Goto
  <2>1. TypeOK'
    <3>1. pc' \in [Requests -> {"new"} \cup Running \cup Final]
      BY DEF TypeOK, Running
    <3>2. error' \in [Processes -> Reasons \cup {None}]
      BY DEF TypeOK, Reasons
    <3> QED
      BY <1>2, <3>1, <3>2 DEF Arrive, TypeOK, chain
  <2>2. HasAuth'
    BY <1>2 DEF Arrive, chain, TypeOK, HasAuth, Granted, Goto
  <2> QED
    BY <2>1, <2>2
<1>3. ASSUME NEW r \in Requests, Verify(r) PROVE TypeInv'
  <2>1. CASE Goto(r, "precheck") /\ UNCHANGED verifier
    BY <1>3, <2>1 DEF Verify, TypeOK, HasAuth, Granted, Running, Goto, request,
                      verifier, chain
  <2>2. CASE Refuse(r, "invalid")
    BY <1>3, <2>2, RefusalTyped DEF Verify, Reasons, TypeOK, request, chain
  <2> QED
    BY <1>3, <2>1, <2>2 DEF Verify
<1>4. ASSUME NEW r \in Requests, Precheck(r) PROVE TypeInv'
  <2>1. CASE Goto(r, "claim") /\ UNCHANGED verifier
    BY <1>4, <2>1 DEF Precheck, TypeOK, HasAuth, Granted, Running, Goto, request,
                      verifier, chain
  <2>2. ASSUME NEW why \in {"unconfirmed", "unreachable"}, Refuse(r, why)
        PROVE TypeInv'
    <3>1. why \in Reasons
      BY DEF Reasons
    <3> QED
      BY <1>4, <2>2, <3>1, RefusalTyped DEF Precheck, TypeOK, request, chain
  <2> QED
    BY <1>4, <2>1, <2>2 DEF Precheck
<1>5. ASSUME NEW r \in Requests, ClaimMemory(r) PROVE TypeInv'
  <2>1. claims' \in [Auths -> SUBSET Processes]
    <3> DEFINE left == [a \in Auths |-> Evicted(proc[r], a)]
    <3>1. left \in [Auths -> SUBSET Processes] /\ proc[r] \in Processes
      BY EvictedTyped DEF TypeOK
    <3>2. claims' = left \/ claims' = [left EXCEPT ![auth[r]] = @ \cup {proc[r]}]
      BY <1>5 DEF ClaimMemory
    <3> HIDE DEF left
    <3> QED
      BY <3>1, <3>2
  <2>2. CASE Claimed(r)
    BY <1>5, <2>1, <2>2 DEF ClaimMemory, Claimed, TypeOK, HasAuth, Granted, Running,
                           Goto, request, verifier, chain
  <2>3. CASE NotClaimed(r)
    BY <1>5, <2>1, <2>3, RefusalTyped
    DEF ClaimMemory, NotClaimed, Reasons, TypeOK, request, chain
  <2> QED
    BY <1>5, <2>2, <2>3 DEF ClaimMemory
<1>6. ASSUME NEW r \in Requests, ClaimRedis(r) PROVE TypeInv'
  <2>1. claims' \in [Auths -> SUBSET Processes]
    BY <1>6 DEF ClaimRedis, TypeOK
  <2>2. CASE Claimed(r)
    BY <1>6, <2>1, <2>2 DEF ClaimRedis, Claimed, TypeOK, HasAuth, Granted, Running,
                           Goto, request, verifier, chain
  <2>3. CASE NotClaimed(r)
    BY <1>6, <2>1, <2>3, RefusalTyped
    DEF ClaimRedis, NotClaimed, Reasons, TypeOK, request, chain
  <2> QED
    BY <1>6, <2>2, <2>3 DEF ClaimRedis
<1>7. ASSUME NEW r \in Requests, ClaimFails(r) PROVE TypeInv'
  <2>1. claims' \in [Auths -> SUBSET Processes]
    BY <1>7 DEF ClaimFails, TypeOK
  <2> QED
    BY <1>7, <2>1, RefusalTyped, FaultTyped
    DEF ClaimFails, NotClaimed, Reasons, TypeOK, request, chain
<1>8. ASSUME NEW r \in Requests, Record(r) PROVE TypeInv'
  BY <1>8 DEF Record, Accept, request, verifier, chain, TypeOK, HasAuth, Granted,
     Running, Final, Goto
<1>9. ASSUME NEW r \in Requests, Settled(r) PROVE TypeInv'
  BY <1>9 DEF Settled, Accept, request, verifier, TypeOK, HasAuth, Granted,
     Running, Final, Goto
<1>10. ASSUME NEW r \in Requests, SettleRefused(r) PROVE TypeInv'
  BY <1>10, RefusalTyped DEF SettleRefused, Reasons, TypeOK, request, chain
<1>11. ASSUME NEW r \in Requests, SettleSilent(r) PROVE TypeInv'
  <2>1. tries' \in [Requests -> Nat] /\ limbo' \in SUBSET Auths
    BY <1>11 DEF SettleSilent, TypeOK, HasAuth
  <2>2. CASE UNCHANGED <<pc, verifier>>
    BY <1>11, <2>1, <2>2 DEF SettleSilent, TypeOK, HasAuth, Granted, request,
                             verifier
  <2>3. CASE Refuse(r, "unknown")
    BY <1>11, <2>1, <2>3, RefusalTyped DEF SettleSilent, Reasons, TypeOK, request
  <2> QED
    BY <1>11, <2>2, <2>3 DEF SettleSilent
<1>12. ASSUME NEW r \in Requests, AnswerRefusal(r) PROVE TypeInv'
  BY <1>12 DEF AnswerRefusal, request, verifier, chain, TypeOK, HasAuth, Granted,
     Running, Final, Goto
<1>13. ASSUME NEW r \in Requests, CreateJob(r) PROVE TypeInv'
  BY <1>13 DEF CreateJob, request, verifier, chain, TypeOK, HasAuth, Granted,
     Running, Final, Goto
<1>14. ASSUME NEW r \in Requests, TakeReceipt(r) PROVE TypeInv'
  BY <1>14 DEF TakeReceipt, request, verifier, chain, TypeOK, HasAuth, Granted,
     Running, Final, Goto
<1>15. ASSUME NEW r \in Requests, QueueJob(r) PROVE TypeInv'
  BY <1>15 DEF QueueJob, request, verifier, chain, TypeOK, HasAuth, Granted,
     Running, Final, Goto
<1>16. ASSUME NEW r \in Requests, JobFails(r) PROVE TypeInv'
  <2>1. TypeOK'
    BY <1>16, FaultTyped DEF JobFails, request, verifier, chain, TypeOK, HasAuth, Running, Final, Reasons, Goto
  <2>2. HasAuth'
    BY <1>16, FaultTyped DEF JobFails, request, verifier, chain, TypeOK, HasAuth, Granted, Goto
  <2> QED
    BY <2>1, <2>2
<1>17. ASSUME NEW a \in Auths, Execute(a) PROVE TypeInv'
  <2>1. TypeOK'
    BY <1>17 DEF Execute, request, verifier, TypeOK, HasAuth, Running, Final, Reasons, Goto
  <2>2. HasAuth'
    BY <1>17 DEF Execute, request, verifier, TypeOK, HasAuth, Granted, Goto
  <2> QED
    BY <2>1, <2>2
<1>18. ASSUME NEW p \in Processes, Restart(p) PROVE TypeInv'
  <2>1. TypeOK'
    <3>1. pc' \in [Requests -> {"new"} \cup Running \cup Final]
      BY <1>18 DEF Restart, TypeOK, Final
    <3>2. /\ error' \in [Processes -> Reasons \cup {None}]
          /\ receipt' \in [Processes -> Auths \cup {None}]
          /\ claims' \in [Auths -> SUBSET Processes]
      BY <1>18 DEF Restart, TypeOK
    <3> QED
      BY <1>18, <3>1, <3>2, FaultTyped DEF Restart, TypeOK, request, chain
  <2>2. HasAuth'
    BY <1>18 DEF Restart, request, chain, TypeOK, HasAuth, Granted, Goto
  <2> QED
    BY <2>1, <2>2
<1>19. CASE Tick
  <2>1. TypeOK'
    BY <1>19, PaymentAssumption DEF Tick, TypeOK, request, verifier, chain
  <2>2. HasAuth'
    BY <1>19 DEF Tick, HasAuth, Granted, request
  <2> QED
    BY <2>1, <2>2
<1>20. CASE UNCHANGED vars
  BY <1>20 DEF vars, request, verifier, chain, TypeOK, HasAuth, Granted
<1> QED
  BY <1>1, <1>2, <1>3, <1>4, <1>5, <1>6, <1>7, <1>8, <1>9, <1>10, <1>11, <1>12,
     <1>13, <1>14, <1>15, <1>16, <1>17, <1>18, <1>19, <1>20 DEF Next, Step

\* Payment's variables keep their types (PaymentAssumption is all it needs).
THEOREM TypeCorrect == Spec => []TypeOK
<1>1. Spec => []TypeInv
  BY TypeInit, TypeStep, PTL DEF Spec
<1> QED
  BY <1>1, PTL DEF TypeInv

LEMMA Typed == Spec => []TypeInv
  BY TypeInit, TypeStep, PTL DEF Spec

\* The environment does not change while the service runs.
LEMMA Deployed == [Next]_vars => UNCHANGED <<Store, OnChain>>
  BY DEF Next, Step, TurnAway, Arrive, Verify, Precheck, ClaimMemory, ClaimRedis,
     ClaimFails, Record, Settled, SettleRefused, SettleSilent, Execute, AnswerRefusal,
     CreateJob, TakeReceipt, QueueJob, JobFails, Restart, Tick, vars, request,
     Store, OnChain

-----------------------------------------------------------------------------
(* The nonce store.                                                         *)

\* What a request does after its claim leaves the claims alone.
LEMMA ClaimsKept ==
  ASSUME NEW r \in Requests,
         \/ Record(r) \/ Settled(r) \/ SettleRefused(r) \/ SettleSilent(r)
         \/ AnswerRefusal(r) \/ CreateJob(r) \/ TakeReceipt(r) \/ QueueJob(r)
         \/ JobFails(r) \/ TurnAway(r) \/ Arrive(r) \/ Verify(r) \/ Precheck(r)
  PROVE  UNCHANGED <<claims, spenders>>
  BY DEF Record, Settled, SettleRefused, SettleSilent, AnswerRefusal, CreateJob,
         TakeReceipt, QueueJob, JobFails, TurnAway, Arrive, Verify, Precheck

\* A spent authorization is claimed in Redis, and stays so.
SpentInv ==
  /\ TypeInv
  /\ Store = "redis" => \A a \in Auths : spenders[a] # {} => claims[a] # {}
  /\ SpentOnce

LEMMA SpentStep == SpentInv /\ [Next]_vars => SpentInv'
<1> SUFFICES ASSUME SpentInv, [Next]_vars PROVE SpentInv'
  OBVIOUS
<1>1. TypeInv' /\ Store' = Store
  BY TypeStep, Deployed DEF SpentInv
<1> SUFFICES ASSUME Store = "redis"
             PROVE  /\ \A a \in Auths : spenders'[a] # {} => claims'[a] # {}
                    /\ SpentOnce'
  BY <1>1 DEF SpentInv, SpentOnce
<1> DEFINE Once == /\ \A a \in Auths : spenders'[a] # {} => claims'[a] # {}
                   /\ \A a \in Auths : \A r, s \in spenders'[a] : r = s
<1> SUFFICES Once
  BY DEF SpentOnce
<1>2. CASE UNCHANGED <<claims, spenders>>
  BY <1>2 DEF SpentInv, SpentOnce
<1>3. ASSUME NEW r \in Requests, ClaimRedis(r) PROVE Once
  <2>1. auth[r] \in Auths /\ proc[r] \in Processes
    BY <1>3 DEF ClaimRedis, SpentInv, TypeInv, TypeOK, HasAuth
  <2>2. CASE now < Before[auth[r]] /\ ~KeyExists(auth[r])
    <3>1. claims[auth[r]] = {}
      BY <2>1, <2>2, PaymentAssumption
      DEF KeyExists, SpentInv, TypeInv, TypeOK
    <3>2. spenders[auth[r]] = {}
      BY <2>1, <3>1 DEF SpentInv
    <3>3. /\ claims' = [claims EXCEPT ![auth[r]] = Processes]
          /\ spenders' = [spenders EXCEPT ![auth[r]] = {r}]
      BY <1>3, <2>2, <3>2 DEF ClaimRedis, Claimed
    <3> QED
      BY <2>1, <3>3 DEF SpentInv, SpentOnce, TypeInv, TypeOK
  <2>3. CASE ~(now < Before[auth[r]] /\ ~KeyExists(auth[r]))
    BY <1>2, <1>3, <2>3 DEF ClaimRedis, NotClaimed
  <2> QED
    BY <2>2, <2>3
<1>4. ASSUME NEW r \in Requests, ClaimFails(r) PROVE Once
  <2>1. auth[r] \in Auths /\ proc[r] \in Processes
    BY <1>4 DEF ClaimFails, SpentInv, TypeInv, TypeOK, HasAuth
  <2>2. /\ UNCHANGED spenders
        /\ claims' = claims \/ claims' = [claims EXCEPT ![auth[r]] = Processes]
    BY <1>4 DEF ClaimFails, NotClaimed
  <2> QED
    BY <2>1, <2>2 DEF SpentInv, SpentOnce, TypeInv, TypeOK
<1>5. ASSUME NEW r \in Requests, ClaimMemory(r) PROVE FALSE
  BY <1>5 DEF ClaimMemory
<1>6. ASSUME NEW p \in Processes, Restart(p) PROVE UNCHANGED <<claims, spenders>>
  BY <1>6 DEF Restart, SpentInv, TypeInv, TypeOK
<1>7. Tick \/ (\E a \in Auths : Execute(a)) \/ UNCHANGED vars =>
        UNCHANGED <<claims, spenders>>
  BY DEF Tick, Execute, vars
<1> QED
  BY <1>2, <1>3, <1>4, <1>5, <1>6, <1>7, ClaimsKept DEF Next, Step

\* With the nonces in Redis one request, of all that ever present it, spends an
\* authorization, whatever processes restart, commands fail or clocks differ.
THEOREM NonceSpentOnce == Spec => []SpentOnce
<1>1. Init => SpentInv
  BY TypeInit DEF Init, SpentInv, SpentOnce
<1>2. SpentInv => SpentOnce
  BY DEF SpentInv
<1> QED
  BY <1>1, <1>2, SpentStep, PTL DEF Spec
-----------------------------------------------------------------------------
(* The money.                                                               *)

\* How a step can move a request: its authorization stays once it is there,
\* and its build is granted by Record or Settled only.
Kept(r)  == auth'[r] = auth[r] /\ pc'[r] # "new"
Early    == {"verify", "precheck", "claim", "submit", "refuse"}
Moved(r) ==
  \/ pc'[r] = pc[r]
  \/ pc'[r] = "dead"
  \/ pc[r] \in Early /\ pc'[r] \in Early \cup {"refused"}
  \/ Granted(r) /\ Granted(r)'
  \/ Record(r) \/ Settled(r)

LEMMA Moves ==
  ASSUME TypeInv, [Next]_vars, NEW r \in Requests, pc[r] # "new"
  PROVE  Kept(r) /\ Moved(r)
<1> USE DEF TypeInv, TypeOK, Granted, Goto, Kept, Moved, Early
<1>1. ASSUME NEW q \in Requests, TurnAway(q) \/ Arrive(q)
      PROVE  Kept(r) /\ Moved(r)
  <2>1. q # r
    BY <1>1 DEF TurnAway, Arrive
  <2>2. CASE TurnAway(q)
    BY <2>1, <2>2 DEF TurnAway, request
  <2>3. CASE Arrive(q)
    <3>1. pc'[r] = pc[r]
      BY <2>1, <2>3 DEF Arrive
    <3>2. auth'[r] = auth[r]
      BY <2>1, <2>3 DEF Arrive
    <3>3. tries' = tries
      BY <2>3 DEF Arrive
    <3> QED
      BY <3>1, <3>2, <3>3
  <2> QED
    BY <1>1, <2>2, <2>3
<1>2. ASSUME NEW q \in Requests, Verify(q) \/ Precheck(q)
      PROVE  Kept(r) /\ Moved(r)
  BY <1>2 DEF Verify, Precheck, Refuse, request
<1>3. ASSUME NEW q \in Requests, ClaimMemory(q) \/ ClaimRedis(q) \/ ClaimFails(q)
      PROVE  Kept(r) /\ Moved(r)
  BY <1>3 DEF ClaimMemory, ClaimRedis, ClaimFails, Claimed, NotClaimed, Refuse,
     request
<1>4. ASSUME NEW q \in Requests, Record(q) \/ Settled(q)
      PROVE  Kept(r) /\ Moved(r)
  BY <1>4 DEF Record, Settled, Accept, request
<1>5. ASSUME NEW q \in Requests, SettleRefused(q)
      PROVE  Kept(r) /\ Moved(r)
  BY <1>5 DEF SettleRefused, Refuse, request
<1>6. ASSUME NEW q \in Requests, SettleSilent(q)
      PROVE  Kept(r) /\ Moved(r)
  BY <1>6 DEF SettleSilent, Refuse, request
<1>7. ASSUME NEW q \in Requests,
             AnswerRefusal(q) \/ CreateJob(q) \/ TakeReceipt(q)
      PROVE  Kept(r) /\ Moved(r)
  BY <1>7 DEF AnswerRefusal, CreateJob, TakeReceipt, request
<1>8. ASSUME NEW q \in Requests, QueueJob(q) \/ JobFails(q)
      PROVE  Kept(r) /\ Moved(r)
  BY <1>8 DEF QueueJob, JobFails, request
<1>9. ASSUME NEW p \in Processes, Restart(p)
      PROVE  Kept(r) /\ Moved(r)
  BY <1>9 DEF Restart, request
<1>10. Tick \/ (\E a \in Auths : Execute(a)) \/ UNCHANGED vars =>
         Kept(r) /\ Moved(r)
  BY DEF Tick, Execute, vars, request
<1> QED
  BY <1>1, <1>2, <1>3, <1>4, <1>5, <1>6, <1>7, <1>8, <1>9, <1>10 DEF Next, Step

\* A request that has not arrived yet does not get its build in one step.
LEMMA NewIsNotGranted ==
  ASSUME TypeInv, [Next]_vars, NEW r \in Requests, pc[r] = "new"
  PROVE  ~Granted(r)'
<1> USE DEF TypeInv, TypeOK, Granted, Goto
<1>1. ASSUME NEW q \in Requests, TurnAway(q) \/ Arrive(q)
      PROVE  ~Granted(r)'
  BY <1>1 DEF TurnAway, Arrive
<1>2. ASSUME NEW q \in Requests, Step(q)
      PROVE  ~Granted(r)'
  <2>1. q # r /\ pc'[r] = pc[r]
    BY <1>2 DEF Step, Verify, Precheck, ClaimMemory, ClaimRedis, Record, Settled,
       SettleRefused, SettleSilent, AnswerRefusal, CreateJob, TakeReceipt,
       QueueJob, Claimed, NotClaimed, Refuse, Accept
  <2> QED
    BY <2>1
<1>3. ASSUME NEW q \in Requests, ClaimFails(q) \/ JobFails(q)
      PROVE  ~Granted(r)'
  BY <1>3 DEF ClaimFails, JobFails, NotClaimed, Refuse
<1>4. ASSUME NEW p \in Processes, Restart(p)
      PROVE  ~Granted(r)'
  BY <1>4 DEF Restart
<1>5. Tick \/ (\E a \in Auths : Execute(a)) \/ UNCHANGED vars => ~Granted(r)'
  BY DEF Tick, Execute, vars
<1> QED
  BY <1>1, <1>2, <1>3, <1>4, <1>5 DEF Next

\* What may happen to the chain in one step.
LEMMA ChainMoves ==
  ASSUME TypeInv, [Next]_vars
  PROVE  \/ UNCHANGED <<moved, limbo>>
         \/ \E r \in Requests : Settled(r)
         \/ \E r \in Requests : SettleSilent(r)
         \/ \E a \in Auths : Execute(a)
  BY DEF Next, Step, TurnAway, Arrive, Verify, Precheck, ClaimMemory, ClaimRedis,
     ClaimFails, Record, SettleRefused, AnswerRefusal, CreateJob, TakeReceipt,
     QueueJob, JobFails, Restart, Tick, vars, chain

\* What the chain has executed stands behind every build.
MoneyInv == TypeInv /\ PaidFor

LEMMA MoneyStep == MoneyInv /\ [Next]_vars => MoneyInv'
<1> SUFFICES ASSUME MoneyInv, [Next]_vars PROVE MoneyInv'
  OBVIOUS
<1>1. TypeInv /\ TypeInv' /\ OnChain' = OnChain
  BY TypeStep, Deployed DEF MoneyInv
<1>2. moved \subseteq moved'
  BY <1>1, ChainMoves DEF Settled, SettleSilent, Execute
<1>3. PaidFor'
  <2> SUFFICES ASSUME OnChain, NEW r \in Requests, Granted(r)'
               PROVE  auth'[r] \in moved'
    BY <1>1 DEF PaidFor
  <2>1. pc[r] # "new"
    BY <1>1, NewIsNotGranted
  <2>2. auth'[r] = auth[r] /\ Moved(r)
    BY <1>1, <2>1, Moves DEF Kept
  <2>3. CASE Granted(r)
    BY <1>2, <2>2, <2>3 DEF MoneyInv, PaidFor
  <2>4. CASE ~Granted(r)
    <3>1. Settled(r)
      BY <2>2, <2>4 DEF Moved, Early, Granted, Record
    <3> QED
      BY <2>2, <3>1 DEF Settled
  <2> QED
    BY <2>3, <2>4
<1> QED
  BY <1>1, <1>3 DEF MoneyInv

\* With a facilitator a build is granted only for an executed transfer.
THEOREM GrantedIsPaidFor == Spec => []PaidFor
<1>1. Init => MoneyInv
  BY TypeInit DEF Init, MoneyInv, PaidFor, Granted
<1>2. MoneyInv => PaidFor
  BY DEF MoneyInv
<1> QED
  BY <1>1, <1>2, MoneyStep, PTL DEF Spec

-----------------------------------------------------------------------------
(* One build per authorization.                                             *)

\* Two requests have their builds for one authorization.
Twice == \E r, s \in Requests :
  Granted(r) /\ Granted(s) /\ auth[r] = auth[s] /\ r # s

LEMMA OnChainStep == OnChain /\ MoneyInv /\ ~Twice /\ [Next]_vars => ~Twice'
<1> SUFFICES ASSUME OnChain, MoneyInv, ~Twice, [Next]_vars,
                    NEW r \in Requests, NEW s \in Requests,
                    Granted(r)', Granted(s)', auth'[r] = auth'[s], r # s
             PROVE  FALSE
  BY DEF Twice
<1>1. TypeInv
  BY DEF MoneyInv
<1>2. /\ pc[r] # "new" /\ pc[s] # "new"
      /\ auth'[r] = auth[r] /\ auth'[s] = auth[s]
      /\ Moved(r) /\ Moved(s)
  BY <1>1, NewIsNotGranted, Moves DEF Kept
<1>3. ASSUME NEW q \in Requests, Moved(q), Granted(q)' PROVE Granted(q) \/ Settled(q)
  BY <1>3 DEF Moved, Early, Granted, Record
<1>4. ~(Granted(r) /\ Granted(s))
  BY <1>2 DEF Twice
\* Only one request takes a step, and the chain refuses the second transfer.
<1>5. ASSUME NEW q \in Requests, NEW p \in Requests, q # p, Settled(q),
             Granted(p)', Moved(p), auth[q] = auth[p]
      PROVE  FALSE
  <2>1. pc'[p] = pc[p]
    BY <1>1, <1>5 DEF Settled, Accept, Goto, TypeInv, TypeOK
  <2>2. Granted(p)
    BY <1>5, <2>1 DEF Granted
  <2>3. auth[p] \in moved
    BY <2>2 DEF MoneyInv, PaidFor
  <2> QED
    BY <1>5, <2>3 DEF Settled
<1> QED
  BY <1>2, <1>3, <1>4, <1>5

\* A request that has passed the nonce store is the one that spent its nonce.
SpenderInv ==
  /\ SpentInv
  /\ \A r \in Requests :
       Granted(r) \/ pc[r] = "submit" => r \in spenders[auth[r]]

LEMMA SpendersStay ==
  ASSUME TypeInv, [Next]_vars, NEW a \in Auths
  PROVE  spenders[a] \subseteq spenders'[a]
<1>1. ASSUME NEW r \in Requests, ClaimMemory(r) \/ ClaimRedis(r) \/ ClaimFails(r)
      PROVE  spenders[a] \subseteq spenders'[a]
  BY <1>1 DEF ClaimMemory, ClaimRedis, ClaimFails, Claimed, NotClaimed, TypeInv,
              TypeOK
<1>2. \/ UNCHANGED spenders
      \/ \E r \in Requests : ClaimMemory(r) \/ ClaimRedis(r) \/ ClaimFails(r)
  BY ClaimsKept DEF Next, Step, Execute, Restart, Tick, vars
<1> QED
  BY <1>1, <1>2

\* Only a successful claim brings a request to its settlement.
LEMMA OnlyClaimsSubmit ==
  ASSUME TypeInv, [Next]_vars, NEW r \in Requests, ~Granted(r), pc[r] # "submit",
         Granted(r)' \/ pc'[r] = "submit"
  PROVE  pc[r] = "claim" /\ Claimed(r) /\ UNCHANGED auth
<1> USE DEF TypeInv, TypeOK, Granted, Goto
<1>1. ASSUME NEW q \in Requests, TurnAway(q) \/ Arrive(q) PROVE FALSE
  BY <1>1 DEF TurnAway, Arrive
<1>2. ASSUME NEW q \in Requests, Verify(q) \/ Precheck(q) PROVE FALSE
  BY <1>2 DEF Verify, Precheck, Refuse
<1>3. ASSUME NEW q \in Requests, ClaimMemory(q) \/ ClaimRedis(q) \/ ClaimFails(q)
      PROVE  pc[r] = "claim" /\ Claimed(r) /\ UNCHANGED auth
  <2>1. CASE NotClaimed(q)
    BY <1>3, <2>1 DEF ClaimMemory, ClaimRedis, ClaimFails, NotClaimed, Refuse
  <2>2. CASE Claimed(q)
    BY <1>3, <2>2 DEF ClaimMemory, ClaimRedis, ClaimFails, Claimed, request
  <2> QED
    BY <1>3, <2>1, <2>2 DEF ClaimMemory, ClaimRedis, ClaimFails
<1>4. ASSUME NEW q \in Requests, Record(q) \/ Settled(q) PROVE FALSE
  BY <1>4 DEF Record, Settled, Accept
<1>5. ASSUME NEW q \in Requests, SettleRefused(q) \/ SettleSilent(q) PROVE FALSE
  BY <1>5 DEF SettleRefused, SettleSilent, Refuse
<1>6. ASSUME NEW q \in Requests,
             \/ AnswerRefusal(q) \/ CreateJob(q) \/ TakeReceipt(q)
             \/ QueueJob(q) \/ JobFails(q)
      PROVE  FALSE
  BY <1>6 DEF AnswerRefusal, CreateJob, TakeReceipt, QueueJob, JobFails
<1>7. ASSUME NEW p \in Processes, Restart(p) PROVE FALSE
  BY <1>7 DEF Restart
<1>8. ~Tick /\ ~(\E a \in Auths : Execute(a)) /\ ~UNCHANGED vars
  BY DEF Tick, Execute, vars
<1> QED
  BY <1>1, <1>2, <1>3, <1>4, <1>5, <1>6, <1>7, <1>8 DEF Next, Step

LEMMA SpenderStep == SpenderInv /\ [Next]_vars => SpenderInv'
<1> SUFFICES ASSUME SpenderInv, [Next]_vars PROVE SpenderInv'
  OBVIOUS
<1>1. TypeInv /\ SpentInv'
  BY SpentStep DEF SpenderInv, SpentInv
<1> SUFFICES ASSUME NEW r \in Requests, Granted(r)' \/ pc'[r] = "submit"
             PROVE  r \in spenders'[auth'[r]]
  BY <1>1 DEF SpenderInv
<1>2. CASE Granted(r) \/ pc[r] = "submit"
  <2>1. auth[r] \in Auths /\ auth'[r] = auth[r]
    BY <1>1, <1>2, Moves DEF TypeInv, HasAuth, Kept, Granted
  <2> QED
    BY <1>1, <1>2, <2>1, SpendersStay DEF SpenderInv
<1>3. CASE ~Granted(r) /\ pc[r] # "submit"
  <2>1. Claimed(r) /\ UNCHANGED auth
    BY <1>1, <1>3, OnlyClaimsSubmit
  <2>2. auth[r] \in Auths
    BY <1>1, <1>3, <2>1, OnlyClaimsSubmit DEF TypeInv, HasAuth
  <2> QED
    BY <1>1, <2>1, <2>2 DEF Claimed, TypeInv, TypeOK
<1> QED
  BY <1>2, <1>3

\* An authorization buys at most one build, if the chain or a shared nonce store
\* stands behind it.
THEOREM OneBuildEach == Spec => []OneBuild
<1>1. Init => MoneyInv /\ SpenderInv /\ ~Twice
  BY TypeInit
  DEF Init, MoneyInv, PaidFor, SpenderInv, SpentInv, SpentOnce, Granted, Twice
<1>2. Store = "redis" /\ SpenderInv => ~Twice
  BY DEF SpenderInv, SpentInv, SpentOnce, TypeInv, HasAuth, Twice
<1> DEFINE Inv == MoneyInv /\ SpenderInv /\ (OnChain => ~Twice)
<1>3. Inv /\ [Next]_vars => Inv'
  <2> SUFFICES ASSUME Inv, [Next]_vars PROVE Inv'
    OBVIOUS
  <2>1. MoneyInv' /\ SpenderInv' /\ OnChain' = OnChain
    BY MoneyStep, SpenderStep, Deployed
  <2> QED
    BY <2>1, OnChainStep
<1>4. Inv => OneBuild
  BY <1>2 DEF OneBuild, Twice
<1> HIDE DEF Inv
<1>5. Init => Inv
  BY <1>1 DEF Inv
<1> QED
  BY <1>3, <1>4, <1>5, PTL DEF Spec
=============================================================================
