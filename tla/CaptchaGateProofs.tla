-------------------------- MODULE CaptchaGateProofs --------------------------
(***************************************************************************)
(* Proofs about CaptchaGate, for any tokens, calls, replicas and bounds.   *)
(* The inductive invariant is a conjunction of named parts; the heart of   *)
(* it is RegisteredLock and OneCandidate: as long as no call was thrown    *)
(* out of the lock while the link was open, all calls of a replica that    *)
(* hold or wait for a lock of that link do so on the registered object,    *)
(* and so at most one of them gets past the re-read.                       *)
(***************************************************************************)
EXTENDS CaptchaGate, TLAPS

Locked(t) == pc[t] \in Critical \union {"wait"}

\* A call past the re-read of an open link: the one that may publish.
Candidate(t) ==
    \/ pc[t] \in {"checks", "lookup", "solve", "mark", "publish"}
    \/ pc[t] = "recheck" /\ snap[t] = "open"
    \/ t \in published

\* Only a finished call has an answer, only a finished one has published.
Finished ==
    \A t \in Calls :
        /\ result[t] # "none" => pc[t] = "done"
        /\ t \in published => pc[t] = "done"
        /\ pc[t] = "idle" => args[t] = NoArgs

\* Calls are made for links that exist; a link that is not there has no row.
Created ==
    /\ \A t \in Calls : pc[t] # "idle" => expires[Tok(t)] # 0
    /\ \A k \in Tokens : expires[k] = 0 => row[k] = "absent"

\* What a call has read or done and nobody can undo.
Settled ==
    \A t \in Calls :
        /\ pc[t] \in {"got", "recheck"} /\ snap[t] # "open" => row[Tok(t)] # "open"
        /\ pc[t] \in {"got", "recheck"} /\ snap[t] = "absent" => row[Tok(t)] = "absent"
        /\ pc[t] = "publish" \/ t \in published => row[Tok(t)] # "open"
        /\ result[t] \in {"verified", "unknown"} => row[Tok(t)] # "open"

\* A call under the lock holds the lock object it got from setdefault.
HeldLock ==
    \A t \in Calls :
        /\ Locked(t) => lock[t] \in Calls
        /\ pc[t] \in Critical => holder[lock[t]] = t

\* While a link is open and undisturbed, the lock object its calls hold or wait
\* for is the registered one.
RegisteredLock ==
    \A t \in Calls :
        Locked(t) /\ row[Tok(t)] = "open" /\ ~ Disturbed(t)
            => lock[t] = locks[Home(t)][Tok(t)]

\* At most one call of a replica gets past the re-read of an undisturbed link.
OneCandidate ==
    \A t, u \in Calls :
        Candidate(t) /\ Candidate(u) /\ Same(t, u) /\ ~ Disturbed(t) => t = u

\* A call made after an answer "verified" never gets as far as the lock.
AckedStopsEarly ==
    \A t \in Calls : args[t].acked =>
        /\ row[Tok(t)] # "open"
        /\ pc[t] \in {"get", "got", "delete", "done", "dead"}
        /\ pc[t] = "got" => snap[t] # "open"
        /\ t \notin published
        /\ result[t] \notin {"pending", "failed"}

\* A call that got to the lock had started before the link expired.
InTime ==
    \A t \in Calls :
        /\ pc[t] # "idle" => args[t].at <= now
        /\ Locked(t) \/ result[t] = "verified" => args[t].at <= expires[Tok(t)]

IInv ==
    /\ TypeOK
    /\ Finished
    /\ Created
    /\ Settled
    /\ HeldLock
    /\ RegisteredLock
    /\ OneCandidate
    /\ AckedStopsEarly
    /\ InTime
    /\ RejectedCallSparesAnswer

-----------------------------------------------------------------------------
LEMMA InitInv == Init => IInv
  BY GateAssumption DEF Init, IInv, TypeOK, Finished, Created, Settled, HeldLock,
     RegisteredLock, OneCandidate, AckedStopsEarly, InTime,
     RejectedCallSparesAnswer, Locked, Candidate, NoArgs, RowStates, Answers, Results, PCs,
     Critical

\* What a started call was made with.
LEMMA ArgsType ==
    ASSUME TypeOK, NEW t \in Calls, pc[t] # "idle"
    PROVE  Tok(t) \in Tokens /\ Home(t) \in Replicas /\ Visit(t) \in Visits
  BY DEF TypeOK, Args, Tok, Home, Visit

\* What a call that returns, from outside or from inside the try, leaves behind.
LEMMA ReturnType ==
    ASSUME TypeOK, NEW t \in Calls, NEW a \in Results, Return(t, a)
    PROVE  pc' \in [Calls -> PCs] /\ result' \in [Calls -> Results]
           /\ pc' = [pc EXCEPT ![t] = "done"]
  BY DEF TypeOK, PCs, Return

LEMMA LeaveType ==
    ASSUME TypeOK, NEW t \in Calls, pc[t] # "idle", NEW a \in Results, Leave(t, a)
    PROVE  /\ Return(t, a)
           /\ locks' \in [Replicas -> [Tokens -> Calls \union {None}]]
           /\ holder' \in [Calls -> Calls \union {None}]
<1>1. Tok(t) \in Tokens /\ Home(t) \in Replicas
  BY ArgsType
<1>. QED
  BY <1>1 DEF TypeOK, Leave

LEMMA SomeResults == {"unknown", "verified", "pending", "failed", "error"} \subseteq Results
  BY DEF Results

LEMMA TypeStep == TypeOK /\ Next => TypeOK'
<1> SUFFICES ASSUME TypeOK, Next
             PROVE  TypeOK'
  OBVIOUS
<1>1. ASSUME NEW k \in Tokens, CreateVerification(k)
      PROVE  TypeOK'
  BY <1>1, GateAssumption DEF CreateVerification, TypeOK, RowStates, Answers, PCs, Critical, callVars, storeVars, lockVars
<1>2. ASSUME NEW t \in Calls, NEW v \in Visits, NEW k \in Tokens, NEW r \in Replicas, Arrive(t, v, k, r)
      PROVE  TypeOK'
  BY <1>2, GateAssumption
  DEF Arrive, TypeOK, Args, RowStates, Answers, Results, PCs, Critical, storeVars, lockVars
<1>3. ASSUME NEW t \in Calls, Get(t)
      PROVE  TypeOK'
  BY <1>3, ArgsType
  DEF Get, Goto, TypeOK, RowStates, Answers, PCs, Critical, callVars, storeVars, lockVars
<1>4. ASSUME NEW t \in Calls, EarlyReturn(t)
      PROVE  TypeOK'
  BY <1>4, ReturnType, SomeResults
  DEF EarlyReturn, Goto, TypeOK, PCs, Critical, storeVars, lockVars
<1>5. ASSUME NEW t \in Calls, SetDefault(t)
      PROVE  TypeOK'
  BY <1>5, ArgsType
  DEF SetDefault, Goto, TypeOK, RowStates, Answers, PCs, Critical, callVars, storeVars, lockVars
<1>6. ASSUME NEW t \in Calls, DeleteExpired(t)
      PROVE  TypeOK'
  BY <1>6, LeaveType, ReturnType, SomeResults
  DEF DeleteExpired, Goto, RowStates, TypeOK, PCs, Critical, storeVars, lockVars
<1>7. ASSUME NEW t \in Calls, Acquire(t)
      PROVE  TypeOK'
  BY <1>7
  DEF Acquire, Goto, TypeOK, RowStates, Answers, PCs, Critical, callVars, storeVars, lockVars
<1>8. ASSUME NEW t \in Calls, Recheck(t)
      PROVE  TypeOK'
  BY <1>8, LeaveType, ReturnType, SomeResults, ZenonT(40)
  DEF Recheck, Goto, TypeOK, PCs, Critical, storeVars, lockVars
<1>9. ASSUME NEW t \in Calls, CheapChecks(t)
      PROVE  TypeOK'
  BY <1>9, LeaveType, ReturnType, SomeResults
  DEF CheapChecks, Goto, TypeOK, PCs, Critical, storeVars, lockVars
<1>10. ASSUME NEW t \in Calls, LookupChallenge(t)
      PROVE  TypeOK'
  BY <1>10, LeaveType, ReturnType, SomeResults
  DEF LookupChallenge, Goto, TypeOK, PCs, Critical, storeVars, lockVars
<1>11. ASSUME NEW t \in Calls, SolveChallenge(t)
      PROVE  TypeOK'
  BY <1>11, LeaveType, ReturnType, SomeResults, SMTT(20)
  DEF SolveChallenge, Goto, Answers, TypeOK, PCs, Critical, storeVars, lockVars
<1>12. ASSUME NEW t \in Calls, MarkVerified(t)
      PROVE  TypeOK'
  <2>1. row' \in [Tokens -> RowStates]
    BY <1>12, ArgsType DEF MarkVerified, TypeOK, RowStates
  <2>2. CASE Goto(t, "publish") /\ UNCHANGED <<result, lockVars>>
    BY <1>12, <2>1, <2>2 DEF MarkVerified, Goto, TypeOK, PCs, Critical, lockVars
  <2>3. CASE Leave(t, "error")
    BY <1>12, <2>1, <2>3, LeaveType, ReturnType, SomeResults DEF MarkVerified, TypeOK
  <2>. QED
    BY <1>12, <2>2, <2>3 DEF MarkVerified
<1>13. ASSUME NEW t \in Calls, Publish(t)
      PROVE  TypeOK'
  BY <1>13, LeaveType, ReturnType, SomeResults
  DEF Publish, Goto, RowStates, TypeOK, PCs, Critical, storeVars, lockVars
<1>14. ASSUME NEW t \in Calls, Fault(t)
      PROVE  TypeOK'
  <2>1. faults' \in 0..MaxFaults
    BY <1>14, GateAssumption DEF Fault, TypeOK
  <2>2. CASE Return(t, "error") /\ pc[t] # "idle" /\ UNCHANGED lockVars
    BY <1>14, <2>1, <2>2, ReturnType, SomeResults
    DEF Fault, TypeOK, storeVars, lockVars
  <2>3. CASE Leave(t, "error") /\ pc[t] # "idle"
    BY <1>14, <2>1, <2>3, LeaveType, ReturnType, SomeResults
    DEF Fault, TypeOK, storeVars
  <2>. QED
    BY <1>14, <2>2, <2>3 DEF Fault, Critical
<1>15. ASSUME NEW r \in Replicas, Crash(r)
      PROVE  TypeOK'
  BY <1>15, GateAssumption DEF Crash, TypeOK, RowStates, Answers, PCs, Critical, callVars, storeVars, lockVars
<1>16. ASSUME PurgeExpired
      PROVE  TypeOK'
  BY <1>16, GateAssumption DEF PurgeExpired, TypeOK, RowStates, Answers, PCs, Critical, callVars, storeVars, lockVars
<1>17. ASSUME Tick
      PROVE  TypeOK'
  BY <1>17, GateAssumption DEF Tick, TypeOK, RowStates, Answers, PCs, Critical, callVars, storeVars, lockVars
<1>. QED
  BY <1>1, <1>2, <1>3, <1>4, <1>5, <1>6, <1>7, <1>8, <1>9, <1>10, <1>11, <1>12, <1>13, <1>14, <1>15, <1>16, <1>17 DEF Next, Run

\* Only finished calls have answers and publish.
LEMMA FinishedStep ==
    ASSUME TypeOK, Finished, Next
    PROVE  Finished'
<1>1. ASSUME NEW k \in Tokens, CreateVerification(k)
      PROVE  Finished'
  BY <1>1 DEF CreateVerification, TypeOK, Finished, Critical, callVars, lockVars
<1>2. ASSUME NEW t \in Calls, NEW v \in Visits, NEW k \in Tokens, NEW r \in Replicas, Arrive(t, v, k, r)
      PROVE  Finished'
  BY <1>2 DEF Arrive, TypeOK, Finished, Critical, storeVars, lockVars
<1>3. ASSUME NEW t \in Calls, Get(t)
      PROVE  Finished'
  BY <1>3 DEF Get, Goto, TypeOK, Finished, Critical, storeVars, lockVars
<1>4. ASSUME NEW t \in Calls, EarlyReturn(t)
      PROVE  Finished'
  BY <1>4 DEF EarlyReturn, Return, Goto, Expired, TypeOK, Finished, Critical,
     storeVars, lockVars
<1>5. ASSUME NEW t \in Calls, SetDefault(t)
      PROVE  Finished'
  BY <1>5 DEF SetDefault, Goto, Expired, TypeOK, Finished, Critical, storeVars
<1>6. ASSUME NEW t \in Calls, DeleteExpired(t)
      PROVE  Finished'
  BY <1>6 DEF DeleteExpired, Return, Leave, TypeOK, Finished, Critical, lockVars
<1>7. ASSUME NEW t \in Calls, Acquire(t)
      PROVE  Finished'
  BY <1>7 DEF Acquire, Goto, TypeOK, Finished, Critical, storeVars
<1>8. ASSUME NEW t \in Calls, Recheck(t)
      PROVE  Finished'
  BY <1>8 DEF Recheck, Return, Leave, Goto, Expired, TypeOK, Finished, Critical,
     storeVars, lockVars
<1>9. ASSUME NEW t \in Calls, CheapChecks(t)
      PROVE  Finished'
  BY <1>9 DEF CheapChecks, Return, Leave, Goto, TypeOK, Finished, Critical,
     storeVars, lockVars
<1>10. ASSUME NEW t \in Calls, LookupChallenge(t)
      PROVE  Finished'
  BY <1>10 DEF LookupChallenge, Return, Leave, Goto, TypeOK, Finished, Critical,
     storeVars, lockVars
<1>11. ASSUME NEW t \in Calls, SolveChallenge(t)
      PROVE  Finished'
  BY <1>11 DEF SolveChallenge, Return, Leave, Goto, TypeOK, Finished, Critical,
     lockVars
<1>12. ASSUME NEW t \in Calls, MarkVerified(t)
      PROVE  Finished'
  BY <1>12 DEF MarkVerified, Return, Leave, Goto, TypeOK, Finished, Critical,
     lockVars
<1>13. ASSUME NEW t \in Calls, Publish(t)
      PROVE  Finished'
  BY <1>13 DEF Publish, Return, Leave, TypeOK, Finished, Critical, storeVars
<1>14. ASSUME NEW t \in Calls, Fault(t)
      PROVE  Finished'
  BY <1>14 DEF Fault, Return, Leave, TypeOK, Finished, Critical, storeVars,
     lockVars
<1>15. ASSUME NEW r \in Replicas, Crash(r)
      PROVE  Finished'
  BY <1>15 DEF Crash, TypeOK, Finished, Critical, storeVars
<1>16. ASSUME PurgeExpired
      PROVE  Finished'
  BY <1>16 DEF PurgeExpired, TypeOK, Finished, Critical, callVars, lockVars
<1>17. ASSUME Tick
      PROVE  Finished'
  BY <1>17 DEF Tick, TypeOK, Finished, Critical, callVars, storeVars, lockVars
<1>. QED BY <1>1, <1>2, <1>3, <1>4, <1>5, <1>6, <1>7, <1>8, <1>9, <1>10, <1>11,
     <1>12, <1>13, <1>14, <1>15, <1>16, <1>17 DEF Next, Run

\* Calls are about links that exist.
LEMMA CreatedStep ==
    ASSUME TypeOK, Finished, Created, Next
    PROVE  Created'
<1>1. ASSUME NEW k \in Tokens, CreateVerification(k)
      PROVE  Created'
  BY <1>1, GateAssumption DEF CreateVerification, TypeOK, Created, Critical,
     Tok, callVars, lockVars
<1>2. ASSUME NEW t \in Calls, NEW v \in Visits, NEW k \in Tokens, NEW r \in Replicas, Arrive(t, v, k, r)
      PROVE  Created'
  BY <1>2, GateAssumption DEF Arrive, TypeOK, Created, Critical, Tok, storeVars,
     lockVars
<1>3. ASSUME NEW t \in Calls, Get(t)
      PROVE  Created'
  BY <1>3, GateAssumption DEF Get, Goto, TypeOK, Created, Critical, Tok,
     storeVars, lockVars
<1>4. ASSUME NEW t \in Calls, EarlyReturn(t)
      PROVE  Created'
  BY <1>4, GateAssumption DEF EarlyReturn, Return, Goto, Expired, TypeOK,
     Created, Critical, Tok, storeVars, lockVars
<1>5. ASSUME NEW t \in Calls, SetDefault(t)
      PROVE  Created'
  BY <1>5, GateAssumption DEF SetDefault, Goto, Expired, TypeOK, Created,
     Critical, Tok, storeVars
<1>6. ASSUME NEW t \in Calls, DeleteExpired(t)
      PROVE  Created'
  BY <1>6, GateAssumption DEF DeleteExpired, Return, Leave, TypeOK, Created,
     Critical, Tok, lockVars
<1>7. ASSUME NEW t \in Calls, Acquire(t)
      PROVE  Created'
  BY <1>7, GateAssumption DEF Acquire, Goto, TypeOK, Created, Critical, Tok,
     storeVars
<1>8. ASSUME NEW t \in Calls, Recheck(t)
      PROVE  Created'
  BY <1>8, GateAssumption DEF Recheck, Return, Leave, Goto, Expired, TypeOK,
     Created, Critical, Tok, storeVars, lockVars
<1>9. ASSUME NEW t \in Calls, CheapChecks(t)
      PROVE  Created'
  BY <1>9, GateAssumption DEF CheapChecks, Return, Leave, Goto, TypeOK, Created,
     Critical, Tok, storeVars, lockVars
<1>10. ASSUME NEW t \in Calls, LookupChallenge(t)
      PROVE  Created'
  BY <1>10, GateAssumption DEF LookupChallenge, Return, Leave, Goto, TypeOK,
     Created, Critical, Tok, storeVars, lockVars
<1>11. ASSUME NEW t \in Calls, SolveChallenge(t)
      PROVE  Created'
  BY <1>11, GateAssumption DEF SolveChallenge, Return, Leave, Goto, TypeOK,
     Created, Critical, Tok, lockVars
<1>12. ASSUME NEW t \in Calls, MarkVerified(t)
      PROVE  Created'
  BY <1>12, GateAssumption DEF MarkVerified, Return, Leave, Goto, TypeOK,
     Created, Critical, Tok, lockVars
<1>13. ASSUME NEW t \in Calls, Publish(t)
      PROVE  Created'
  BY <1>13, GateAssumption DEF Publish, Return, Leave, TypeOK, Created,
     Critical, Tok, storeVars
<1>14. ASSUME NEW t \in Calls, Fault(t)
      PROVE  Created'
  BY <1>14, GateAssumption DEF Fault, Return, Leave, TypeOK, Created, Critical,
     Tok, storeVars, lockVars
<1>15. ASSUME NEW r \in Replicas, Crash(r)
      PROVE  Created'
  BY <1>15, GateAssumption DEF Crash, TypeOK, Created, Critical, Tok, storeVars
<1>16. ASSUME PurgeExpired
      PROVE  Created'
  BY <1>16, GateAssumption DEF PurgeExpired, TypeOK, Created, Critical, Tok,
     callVars, lockVars
<1>17. ASSUME Tick
      PROVE  Created'
  BY <1>17, GateAssumption DEF Tick, TypeOK, Created, Critical, Tok, callVars,
     storeVars, lockVars
<1>. QED BY <1>1, <1>2, <1>3, <1>4, <1>5, <1>6, <1>7, <1>8, <1>9, <1>10, <1>11,
     <1>12, <1>13, <1>14, <1>15, <1>16, <1>17 DEF Next, Run

\* A link that is not open stays so.
LEMMA SettledStep ==
    ASSUME TypeOK, Finished, Created, Settled, Next
    PROVE  Settled'
<1>1. ASSUME NEW k \in Tokens, CreateVerification(k)
      PROVE  Settled'
  BY <1>1 DEF CreateVerification, TypeOK, Finished, Created, Settled, Critical,
     Tok, callVars, lockVars
<1>2. ASSUME NEW t \in Calls, NEW v \in Visits, NEW k \in Tokens, NEW r \in Replicas, Arrive(t, v, k, r)
      PROVE  Settled'
  BY <1>2 DEF Arrive, TypeOK, Finished, Created, Settled, Critical, Tok,
     storeVars, lockVars
<1>3. ASSUME NEW t \in Calls, Get(t)
      PROVE  Settled'
  BY <1>3 DEF Get, Goto, TypeOK, Finished, Created, Settled, Critical, Tok,
     storeVars, lockVars
<1>4. ASSUME NEW t \in Calls, EarlyReturn(t)
      PROVE  Settled'
  BY <1>4 DEF EarlyReturn, Return, Goto, Expired, TypeOK, Finished, Created,
     Settled, Critical, Tok, storeVars, lockVars
<1>5. ASSUME NEW t \in Calls, SetDefault(t)
      PROVE  Settled'
  BY <1>5 DEF SetDefault, Goto, Expired, TypeOK, Finished, Created, Settled,
     Critical, Tok, storeVars
<1>6. ASSUME NEW t \in Calls, DeleteExpired(t)
      PROVE  Settled'
  <2>1. \A u \in Calls : pc[u] # "idle" => Tok(u) \in Tokens
    BY ArgsType
  <2>. QED
    BY <1>6, <2>1 DEF DeleteExpired, Return, Leave, TypeOK, Finished, Settled,
       Critical, Tok, lockVars
<1>7. ASSUME NEW t \in Calls, Acquire(t)
      PROVE  Settled'
  BY <1>7 DEF Acquire, Goto, TypeOK, Finished, Created, Settled, Critical, Tok,
     storeVars
<1>8. ASSUME NEW t \in Calls, Recheck(t)
      PROVE  Settled'
  BY <1>8 DEF Recheck, Return, Leave, Goto, Expired, TypeOK, Finished, Created,
     Settled, Critical, Tok, storeVars, lockVars
<1>9. ASSUME NEW t \in Calls, CheapChecks(t)
      PROVE  Settled'
  BY <1>9 DEF CheapChecks, Return, Leave, Goto, TypeOK, Finished, Created,
     Settled, Critical, Tok, storeVars, lockVars
<1>10. ASSUME NEW t \in Calls, LookupChallenge(t)
      PROVE  Settled'
  BY <1>10 DEF LookupChallenge, Return, Leave, Goto, TypeOK, Finished, Created,
     Settled, Critical, Tok, storeVars, lockVars
<1>11. ASSUME NEW t \in Calls, SolveChallenge(t)
      PROVE  Settled'
  BY <1>11 DEF SolveChallenge, Return, Leave, Goto, TypeOK, Finished, Created,
     Settled, Critical, Tok, lockVars
<1>12. ASSUME NEW t \in Calls, MarkVerified(t)
      PROVE  Settled'
  <2>1. \A u \in Calls : pc[u] # "idle" => Tok(u) \in Tokens
    BY ArgsType
  <2>. QED
    BY <1>12, <2>1 DEF MarkVerified, Return, Leave, Goto, TypeOK, Finished, Settled,
       Critical, Tok, lockVars
<1>13. ASSUME NEW t \in Calls, Publish(t)
      PROVE  Settled'
  BY <1>13 DEF Publish, Return, Leave, TypeOK, Finished, Created, Settled,
     Critical, Tok, storeVars
<1>14. ASSUME NEW t \in Calls, Fault(t)
      PROVE  Settled'
  BY <1>14 DEF Fault, Return, Leave, TypeOK, Finished, Created, Settled,
     Critical, Tok, storeVars, lockVars
<1>15. ASSUME NEW r \in Replicas, Crash(r)
      PROVE  Settled'
  BY <1>15 DEF Crash, TypeOK, Finished, Created, Settled, Critical, Tok,
     storeVars
<1>16. ASSUME PurgeExpired
      PROVE  Settled'
  <2>1. \A u \in Calls : pc[u] # "idle" => Tok(u) \in Tokens
    BY ArgsType
  <2>. QED
    BY <1>16, <2>1 DEF PurgeExpired, TypeOK, Finished, Settled, Critical, Tok,
       callVars, lockVars
<1>17. ASSUME Tick
      PROVE  Settled'
  BY <1>17 DEF Tick, TypeOK, Finished, Created, Settled, Critical, Tok,
     callVars, storeVars, lockVars
<1>. QED BY <1>1, <1>2, <1>3, <1>4, <1>5, <1>6, <1>7, <1>8, <1>9, <1>10, <1>11,
     <1>12, <1>13, <1>14, <1>15, <1>16, <1>17 DEF Next, Run

\* A call keeps the lock object it got, and alone holds it while under it.
LEMMA HeldStep ==
    ASSUME TypeOK, Finished, HeldLock, Next
    PROVE  HeldLock'
<1>1. ASSUME NEW k \in Tokens, CreateVerification(k)
      PROVE  HeldLock'
  BY <1>1, GateAssumption DEF CreateVerification, TypeOK, Finished, HeldLock,
     Locked, Critical, callVars, lockVars
<1>2. ASSUME NEW t \in Calls, NEW v \in Visits, NEW k \in Tokens, NEW r \in Replicas, Arrive(t, v, k, r)
      PROVE  HeldLock'
  BY <1>2, GateAssumption DEF Arrive, TypeOK, Finished, HeldLock, Locked,
     Critical, storeVars, lockVars
<1>3. ASSUME NEW t \in Calls, Get(t)
      PROVE  HeldLock'
  BY <1>3, GateAssumption DEF Get, Goto, TypeOK, Finished, HeldLock, Locked,
     Critical, storeVars, lockVars
<1>4. ASSUME NEW t \in Calls, EarlyReturn(t)
      PROVE  HeldLock'
  BY <1>4, GateAssumption DEF EarlyReturn, Return, Goto, Expired, TypeOK,
     Finished, HeldLock, Locked, Critical, storeVars, lockVars
<1>5. ASSUME NEW t \in Calls, SetDefault(t)
      PROVE  HeldLock'
  <2>1. \A u \in Calls : pc[u] # "idle" => Tok(u) \in Tokens /\ Home(u) \in Replicas
    BY ArgsType
  <2>. QED
    BY <1>5, <2>1 DEF SetDefault, Goto, TypeOK, HeldLock, Locked, Critical, storeVars
<1>6. ASSUME NEW t \in Calls, DeleteExpired(t)
      PROVE  HeldLock'
  BY <1>6, GateAssumption DEF DeleteExpired, Return, Leave, TypeOK, Finished,
     HeldLock, Locked, Critical, lockVars
<1>7. ASSUME NEW t \in Calls, Acquire(t)
      PROVE  HeldLock'
  BY <1>7, GateAssumption DEF Acquire, Goto, TypeOK, Finished, HeldLock, Locked,
     Critical, storeVars
<1>8. ASSUME NEW t \in Calls, Recheck(t)
      PROVE  HeldLock'
  BY <1>8, GateAssumption DEF Recheck, Return, Leave, Goto, Expired, TypeOK,
     Finished, HeldLock, Locked, Critical, storeVars, lockVars
<1>9. ASSUME NEW t \in Calls, CheapChecks(t)
      PROVE  HeldLock'
  BY <1>9, GateAssumption DEF CheapChecks, Return, Leave, Goto, TypeOK,
     Finished, HeldLock, Locked, Critical, storeVars, lockVars
<1>10. ASSUME NEW t \in Calls, LookupChallenge(t)
      PROVE  HeldLock'
  BY <1>10, GateAssumption DEF LookupChallenge, Return, Leave, Goto, TypeOK,
     Finished, HeldLock, Locked, Critical, storeVars, lockVars
<1>11. ASSUME NEW t \in Calls, SolveChallenge(t)
      PROVE  HeldLock'
  BY <1>11, GateAssumption DEF SolveChallenge, Return, Leave, Goto, TypeOK,
     Finished, HeldLock, Locked, Critical, lockVars
<1>12. ASSUME NEW t \in Calls, MarkVerified(t)
      PROVE  HeldLock'
  BY <1>12, GateAssumption DEF MarkVerified, Return, Leave, Goto, TypeOK,
     Finished, HeldLock, Locked, Critical, lockVars
<1>13. ASSUME NEW t \in Calls, Publish(t)
      PROVE  HeldLock'
  BY <1>13, GateAssumption DEF Publish, Return, Leave, TypeOK, Finished,
     HeldLock, Locked, Critical, storeVars
<1>14. ASSUME NEW t \in Calls, Fault(t)
      PROVE  HeldLock'
  BY <1>14, GateAssumption DEF Fault, Return, Leave, TypeOK, Finished, HeldLock,
     Locked, Critical, storeVars, lockVars
<1>15. ASSUME NEW r \in Replicas, Crash(r)
      PROVE  HeldLock'
  BY <1>15, GateAssumption DEF Crash, TypeOK, Finished, HeldLock, Locked,
     Critical, storeVars
<1>16. ASSUME PurgeExpired
      PROVE  HeldLock'
  BY <1>16, GateAssumption DEF PurgeExpired, TypeOK, Finished, HeldLock, Locked,
     Critical, callVars, lockVars
<1>17. ASSUME Tick
      PROVE  HeldLock'
  BY <1>17, GateAssumption DEF Tick, TypeOK, Finished, HeldLock, Locked,
     Critical, callVars, storeVars, lockVars
<1>. QED BY <1>1, <1>2, <1>3, <1>4, <1>5, <1>6, <1>7, <1>8, <1>9, <1>10, <1>11,
     <1>12, <1>13, <1>14, <1>15, <1>16, <1>17 DEF Next, Run

\* What a call was made with and what it answered never change.
LEMMA FrozenStep ==
    ASSUME TypeOK, Finished, Next
    PROVE  \A u \in Calls :
           /\ pc[u] # "idle" => args'[u] = args[u] /\ pc'[u] # "idle"
           /\ result[u] # "none" => result'[u] = result[u]
<1>1. ASSUME NEW k \in Tokens, CreateVerification(k)
      PROVE  \A u \in Calls :
           /\ pc[u] # "idle" => args'[u] = args[u] /\ pc'[u] # "idle"
           /\ result[u] # "none" => result'[u] = result[u]
  BY <1>1 DEF CreateVerification, TypeOK, Finished, Critical, callVars, lockVars
<1>2. ASSUME NEW t \in Calls, NEW v \in Visits, NEW k \in Tokens, NEW r \in Replicas, Arrive(t, v, k, r)
      PROVE  \A u \in Calls :
           /\ pc[u] # "idle" => args'[u] = args[u] /\ pc'[u] # "idle"
           /\ result[u] # "none" => result'[u] = result[u]
  BY <1>2 DEF Arrive, TypeOK, Finished, Critical, storeVars, lockVars
<1>3. ASSUME NEW t \in Calls, Get(t)
      PROVE  \A u \in Calls :
           /\ pc[u] # "idle" => args'[u] = args[u] /\ pc'[u] # "idle"
           /\ result[u] # "none" => result'[u] = result[u]
  BY <1>3 DEF Get, Goto, TypeOK, Finished, Critical, storeVars, lockVars
<1>4. ASSUME NEW t \in Calls, EarlyReturn(t)
      PROVE  \A u \in Calls :
           /\ pc[u] # "idle" => args'[u] = args[u] /\ pc'[u] # "idle"
           /\ result[u] # "none" => result'[u] = result[u]
  BY <1>4 DEF EarlyReturn, Return, Goto, Expired, TypeOK, Finished, Critical,
     storeVars, lockVars
<1>5. ASSUME NEW t \in Calls, SetDefault(t)
      PROVE  \A u \in Calls :
           /\ pc[u] # "idle" => args'[u] = args[u] /\ pc'[u] # "idle"
           /\ result[u] # "none" => result'[u] = result[u]
  BY <1>5 DEF SetDefault, Goto, Expired, TypeOK, Finished, Critical, storeVars
<1>6. ASSUME NEW t \in Calls, DeleteExpired(t)
      PROVE  \A u \in Calls :
           /\ pc[u] # "idle" => args'[u] = args[u] /\ pc'[u] # "idle"
           /\ result[u] # "none" => result'[u] = result[u]
  BY <1>6 DEF DeleteExpired, Return, Leave, TypeOK, Finished, Critical, lockVars
<1>7. ASSUME NEW t \in Calls, Acquire(t)
      PROVE  \A u \in Calls :
           /\ pc[u] # "idle" => args'[u] = args[u] /\ pc'[u] # "idle"
           /\ result[u] # "none" => result'[u] = result[u]
  BY <1>7 DEF Acquire, Goto, TypeOK, Finished, Critical, storeVars
<1>8. ASSUME NEW t \in Calls, Recheck(t)
      PROVE  \A u \in Calls :
           /\ pc[u] # "idle" => args'[u] = args[u] /\ pc'[u] # "idle"
           /\ result[u] # "none" => result'[u] = result[u]
  BY <1>8 DEF Recheck, Return, Leave, Goto, Expired, TypeOK, Finished, Critical,
     storeVars, lockVars
<1>9. ASSUME NEW t \in Calls, CheapChecks(t)
      PROVE  \A u \in Calls :
           /\ pc[u] # "idle" => args'[u] = args[u] /\ pc'[u] # "idle"
           /\ result[u] # "none" => result'[u] = result[u]
  BY <1>9 DEF CheapChecks, Return, Leave, Goto, TypeOK, Finished, Critical,
     storeVars, lockVars
<1>10. ASSUME NEW t \in Calls, LookupChallenge(t)
      PROVE  \A u \in Calls :
           /\ pc[u] # "idle" => args'[u] = args[u] /\ pc'[u] # "idle"
           /\ result[u] # "none" => result'[u] = result[u]
  BY <1>10 DEF LookupChallenge, Return, Leave, Goto, TypeOK, Finished, Critical,
     storeVars, lockVars
<1>11. ASSUME NEW t \in Calls, SolveChallenge(t)
      PROVE  \A u \in Calls :
           /\ pc[u] # "idle" => args'[u] = args[u] /\ pc'[u] # "idle"
           /\ result[u] # "none" => result'[u] = result[u]
  BY <1>11 DEF SolveChallenge, Return, Leave, Goto, TypeOK, Finished, Critical,
     lockVars
<1>12. ASSUME NEW t \in Calls, MarkVerified(t)
      PROVE  \A u \in Calls :
           /\ pc[u] # "idle" => args'[u] = args[u] /\ pc'[u] # "idle"
           /\ result[u] # "none" => result'[u] = result[u]
  BY <1>12 DEF MarkVerified, Return, Leave, Goto, TypeOK, Finished, Critical,
     lockVars
<1>13. ASSUME NEW t \in Calls, Publish(t)
      PROVE  \A u \in Calls :
           /\ pc[u] # "idle" => args'[u] = args[u] /\ pc'[u] # "idle"
           /\ result[u] # "none" => result'[u] = result[u]
  BY <1>13 DEF Publish, Return, Leave, TypeOK, Finished, Critical, storeVars
<1>14. ASSUME NEW t \in Calls, Fault(t)
      PROVE  \A u \in Calls :
           /\ pc[u] # "idle" => args'[u] = args[u] /\ pc'[u] # "idle"
           /\ result[u] # "none" => result'[u] = result[u]
  BY <1>14 DEF Fault, Return, Leave, TypeOK, Finished, Critical, storeVars,
     lockVars
<1>15. ASSUME NEW r \in Replicas, Crash(r)
      PROVE  \A u \in Calls :
           /\ pc[u] # "idle" => args'[u] = args[u] /\ pc'[u] # "idle"
           /\ result[u] # "none" => result'[u] = result[u]
  BY <1>15 DEF Crash, TypeOK, Finished, Critical, storeVars
<1>16. ASSUME PurgeExpired
      PROVE  \A u \in Calls :
           /\ pc[u] # "idle" => args'[u] = args[u] /\ pc'[u] # "idle"
           /\ result[u] # "none" => result'[u] = result[u]
  BY <1>16 DEF PurgeExpired, TypeOK, Finished, Critical, callVars, lockVars
<1>17. ASSUME Tick
      PROVE  \A u \in Calls :
           /\ pc[u] # "idle" => args'[u] = args[u] /\ pc'[u] # "idle"
           /\ result[u] # "none" => result'[u] = result[u]
  BY <1>17 DEF Tick, TypeOK, Finished, Critical, callVars, storeVars, lockVars
<1>. QED BY <1>1, <1>2, <1>3, <1>4, <1>5, <1>6, <1>7, <1>8, <1>9, <1>10, <1>11,
     <1>12, <1>13, <1>14, <1>15, <1>16, <1>17 DEF Next, Run

LEMMA DisturbedStep ==
    ASSUME TypeOK, Finished, Next, NEW t \in Calls, pc[t] # "idle", ~ Disturbed(t)'
    PROVE  ~ Disturbed(t)
  BY FrozenStep DEF Disturbed, Same, Tok, Home, Finished

\* Steps that touch neither the table of locks nor what any call holds.
LEMMA RegisteredQuiet ==
    ASSUME TypeOK, Finished, RegisteredLock, Next, lock' = lock, locks' = locks,
           \A u \in Calls : Locked(u)' => Locked(u),
           \A u \in Calls : Locked(u) /\ row'[Tok(u)] = "open" => row[Tok(u)] = "open"
    PROVE  RegisteredLock'
<1> SUFFICES ASSUME NEW u \in Calls, Locked(u)', (row[Tok(u)])' = "open", ~ Disturbed(u)'
             PROVE  lock'[u] = (locks[Home(u)][Tok(u)])'
  BY DEF RegisteredLock
<1>1. Locked(u) /\ pc[u] # "idle"
  BY DEF Locked, Critical
<1>2. args'[u] = args[u]
  BY <1>1, FrozenStep
<1>3. ~ Disturbed(u)
  BY <1>1, DisturbedStep
<1>. QED
  BY <1>1, <1>2, <1>3 DEF RegisteredLock, Tok, Home

\* A call that leaves pops the registered lock: either it is thrown out, and the
\* link is disturbed, or the link is no longer open.
LEMMA RegisteredLeave ==
    ASSUME TypeOK, Finished, RegisteredLock, Next, lock' = lock,
           NEW t \in Calls, pc[t] # "idle", NEW a \in Results, Leave(t, a),
           a \in {"failed", "error"} \/ row'[Tok(t)] # "open",
           \A u \in Calls : Locked(u) /\ row'[Tok(u)] = "open" => row[Tok(u)] = "open"
    PROVE  RegisteredLock'
<1> SUFFICES ASSUME NEW u \in Calls, Locked(u)', (row[Tok(u)])' = "open", ~ Disturbed(u)'
             PROVE  lock'[u] = (locks[Home(u)][Tok(u)])'
  BY DEF RegisteredLock
<1>1. u # t /\ Locked(u) /\ pc[u] # "idle"
  BY DEF Locked, Critical, Leave, Return, TypeOK
<1>2. args'[u] = args[u] /\ args'[t] = args[t]
  BY <1>1, FrozenStep
<1>3. ~ Disturbed(u)
  BY <1>1, DisturbedStep
<1>4. lock[u] = locks[Home(u)][Tok(u)]
  BY <1>1, <1>2, <1>3 DEF RegisteredLock, Tok, Home
<1>5. ~ Same(t, u)
  <2> SUFFICES ASSUME Same(t, u)
               PROVE  FALSE
    OBVIOUS
  <2>1. a \in {"failed", "error"}
    BY <1>2 DEF Same, Tok
  <2>2. result'[t] = a
    BY DEF Leave, Return, TypeOK
  <2>3. Same(t, u)'
    BY <1>2 DEF Same, Tok, Home
  <2>. QED
    BY <2>1, <2>2, <2>3 DEF Disturbed
<1>6. Tok(t) \in Tokens /\ Home(t) \in Replicas /\ Tok(u) \in Tokens /\ Home(u) \in Replicas
  BY <1>1, ArgsType
<1>7. locks'[Home(u)][Tok(u)] = locks[Home(u)][Tok(u)]
  BY <1>5, <1>6 DEF Leave, Same, TypeOK
<1>. QED
  BY <1>2, <1>4, <1>7 DEF Tok, Home

\* While a link is open and undisturbed, its calls use the registered lock.
LEMMA RegisteredStep ==
    ASSUME TypeOK, Finished, Created, Settled, HeldLock, RegisteredLock, Next
    PROVE  RegisteredLock'
<1>a. \A u \in Calls : pc[u] # "idle" => Tok(u) \in Tokens
  BY ArgsType
<1>1. ASSUME NEW k \in Tokens, CreateVerification(k)
      PROVE  RegisteredLock'
  BY <1>1, <1>a, RegisteredQuiet
  DEF CreateVerification, Created, Locked, Critical, TypeOK, callVars, lockVars
<1>2. ASSUME NEW t \in Calls, NEW v \in Visits, NEW k \in Tokens, NEW r \in Replicas,
             Arrive(t, v, k, r)
      PROVE  RegisteredLock'
  BY <1>2, RegisteredQuiet DEF Arrive, Locked, Critical, TypeOK, storeVars, lockVars
<1>3. ASSUME NEW t \in Calls, Get(t)
      PROVE  RegisteredLock'
  BY <1>3, RegisteredQuiet DEF Get, Goto, Locked, Critical, TypeOK, storeVars, lockVars
<1>4. ASSUME NEW t \in Calls, EarlyReturn(t)
      PROVE  RegisteredLock'
  BY <1>4, RegisteredQuiet
  DEF EarlyReturn, Return, Goto, Locked, Critical, TypeOK, storeVars, lockVars
<1>5. ASSUME NEW t \in Calls, SetDefault(t)
      PROVE  RegisteredLock'
  <2> SUFFICES ASSUME NEW u \in Calls, Locked(u)', (row[Tok(u)])' = "open",
                      ~ Disturbed(u)'
               PROVE  lock'[u] = (locks[Home(u)][Tok(u)])'
    BY DEF RegisteredLock
  <2>1. args' = args /\ row' = row /\ Tok(t) \in Tokens /\ Home(t) \in Replicas
    BY <1>5, ArgsType DEF SetDefault, storeVars
  <2>2. CASE u = t
    BY <1>5, <2>1, <2>2 DEF SetDefault, TypeOK, Tok, Home
  <2>3. CASE u # t
    <3>1. Locked(u) /\ pc[u] # "idle" /\ lock'[u] = lock[u]
      BY <1>5, <2>3 DEF SetDefault, Goto, Locked, Critical, TypeOK
    <3>2. ~ Disturbed(u) /\ Tok(u) \in Tokens /\ Home(u) \in Replicas
      BY <3>1, DisturbedStep, ArgsType
    <3>3. lock[u] = locks[Home(u)][Tok(u)] /\ lock[u] # None
      BY <2>1, <3>1, <3>2, GateAssumption DEF RegisteredLock, HeldLock, Tok
    <3>. QED
      BY <1>5, <2>1, <3>1, <3>2, <3>3 DEF SetDefault, TypeOK, Tok, Home
  <2>. QED
    BY <2>2, <2>3
<1>6. ASSUME NEW t \in Calls, DeleteExpired(t)
      PROVE  RegisteredLock'
  <2>1. /\ lock' = lock /\ pc[t] # "idle"
        /\ row' = [row EXCEPT ![Tok(t)] = "absent"]
    BY <1>6 DEF DeleteExpired
  <2>2. \A u \in Calls : Locked(u) /\ row'[Tok(u)] = "open" => row[Tok(u)] = "open"
    BY <2>1, <1>a DEF TypeOK
  <2>3. CASE Leave(t, "unknown")
    BY <2>1, <2>2, <2>3, <1>a, RegisteredLeave, SomeResults DEF TypeOK
  <2>4. CASE Return(t, "unknown") /\ UNCHANGED lockVars
    BY <2>1, <2>2, <2>4, RegisteredQuiet DEF Return, Locked, Critical, TypeOK, lockVars
  <2>. QED
    BY <1>6, <2>3, <2>4 DEF DeleteExpired
<1>7. ASSUME NEW t \in Calls, Acquire(t)
      PROVE  RegisteredLock'
  BY <1>7, RegisteredQuiet DEF Acquire, Goto, Locked, Critical, TypeOK, storeVars
<1>8. ASSUME NEW t \in Calls, Recheck(t)
      PROVE  RegisteredLock'
  <2>1. lock' = lock /\ row' = row /\ pc[t] = "recheck" /\ pc[t] # "idle"
    BY <1>8 DEF Recheck, storeVars
  <2>2. CASE Leave(t, "unknown") /\ snap[t] # "open"
    BY <2>1, <2>2, RegisteredLeave, SomeResults DEF Settled
  <2>3. CASE Leave(t, "verified") /\ snap[t] # "open"
    BY <2>1, <2>3, RegisteredLeave, SomeResults DEF Settled
  <2>4. CASE locks' = locks
    BY <1>8, <2>1, <2>4, RegisteredQuiet
    DEF Recheck, Goto, Leave, Return, Locked, Critical, TypeOK
  <2>. QED
    BY <1>8, <2>2, <2>3, <2>4 DEF Recheck, lockVars
<1>9. ASSUME NEW t \in Calls, CheapChecks(t)
      PROVE  RegisteredLock'
  <2>1. lock' = lock /\ row' = row /\ pc[t] = "checks" /\ pc[t] # "idle"
    BY <1>9 DEF CheapChecks, storeVars
  <2>2. CASE Leave(t, "failed")
    BY <2>1, <2>2, RegisteredLeave, SomeResults
  <2>3. CASE locks' = locks
    BY <1>9, <2>1, <2>3, RegisteredQuiet
    DEF CheapChecks, Goto, Leave, Return, Locked, Critical, TypeOK
  <2>. QED
    BY <1>9, <2>2, <2>3 DEF CheapChecks, lockVars
<1>10. ASSUME NEW t \in Calls, LookupChallenge(t)
      PROVE  RegisteredLock'
  <2>1. lock' = lock /\ row' = row /\ pc[t] = "lookup" /\ pc[t] # "idle"
    BY <1>10 DEF LookupChallenge, storeVars
  <2>2. CASE Leave(t, "failed")
    BY <2>1, <2>2, RegisteredLeave, SomeResults
  <2>3. CASE locks' = locks
    BY <1>10, <2>1, <2>3, RegisteredQuiet
    DEF LookupChallenge, Goto, Leave, Return, Locked, Critical, TypeOK
  <2>. QED
    BY <1>10, <2>2, <2>3 DEF LookupChallenge, lockVars
<1>11. ASSUME NEW t \in Calls, SolveChallenge(t)
      PROVE  RegisteredLock'
  <2>1. lock' = lock /\ row' = row /\ pc[t] = "solve" /\ pc[t] # "idle"
    BY <1>11 DEF SolveChallenge
  <2>2. CASE Leave(t, "failed")
    BY <2>1, <2>2, RegisteredLeave, SomeResults
  <2>3. CASE locks' = locks /\ Goto(t, "mark")
    BY <2>1, <2>3, RegisteredQuiet DEF Goto, Locked, Critical, TypeOK
  <2>. QED
    BY <1>11, <2>2, <2>3 DEF SolveChallenge, lockVars
<1>12. ASSUME NEW t \in Calls, MarkVerified(t)
      PROVE  RegisteredLock'
  <2>1. lock' = lock /\ pc[t] = "mark" /\ pc[t] # "idle"
    BY <1>12 DEF MarkVerified
  <2>2. CASE Leave(t, "error") /\ UNCHANGED row
    BY <2>1, <2>2, RegisteredLeave, SomeResults
  <2>3. CASE /\ locks' = locks /\ Goto(t, "publish")
             /\ row' = [row EXCEPT ![Tok(t)] = IF @ = "absent" THEN @ ELSE "verified"]
    <3>1. \A u \in Calls : Locked(u) /\ row'[Tok(u)] = "open" => row[Tok(u)] = "open"
      BY <2>1, <2>3, <1>a DEF TypeOK
    <3>. QED
      BY <2>1, <2>3, <3>1, RegisteredQuiet DEF Goto, Locked, Critical, TypeOK
  <2>. QED
    BY <1>12, <2>2, <2>3 DEF MarkVerified, lockVars
<1>13. ASSUME NEW t \in Calls, Publish(t)
      PROVE  RegisteredLock'
  BY <1>13, RegisteredLeave, SomeResults DEF Publish, Settled, storeVars
<1>14. ASSUME NEW t \in Calls, Fault(t)
      PROVE  RegisteredLock'
  <2>1. lock' = lock /\ row' = row
    BY <1>14 DEF Fault, storeVars
  <2>2. CASE Leave(t, "error") /\ pc[t] # "idle"
    BY <2>1, <2>2, RegisteredLeave, SomeResults
  <2>3. CASE Return(t, "error") /\ UNCHANGED lockVars
    BY <2>1, <2>3, RegisteredQuiet DEF Return, Locked, Critical, TypeOK, lockVars
  <2>. QED
    BY <1>14, <2>2, <2>3 DEF Fault, Critical
<1>15. ASSUME NEW r \in Replicas, Crash(r)
      PROVE  RegisteredLock'
  <2> SUFFICES ASSUME NEW u \in Calls, Locked(u)', (row[Tok(u)])' = "open",
                      ~ Disturbed(u)'
               PROVE  lock'[u] = (locks[Home(u)][Tok(u)])'
    BY DEF RegisteredLock
  <2>1. args' = args /\ row' = row /\ lock' = lock /\ Locked(u) /\ Home(u) # r
    BY <1>15 DEF Crash, Locked, Critical, TypeOK, storeVars
  <2>2. ~ Disturbed(u) /\ Home(u) \in Replicas
    BY <2>1, DisturbedStep, ArgsType DEF Locked, Critical
  <2>. QED
    BY <1>15, <2>1, <2>2 DEF Crash, RegisteredLock, TypeOK, Tok, Home
<1>16. ASSUME PurgeExpired
      PROVE  RegisteredLock'
  BY <1>16, <1>a, RegisteredQuiet
  DEF PurgeExpired, Locked, Critical, TypeOK, callVars, lockVars
<1>17. ASSUME Tick
      PROVE  RegisteredLock'
  BY <1>17, RegisteredQuiet DEF Tick, Locked, callVars, storeVars, lockVars
<1>. QED BY <1>1, <1>2, <1>3, <1>4, <1>5, <1>6, <1>7, <1>8, <1>9, <1>10, <1>11,
     <1>12, <1>13, <1>14, <1>15, <1>16, <1>17 DEF Next, Run

\* Steps that make no call a candidate.
LEMMA CandidateQuiet ==
    ASSUME TypeOK, Finished, OneCandidate, Next,
           \A u \in Calls : Candidate(u)' => Candidate(u)
    PROVE  OneCandidate'
<1> SUFFICES ASSUME NEW t \in Calls, NEW u \in Calls, Candidate(t)', Candidate(u)',
                    Same(t, u)', ~ Disturbed(t)'
             PROVE  t = u
  BY DEF OneCandidate
<1>1. Candidate(t) /\ Candidate(u) /\ pc[t] # "idle" /\ pc[u] # "idle"
  BY DEF Candidate, Finished
<1>2. args'[t] = args[t] /\ args'[u] = args[u] /\ ~ Disturbed(t)
  BY <1>1, FrozenStep, DisturbedStep
<1>. QED
  BY <1>1, <1>2 DEF OneCandidate, Same, Tok, Home

\* At most one call of a replica gets past the re-read of an undisturbed link.
LEMMA OneCandidateStep ==
    ASSUME TypeOK, Finished, Settled, HeldLock, RegisteredLock, OneCandidate, Next
    PROVE  OneCandidate'
<1>1. ASSUME NEW k \in Tokens, CreateVerification(k)
      PROVE  OneCandidate'
  BY <1>1, CandidateQuiet DEF CreateVerification, Candidate, Finished, TypeOK,
     callVars, lockVars
<1>2. ASSUME NEW t \in Calls, NEW v \in Visits, NEW k \in Tokens, NEW r \in Replicas, Arrive(t, v, k, r)
      PROVE  OneCandidate'
  BY <1>2, CandidateQuiet DEF Arrive, Candidate, Finished, TypeOK, storeVars,
     lockVars
<1>3. ASSUME NEW t \in Calls, Get(t)
      PROVE  OneCandidate'
  <2> SUFFICES ASSUME NEW u \in Calls, NEW w \in Calls, Candidate(u)', Candidate(w)',
                      Same(u, w)', ~ Disturbed(u)'
               PROVE  u = w
    BY DEF OneCandidate
  <2>1. pc[u] # "idle" /\ pc[w] # "idle"
    BY <1>3 DEF Get, Goto, Candidate, Finished, TypeOK
  <2>2. args' = args /\ row' = row /\ published' = published /\ Same(u, w)
    BY <1>3 DEF Get, storeVars, Same, Tok, Home
  <2>3. ~ Disturbed(u) /\ ~ Disturbed(w)
    BY <2>1, <2>2, DisturbedStep DEF Disturbed, Same
  <2>4. \A v \in Calls : v # t /\ Candidate(v)' => Candidate(v)
    BY <1>3, <2>2 DEF Get, Goto, Candidate, TypeOK
  <2>5. Candidate(t)' => pc[t] = "reread" /\ row[Tok(t)] = "open"
    BY <1>3, <2>2 DEF Get, Goto, Candidate, Finished, TypeOK
  <2>6. \A v \in Calls : Candidate(v) /\ row[Tok(v)] = "open" => pc[v] \in Critical
    BY DEF Candidate, Settled, Critical
  <2>7. ASSUME NEW v \in Calls, v # t, Candidate(v)', Same(v, t), ~ Disturbed(v),
               Candidate(t)'
        PROVE  FALSE
    <3>1. row[Tok(v)] = "open" /\ pc[v] \in Critical /\ pc[t] \in Critical
      BY <2>4, <2>5, <2>6, <2>7 DEF Same, Critical
    <3>2. ~ Disturbed(t)
      BY <2>7 DEF Disturbed, Same
    <3>3. lock[v] = lock[t]
      BY <2>5, <2>7, <3>1, <3>2 DEF RegisteredLock, Locked, Same
    <3>. QED
      BY <2>7, <3>1, <3>3 DEF HeldLock
  <2>8. CASE u # t /\ w # t
    BY <2>2, <2>3, <2>4, <2>8 DEF OneCandidate
  <2>. QED
    BY <2>2, <2>3, <2>7, <2>8 DEF Same
<1>4. ASSUME NEW t \in Calls, EarlyReturn(t)
      PROVE  OneCandidate'
  BY <1>4, CandidateQuiet DEF EarlyReturn, Return, Goto, Expired, Candidate,
     Finished, TypeOK, storeVars, lockVars
<1>5. ASSUME NEW t \in Calls, SetDefault(t)
      PROVE  OneCandidate'
  BY <1>5, CandidateQuiet DEF SetDefault, Goto, Expired, Candidate, Finished,
     TypeOK, storeVars
<1>6. ASSUME NEW t \in Calls, DeleteExpired(t)
      PROVE  OneCandidate'
  BY <1>6, CandidateQuiet DEF DeleteExpired, Return, Leave, Candidate, Finished,
     TypeOK, lockVars
<1>7. ASSUME NEW t \in Calls, Acquire(t)
      PROVE  OneCandidate'
  BY <1>7, CandidateQuiet DEF Acquire, Goto, Candidate, Finished, TypeOK,
     storeVars
<1>8. ASSUME NEW t \in Calls, Recheck(t)
      PROVE  OneCandidate'
  BY <1>8, CandidateQuiet DEF Recheck, Return, Leave, Goto, Expired, Candidate,
     Finished, TypeOK, storeVars, lockVars
<1>9. ASSUME NEW t \in Calls, CheapChecks(t)
      PROVE  OneCandidate'
  BY <1>9, CandidateQuiet DEF CheapChecks, Return, Leave, Goto, Candidate,
     Finished, TypeOK, storeVars, lockVars
<1>10. ASSUME NEW t \in Calls, LookupChallenge(t)
      PROVE  OneCandidate'
  BY <1>10, CandidateQuiet DEF LookupChallenge, Return, Leave, Goto, Candidate,
     Finished, TypeOK, storeVars, lockVars
<1>11. ASSUME NEW t \in Calls, SolveChallenge(t)
      PROVE  OneCandidate'
  BY <1>11, CandidateQuiet DEF SolveChallenge, Return, Leave, Goto, Candidate,
     Finished, TypeOK, lockVars
<1>12. ASSUME NEW t \in Calls, MarkVerified(t)
      PROVE  OneCandidate'
  BY <1>12, CandidateQuiet DEF MarkVerified, Return, Leave, Goto, Candidate,
     Finished, TypeOK, lockVars
<1>13. ASSUME NEW t \in Calls, Publish(t)
      PROVE  OneCandidate'
  BY <1>13, CandidateQuiet DEF Publish, Return, Leave, Candidate, Finished,
     TypeOK, storeVars
<1>14. ASSUME NEW t \in Calls, Fault(t)
      PROVE  OneCandidate'
  BY <1>14, CandidateQuiet DEF Fault, Return, Leave, Candidate, Finished,
     TypeOK, storeVars, lockVars
<1>15. ASSUME NEW r \in Replicas, Crash(r)
      PROVE  OneCandidate'
  BY <1>15, CandidateQuiet DEF Crash, Candidate, Finished, TypeOK, storeVars
<1>16. ASSUME PurgeExpired
      PROVE  OneCandidate'
  BY <1>16, CandidateQuiet DEF PurgeExpired, Candidate, Finished, TypeOK,
     callVars, lockVars
<1>17. ASSUME Tick
      PROVE  OneCandidate'
  BY <1>17, CandidateQuiet DEF Tick, Candidate, Finished, TypeOK, callVars,
     storeVars, lockVars
<1>. QED BY <1>1, <1>2, <1>3, <1>4, <1>5, <1>6, <1>7, <1>8, <1>9, <1>10, <1>11,
     <1>12, <1>13, <1>14, <1>15, <1>16, <1>17 DEF Next, Run

\* A call made after an answer "verified" stops before the lock.
LEMMA AckedStep ==
    ASSUME TypeOK, Finished, Created, Settled, AckedStopsEarly, Next
    PROVE  AckedStopsEarly'
<1>1. ASSUME NEW k \in Tokens, CreateVerification(k)
      PROVE  AckedStopsEarly'
  <2>1. \A u \in Calls : pc[u] # "idle" => Tok(u) \in Tokens
    BY ArgsType
  <2>. QED
    BY <1>1, <2>1 DEF CreateVerification, Created, AckedStopsEarly, Finished, NoArgs, TypeOK, Tok,
       callVars, lockVars
<1>2. ASSUME NEW t \in Calls, NEW v \in Visits, NEW k \in Tokens, NEW r \in Replicas, Arrive(t, v, k, r)
      PROVE  AckedStopsEarly'
  BY <1>2 DEF Arrive, AckedStopsEarly, Settled, Finished, TypeOK, Tok,
     storeVars, lockVars
<1>3. ASSUME NEW t \in Calls, Get(t)
      PROVE  AckedStopsEarly'
  BY <1>3 DEF Get, Goto, AckedStopsEarly, Settled, Finished, TypeOK, Tok,
     storeVars, lockVars
<1>4. ASSUME NEW t \in Calls, EarlyReturn(t)
      PROVE  AckedStopsEarly'
  BY <1>4 DEF EarlyReturn, Return, Goto, Expired, AckedStopsEarly, Settled,
     Finished, TypeOK, Tok, storeVars, lockVars
<1>5. ASSUME NEW t \in Calls, SetDefault(t)
      PROVE  AckedStopsEarly'
  BY <1>5 DEF SetDefault, Goto, Expired, AckedStopsEarly, Settled, Finished,
     TypeOK, Tok, storeVars
<1>6. ASSUME NEW t \in Calls, DeleteExpired(t)
      PROVE  AckedStopsEarly'
  BY <1>6 DEF DeleteExpired, Return, Leave, AckedStopsEarly, Settled, Finished,
     TypeOK, Tok, lockVars
<1>7. ASSUME NEW t \in Calls, Acquire(t)
      PROVE  AckedStopsEarly'
  BY <1>7 DEF Acquire, Goto, AckedStopsEarly, Settled, Finished, TypeOK, Tok,
     storeVars
<1>8. ASSUME NEW t \in Calls, Recheck(t)
      PROVE  AckedStopsEarly'
  BY <1>8 DEF Recheck, Return, Leave, Goto, Expired, AckedStopsEarly, Settled,
     Finished, TypeOK, Tok, storeVars, lockVars
<1>9. ASSUME NEW t \in Calls, CheapChecks(t)
      PROVE  AckedStopsEarly'
  BY <1>9 DEF CheapChecks, Return, Leave, Goto, AckedStopsEarly, Settled,
     Finished, TypeOK, Tok, storeVars, lockVars
<1>10. ASSUME NEW t \in Calls, LookupChallenge(t)
      PROVE  AckedStopsEarly'
  BY <1>10 DEF LookupChallenge, Return, Leave, Goto, AckedStopsEarly, Settled,
     Finished, TypeOK, Tok, storeVars, lockVars
<1>11. ASSUME NEW t \in Calls, SolveChallenge(t)
      PROVE  AckedStopsEarly'
  BY <1>11 DEF SolveChallenge, Return, Leave, Goto, AckedStopsEarly, Settled,
     Finished, TypeOK, Tok, lockVars
<1>12. ASSUME NEW t \in Calls, MarkVerified(t)
      PROVE  AckedStopsEarly'
  <2>1. \A u \in Calls : pc[u] # "idle" => Tok(u) \in Tokens
    BY ArgsType
  <2>. QED
    BY <1>12, <2>1 DEF MarkVerified, Return, Leave, Goto, AckedStopsEarly, Finished, NoArgs, TypeOK, Tok,
       lockVars
<1>13. ASSUME NEW t \in Calls, Publish(t)
      PROVE  AckedStopsEarly'
  BY <1>13 DEF Publish, Return, Leave, AckedStopsEarly, Settled, Finished,
     TypeOK, Tok, storeVars
<1>14. ASSUME NEW t \in Calls, Fault(t)
      PROVE  AckedStopsEarly'
  BY <1>14 DEF Fault, Return, Leave, AckedStopsEarly, Settled, Finished, TypeOK,
     Tok, storeVars, lockVars
<1>15. ASSUME NEW r \in Replicas, Crash(r)
      PROVE  AckedStopsEarly'
  BY <1>15 DEF Crash, AckedStopsEarly, Settled, Finished, TypeOK, Tok, storeVars
<1>16. ASSUME PurgeExpired
      PROVE  AckedStopsEarly'
  <2>1. \A u \in Calls : pc[u] # "idle" => Tok(u) \in Tokens
    BY ArgsType
  <2>. QED
    BY <1>16, <2>1 DEF PurgeExpired, AckedStopsEarly, Finished, NoArgs, TypeOK, Tok, callVars, lockVars
<1>17. ASSUME Tick
      PROVE  AckedStopsEarly'
  BY <1>17 DEF Tick, AckedStopsEarly, Settled, Finished, TypeOK, Tok, callVars,
     storeVars, lockVars
<1>. QED BY <1>1, <1>2, <1>3, <1>4, <1>5, <1>6, <1>7, <1>8, <1>9, <1>10, <1>11,
     <1>12, <1>13, <1>14, <1>15, <1>16, <1>17 DEF Next, Run

LEMMA TimeType ==
    ASSUME TypeOK, NEW t \in Calls
    PROVE  args[t].at \in Nat
  BY GateAssumption DEF TypeOK, Args, NoArgs

\* A call reaches the lock only if it started before the link expired.
LEMMA InTimeStep ==
    ASSUME TypeOK, Finished, Created, InTime, Next
    PROVE  InTime'
<1>1. ASSUME NEW k \in Tokens, CreateVerification(k)
      PROVE  InTime'
  <2>1. \A u \in Calls : pc[u] # "idle" => Tok(u) \in Tokens /\ args[u].at \in Nat
    BY ArgsType, TimeType
  <2>2. now \in Nat /\ expires \in [Tokens -> Nat]
    BY GateAssumption DEF TypeOK
  <2>. QED
    BY <1>1, <2>1, <2>2 DEF CreateVerification, Created, InTime, Finished,
       Locked, Critical, Tok, callVars, lockVars
<1>2. ASSUME NEW t \in Calls, NEW v \in Visits, NEW k \in Tokens, NEW r \in Replicas, Arrive(t, v, k, r)
      PROVE  InTime'
  BY <1>2, GateAssumption DEF Arrive, InTime, Finished, TypeOK, Locked,
     Critical, Tok, storeVars, lockVars
<1>3. ASSUME NEW t \in Calls, Get(t)
      PROVE  InTime'
  BY <1>3, GateAssumption DEF Get, Goto, InTime, Finished, TypeOK, Locked,
     Critical, Tok, storeVars, lockVars
<1>4. ASSUME NEW t \in Calls, EarlyReturn(t)
      PROVE  InTime'
  <2>1. \A u \in Calls : pc[u] # "idle" => Tok(u) \in Tokens /\ args[u].at \in Nat
    BY ArgsType, TimeType
  <2>2. now \in Nat /\ expires \in [Tokens -> Nat]
    BY GateAssumption DEF TypeOK
  <2>. QED
    BY <1>4, <2>1, <2>2 DEF EarlyReturn, Return, Goto, Expired, TypeOK, InTime, Finished, Locked, Critical,
       Tok, storeVars, lockVars
<1>5. ASSUME NEW t \in Calls, SetDefault(t)
      PROVE  InTime'
  <2>1. \A u \in Calls : pc[u] # "idle" => Tok(u) \in Tokens /\ args[u].at \in Nat
    BY ArgsType, TimeType
  <2>2. now \in Nat /\ expires \in [Tokens -> Nat]
    BY GateAssumption DEF TypeOK
  <2>. QED
    BY <1>5, <2>1, <2>2 DEF SetDefault, Goto, Expired, TypeOK, InTime, Finished, Locked, Critical, Tok,
       storeVars
<1>6. ASSUME NEW t \in Calls, DeleteExpired(t)
      PROVE  InTime'
  BY <1>6, GateAssumption DEF DeleteExpired, Return, Leave, InTime, Finished,
     TypeOK, Locked, Critical, Tok, lockVars
<1>7. ASSUME NEW t \in Calls, Acquire(t)
      PROVE  InTime'
  BY <1>7, GateAssumption DEF Acquire, Goto, InTime, Finished, TypeOK, Locked,
     Critical, Tok, storeVars
<1>8. ASSUME NEW t \in Calls, Recheck(t)
      PROVE  InTime'
  BY <1>8, GateAssumption DEF Recheck, Return, Leave, Goto, Expired, InTime,
     Finished, TypeOK, Locked, Critical, Tok, storeVars, lockVars
<1>9. ASSUME NEW t \in Calls, CheapChecks(t)
      PROVE  InTime'
  BY <1>9, GateAssumption DEF CheapChecks, Return, Leave, Goto, InTime,
     Finished, TypeOK, Locked, Critical, Tok, storeVars, lockVars
<1>10. ASSUME NEW t \in Calls, LookupChallenge(t)
      PROVE  InTime'
  BY <1>10, GateAssumption DEF LookupChallenge, Return, Leave, Goto, InTime,
     Finished, TypeOK, Locked, Critical, Tok, storeVars, lockVars
<1>11. ASSUME NEW t \in Calls, SolveChallenge(t)
      PROVE  InTime'
  BY <1>11, GateAssumption DEF SolveChallenge, Return, Leave, Goto, InTime,
     Finished, TypeOK, Locked, Critical, Tok, lockVars
<1>12. ASSUME NEW t \in Calls, MarkVerified(t)
      PROVE  InTime'
  BY <1>12, GateAssumption DEF MarkVerified, Return, Leave, Goto, InTime,
     Finished, TypeOK, Locked, Critical, Tok, lockVars
<1>13. ASSUME NEW t \in Calls, Publish(t)
      PROVE  InTime'
  BY <1>13, GateAssumption DEF Publish, Return, Leave, InTime, Finished, TypeOK,
     Locked, Critical, Tok, storeVars
<1>14. ASSUME NEW t \in Calls, Fault(t)
      PROVE  InTime'
  BY <1>14, GateAssumption DEF Fault, Return, Leave, InTime, Finished, TypeOK,
     Locked, Critical, Tok, storeVars, lockVars
<1>15. ASSUME NEW r \in Replicas, Crash(r)
      PROVE  InTime'
  BY <1>15, GateAssumption DEF Crash, InTime, Finished, TypeOK, Locked,
     Critical, Tok, storeVars
<1>16. ASSUME PurgeExpired
      PROVE  InTime'
  BY <1>16, GateAssumption DEF PurgeExpired, InTime, Finished, TypeOK, Locked,
     Critical, Tok, callVars, lockVars
<1>17. ASSUME Tick
      PROVE  InTime'
  <2>1. \A u \in Calls : pc[u] # "idle" => Tok(u) \in Tokens /\ args[u].at \in Nat
    BY ArgsType, TimeType
  <2>2. now \in Nat /\ expires \in [Tokens -> Nat]
    BY GateAssumption DEF TypeOK
  <2>. QED
    BY <1>17, <2>1, <2>2 DEF Tick, InTime, Finished, Locked, Critical, Tok, callVars, storeVars,
       lockVars
<1>. QED BY <1>1, <1>2, <1>3, <1>4, <1>5, <1>6, <1>7, <1>8, <1>9, <1>10, <1>11,
     <1>12, <1>13, <1>14, <1>15, <1>16, <1>17 DEF Next, Run

\* An answer is solved by a call that has passed the cheaper checks.
LEMMA SparedStep ==
    ASSUME TypeOK, Finished, RejectedCallSparesAnswer, Next
    PROVE  RejectedCallSparesAnswer'
<1>1. ASSUME UNCHANGED <<answer, args>>,
             \A t \in Calls : pc'[t] \in {"lookup", "solve"} => pc[t] \in {"lookup", "solve"}
      PROVE  RejectedCallSparesAnswer'
  BY <1>1 DEF RejectedCallSparesAnswer, Visit, Tok
<1>2. ASSUME NEW k \in Tokens, CreateVerification(k)
      PROVE  RejectedCallSparesAnswer'
  BY <1>2 DEF CreateVerification, TypeOK, RejectedCallSparesAnswer, Visit, Tok, callVars
<1>3. ASSUME NEW t \in Calls, NEW v \in Visits, NEW k \in Tokens, NEW r \in Replicas,
             Arrive(t, v, k, r)
      PROVE  RejectedCallSparesAnswer'
  <2>1. \A u \in Calls : u # t => args'[u] = args[u] /\ pc'[u] = pc[u]
    BY <1>3 DEF Arrive, TypeOK
  <2>2. pc'[t] = "get" /\ answer' = answer /\ Tok(t) = None
    BY <1>3 DEF Arrive, TypeOK, Finished, NoArgs, Tok, storeVars
  <2>3. \A u \in Calls : pc'[u] \in {"lookup", "solve"} => Visit(u)'.passes
    BY <2>1, <2>2 DEF RejectedCallSparesAnswer, Visit
  <2>4. ASSUME NEW j \in Tokens, answer'[j] \in {"solved", "exhausted"}
        PROVE  \E u \in Calls :
                   /\ Tok(u)' = j
                   /\ Visit(u)'.passes
                   /\ answer'[j] = "solved" => Visit(u)'.solves
    <3>1. PICK u \in Calls :
               /\ Tok(u) = j
               /\ Visit(u).passes
               /\ answer[j] = "solved" => Visit(u).solves
      BY <2>2, <2>4 DEF RejectedCallSparesAnswer
    <3>2. u # t
      BY <2>2, <3>1, GateAssumption
    <3>3. Tok(u)' = Tok(u) /\ Visit(u)' = Visit(u)
      BY <2>1, <3>2 DEF Visit, Tok
    <3>. QED
      BY <2>2, <3>1, <3>3
  <2>. QED
    BY <2>3, <2>4 DEF RejectedCallSparesAnswer
<1>4. ASSUME NEW t \in Calls, CheapChecks(t)
      PROVE  RejectedCallSparesAnswer'
  <2>1. UNCHANGED <<answer, args>>
    BY <1>4 DEF CheapChecks, storeVars
  <2>2. \A u \in Calls : pc'[u] \in {"lookup", "solve"} =>
            pc[u] \in {"lookup", "solve"} \/ Visit(u).passes
    BY <1>4 DEF CheapChecks, Goto, Leave, Return, TypeOK
  <2>. QED
    BY <2>1, <2>2 DEF RejectedCallSparesAnswer, Visit, Tok
<1>5. ASSUME NEW t \in Calls, LookupChallenge(t)
      PROVE  RejectedCallSparesAnswer'
  BY <1>1, <1>5 DEF LookupChallenge, Goto, Leave, Return, TypeOK, storeVars
<1>6. ASSUME NEW t \in Calls, SolveChallenge(t)
      PROVE  RejectedCallSparesAnswer'
  <2>1. /\ args' = args /\ Visit(t).passes
        /\ \A u \in Calls : pc'[u] \in {"lookup", "solve"} => pc[u] \in {"lookup", "solve"}
    BY <1>6 DEF SolveChallenge, Goto, Leave, Return, TypeOK, RejectedCallSparesAnswer
  <2>2. \A k \in Tokens : answer'[k] # answer[k] =>
            k = Tok(t) /\ (answer'[k] = "solved" => Visit(t).solves)
    BY <1>6 DEF SolveChallenge, TypeOK
  <2>. QED
    BY <2>1, <2>2 DEF RejectedCallSparesAnswer, Visit, Tok
<1>7. ASSUME NEW t \in Calls,
             \/ Get(t) \/ EarlyReturn(t) \/ SetDefault(t) \/ Acquire(t) \/ Recheck(t)
      PROVE  RejectedCallSparesAnswer'
  BY <1>1, <1>7 DEF Get, EarlyReturn, SetDefault, Acquire, Recheck, Goto, Leave, Return, TypeOK,
     storeVars
<1>8. ASSUME NEW t \in Calls,
             DeleteExpired(t) \/ MarkVerified(t) \/ Publish(t) \/ Fault(t)
      PROVE  RejectedCallSparesAnswer'
  BY <1>1, <1>8 DEF DeleteExpired, MarkVerified, Publish, Fault, Goto, Leave, Return, TypeOK,
     storeVars
<1>9. ASSUME NEW r \in Replicas, Crash(r)
      PROVE  RejectedCallSparesAnswer'
  BY <1>1, <1>9 DEF Crash, storeVars
<1>10. ASSUME PurgeExpired \/ Tick
       PROVE  RejectedCallSparesAnswer'
  BY <1>1, <1>10 DEF PurgeExpired, Tick, storeVars, callVars
<1>. QED
  BY <1>2, <1>3, <1>4, <1>5, <1>6, <1>7, <1>8, <1>9, <1>10 DEF Next, Run

-----------------------------------------------------------------------------
\* IInv is inductive.
LEMMA IInvStep == IInv /\ [Next]_vars => IInv'
<1>1. CASE IInv /\ Next
  <2> USE <1>1 DEF IInv
  <2>1. TypeOK'
    BY TypeStep
  <2>2. Finished' /\ Created' /\ Settled'
    BY FinishedStep, CreatedStep, SettledStep
  <2>3. HeldLock' /\ RegisteredLock' /\ OneCandidate'
    BY HeldStep, RegisteredStep, OneCandidateStep
  <2>4. AckedStopsEarly' /\ InTime' /\ RejectedCallSparesAnswer'
    BY AckedStep, InTimeStep, SparedStep
  <2>. QED
    BY <2>1, <2>2, <2>3, <2>4
<1>2. CASE IInv /\ UNCHANGED vars
  BY <1>2 DEF IInv, TypeOK, Finished, Created, Settled, HeldLock, RegisteredLock,
     OneCandidate, AckedStopsEarly, InTime, RejectedCallSparesAnswer, Locked,
     Candidate, Disturbed, Same, Tok, Home, Visit, vars, storeVars, callVars, lockVars
<1>. QED
  BY <1>1, <1>2

LEMMA Invariance == Spec => []IInv
  BY InitInv, IInvStep, PTL DEF Spec

\* Every variable keeps its type.
THEOREM TypeCorrect == Spec => []TypeOK
<1>1. IInv => TypeOK
  BY DEF IInv
<1>. QED
  BY <1>1, Invariance, PTL

\* verify() publishes captcha_verified at most once per link and replica, for any
\* number of calls and under exceptions, cancellations, crashes and purges, as
\* long as no call for the link failed its checks or raised on that replica.
THEOREM PublishesOnce == Spec => []PublishOncePerReplica
<1>1. IInv => PublishOncePerReplica
  BY DEF IInv, OneCandidate, PublishOncePerReplica, Candidate, TypeOK
<1>. QED
  BY <1>1, Invariance, PTL

\* After an answer "verified", later calls neither run the checks nor publish.
THEOREM AckedIsFinal == Spec => []AckedStaysVerified
<1>1. IInv => AckedStaysVerified
  BY DEF IInv, AckedStopsEarly, AckedStaysVerified
<1>. QED
  BY <1>1, Invariance, PTL

\* A call made after the link expired is never told "verified".
THEOREM LateCallsFail == Spec => []LateCallNeverVerifies
<1>1. IInv => LateCallNeverVerifies
  BY DEF IInv, InTime, LateCallNeverVerifies
<1>. QED
  BY <1>1, Invariance, PTL

\* A call that one of the other checks turns away never reaches the captcha provider;
\* whatever became of a challenge, solved or out of guesses, a call that passed them did.
THEOREM AnswersAreSpared == Spec => []RejectedCallSparesAnswer
<1>1. IInv => RejectedCallSparesAnswer
  BY DEF IInv
<1>. QED
  BY <1>1, Invariance, PTL

-----------------------------------------------------------------------------
(* CaptchaGate implements VerificationLink. *)

LEMMA SameLink ==
    ASSUME row' = row, expires' = expires
    PROVE  LinkState' = LinkState
  BY DEF LinkState

LEMMA SameAsked ==
    ASSUME args' = args
    PROVE  [t \in Calls |-> Tok(t)]' = [t \in Calls |-> Tok(t)]
  BY DEF Tok

\* A return is the abstract answer to a call that was still unanswered.
LEMMA TellStep ==
    ASSUME TypeOK, Finished, NEW t \in Calls, pc[t] \notin {"idle", "done"},
           NEW a, Return(t, a)
    PROVE  Link!Tell(t, a)
<1>1. Tok(t) \in Tokens /\ Tok(t) # None
  BY ArgsType, GateAssumption
<1>2. result[t] = "none"
  BY DEF Finished
<1>. QED
  BY <1>1, <1>2 DEF Link!Tell, Return

\* An answer that leaves the store alone and says nothing the link denies.
LEMMA AnswerStep ==
    ASSUME TypeOK, Finished, Created, NEW t \in Calls, pc[t] \notin {"idle", "done"},
           NEW a \in {"verified", "unknown", "pending", "failed", "error"}, Return(t, a),
           a = "verified" => row[Tok(t)] # "open",
           a = "unknown" => row[Tok(t)] = "absent",
           row' = row, expires' = expires, args' = args, published' = published
    PROVE  Link!Next
<1>1. Link!Tell(t, a)
  BY TellStep
<1>2. UNCHANGED <<LinkState, [u \in Calls |-> Tok(u)], published>>
  BY SameLink, SameAsked
<1>3. Tok(t) \in Tokens /\ expires[Tok(t)] # 0
  BY ArgsType DEF Created
<1>4. LinkState[Tok(t)] = IF row[Tok(t)] # "absent" THEN row[Tok(t)] ELSE "gone"
  BY <1>3 DEF LinkState
<1>5. a = "verified" => LinkState[Tok(t)] \in {"verified", "gone"}
  BY <1>3, <1>4 DEF TypeOK, RowStates
<1>6. a = "unknown" => LinkState[Tok(t)] = "gone"
  BY <1>4
<1>7. Link!Answer(t)
  BY <1>1, <1>2, <1>5, <1>6 DEF Link!Answer, Link!Settled
<1>. QED
  BY <1>7 DEF Link!Next

\* A step that answers nobody, asks nothing and leaves the store alone.
LEMMA SilentStep ==
    ASSUME row' = row, expires' = expires, args' = args, result' = result,
           published' = published
    PROVE  UNCHANGED Link!vars
  BY SameLink, SameAsked DEF Link!vars

\* Every step of the gate is a step of VerificationLink or leaves it unchanged.
LEMMA LinkStep ==
    ASSUME IInv, Next
    PROVE  [Link!Next]_(Link!vars)
<1> USE DEF IInv
<1>1. ASSUME NEW k \in Tokens, CreateVerification(k)
      PROVE  Link!Open(k)
  <2>1. row[k] = "absent" /\ now \in Nat
    BY <1>1, GateAssumption DEF CreateVerification, Created, TypeOK
  <2>2. expires' = [expires EXCEPT ![k] = now + Ttl] /\ now + Ttl # 0
    BY <1>1, <2>1, GateAssumption DEF CreateVerification
  <2>3. row' = [row EXCEPT ![k] = "open"]
    BY <1>1 DEF CreateVerification
  <2>4. LinkState[k] = "none"
    BY <1>1, <2>1 DEF CreateVerification, LinkState
  <2>5. LinkState' = [LinkState EXCEPT ![k] = "open"]
    BY <2>1, <2>2, <2>3 DEF LinkState, TypeOK
  <2>6. UNCHANGED <<[t \in Calls |-> Tok(t)], result, published>>
    BY <1>1, SameAsked DEF CreateVerification, callVars
  <2>. QED
    BY <2>4, <2>5, <2>6 DEF Link!Open
<1>2. ASSUME NEW t \in Calls, NEW v \in Visits, NEW k \in Tokens, NEW r \in Replicas,
             Arrive(t, v, k, r)
      PROVE  Link!Ask(t, k)
  <2>1. Tok(t) = None /\ Tok(t)' = k
    BY <1>2 DEF Arrive, Finished, NoArgs, Tok, TypeOK
  <2>2. [u \in Calls |-> Tok(u)]' = [[u \in Calls |-> Tok(u)] EXCEPT ![t] = k]
    BY <1>2, <2>1 DEF Arrive, Tok, TypeOK
  <2>3. LinkState[k] # "none"
    BY <1>2 DEF Arrive, LinkState, TypeOK, RowStates
  <2>4. UNCHANGED <<LinkState, result, published>>
    BY <1>2, SameLink DEF Arrive, storeVars
  <2>. QED
    BY <2>1, <2>2, <2>3, <2>4 DEF Link!Ask
<1>3. ASSUME NEW t \in Calls, Get(t)
      PROVE  UNCHANGED Link!vars
  BY <1>3, SilentStep DEF Get, storeVars
<1>4. ASSUME NEW t \in Calls, EarlyReturn(t)
      PROVE  [Link!Next]_(Link!vars)
  <2>1. /\ row' = row /\ expires' = expires /\ args' = args /\ published' = published
        /\ pc[t] = "got"
    BY <1>4 DEF EarlyReturn, storeVars
  <2>2. CASE Return(t, "unknown") /\ snap[t] = "absent"
    BY <2>1, <2>2, AnswerStep DEF Settled
  <2>3. CASE UNCHANGED result
    BY <2>1, <2>3, SilentStep
  <2>4. CASE Return(t, "verified") /\ snap[t] = "verified"
    BY <2>1, <2>4, AnswerStep DEF Settled
  <2>5. CASE Return(t, "pending")
    BY <2>1, <2>5, AnswerStep
  <2>. QED
    BY <1>4, <2>2, <2>3, <2>4, <2>5 DEF EarlyReturn
<1>5. ASSUME NEW t \in Calls, SetDefault(t)
      PROVE  UNCHANGED Link!vars
  BY <1>5, SilentStep DEF SetDefault, storeVars
<1>6. ASSUME NEW t \in Calls, DeleteExpired(t)
      PROVE  Link!Next
  <2>1. /\ expires' = expires /\ args' = args /\ published' = published
        /\ row' = [row EXCEPT ![Tok(t)] = "absent"]
        /\ pc[t] \notin {"idle", "done"} /\ Return(t, "unknown")
    BY <1>6 DEF DeleteExpired, Leave
  <2>2. Tok(t) \in Tokens /\ expires[Tok(t)] # 0
    BY <2>1, ArgsType DEF Created
  <2>3. CASE row[Tok(t)] = "absent"
    <3>1. row' = row
      BY <2>1, <2>3 DEF TypeOK
    <3>. QED
      BY <2>1, <2>3, <3>1, AnswerStep
  <2>4. CASE row[Tok(t)] # "absent"
    <3>1. LinkState[Tok(t)] \in {"open", "verified"}
      BY <2>2, <2>4 DEF LinkState, TypeOK, RowStates
    <3>2. LinkState' = [k \in Tokens |-> IF k \in {Tok(t)} THEN "gone" ELSE LinkState[k]]
      BY <2>1, <2>2 DEF LinkState, TypeOK
    <3>3. Link!Tell(t, "unknown")
      BY <2>1, TellStep
    <3>4. UNCHANGED <<[u \in Calls |-> Tok(u)], published>>
      BY <2>1, SameAsked
    <3>5. Link!LapseAndTell(t)
      BY <3>1, <3>2, <3>3, <3>4 DEF Link!LapseAndTell, Link!Lapse
    <3>. QED
      BY <3>5 DEF Link!Next
  <2>. QED
    BY <2>3, <2>4
<1>7. ASSUME NEW t \in Calls, Acquire(t)
      PROVE  UNCHANGED Link!vars
  BY <1>7, SilentStep DEF Acquire, storeVars
<1>8. ASSUME NEW t \in Calls, Recheck(t)
      PROVE  [Link!Next]_(Link!vars)
  <2>1. /\ row' = row /\ expires' = expires /\ args' = args /\ published' = published
        /\ pc[t] = "recheck"
    BY <1>8 DEF Recheck, storeVars
  <2>2. CASE Return(t, "unknown") /\ snap[t] = "absent"
    BY <2>1, <2>2, AnswerStep DEF Settled
  <2>3. CASE UNCHANGED result
    BY <2>1, <2>3, SilentStep
  <2>4. CASE Return(t, "verified") /\ snap[t] = "verified"
    BY <2>1, <2>4, AnswerStep DEF Settled
  <2>. QED
    BY <1>8, <2>2, <2>3, <2>4 DEF Recheck, Leave
<1>9. ASSUME NEW t \in Calls, CheapChecks(t) \/ LookupChallenge(t) \/ SolveChallenge(t)
      PROVE  [Link!Next]_(Link!vars)
  <2>1. /\ row' = row /\ expires' = expires /\ args' = args /\ published' = published
        /\ pc[t] \in {"checks", "lookup", "solve"}
    BY <1>9 DEF CheapChecks, LookupChallenge, SolveChallenge, storeVars
  <2>2. Return(t, "failed") \/ result' = result
    BY <1>9 DEF CheapChecks, LookupChallenge, SolveChallenge, Leave
  <2>. QED
    BY <2>1, <2>2, AnswerStep, SilentStep
<1>10. ASSUME NEW t \in Calls, MarkVerified(t)
       PROVE  [Link!Next]_(Link!vars)
  <2>1. /\ expires' = expires /\ args' = args /\ published' = published
        /\ pc[t] = "mark" /\ Tok(t) \in Tokens
    BY <1>10, ArgsType DEF MarkVerified
  <2>2. CASE Leave(t, "error") /\ row' = row
    BY <2>1, <2>2, AnswerStep DEF Leave
  <2>3. CASE /\ result' = result
             /\ row' = [row EXCEPT ![Tok(t)] = IF @ = "absent" THEN @ ELSE "verified"]
    <3>1. CASE row[Tok(t)] # "open"
      <4>1. row' = row
        BY <2>1, <2>3, <3>1 DEF TypeOK, RowStates
      <4>. QED
        BY <2>1, <2>3, <4>1, SilentStep
    <3>2. CASE row[Tok(t)] = "open"
      <4>1. LinkState[Tok(t)] = "open"
        BY <2>1, <3>2 DEF LinkState
      <4>2. LinkState' = [LinkState EXCEPT ![Tok(t)] = "verified"]
        BY <2>1, <2>3, <3>2 DEF LinkState, TypeOK
      <4>3. Link!Verify(Tok(t))
        BY <2>1, <2>3, <4>1, <4>2, SameAsked DEF Link!Verify
      <4>. QED
        BY <2>1, <4>3 DEF Link!Next
    <3>. QED
      BY <3>1, <3>2
  <2>. QED
    BY <1>10, <2>2, <2>3 DEF MarkVerified
<1>11. ASSUME NEW t \in Calls, Publish(t)
       PROVE  Link!Next
  <2>1. /\ row' = row /\ expires' = expires /\ args' = args
        /\ published' = published \union {t} /\ pc[t] = "publish"
        /\ Return(t, "verified")
    BY <1>11 DEF Publish, Leave, storeVars
  <2>2. Tok(t) \in Tokens /\ expires[Tok(t)] # 0 /\ row[Tok(t)] # "open"
    BY <2>1, ArgsType DEF Created, Settled
  <2>3. LinkState[Tok(t)] \in {"verified", "gone"}
    BY <2>2 DEF LinkState, TypeOK, RowStates
  <2>4. Link!Announce(t)
    BY <2>1, <2>3, TellStep, SameLink, SameAsked DEF Link!Announce, Link!Settled
  <2>. QED
    BY <2>4 DEF Link!Next
<1>12. ASSUME NEW t \in Calls, Fault(t)
       PROVE  Link!Next
  <2>1. /\ row' = row /\ expires' = expires /\ args' = args /\ published' = published
        /\ pc[t] \notin {"idle", "done"} /\ Return(t, "error")
    BY <1>12 DEF Fault, Leave, Critical, storeVars
  <2>. QED
    BY <2>1, AnswerStep
<1>13. ASSUME NEW r \in Replicas, Crash(r)
       PROVE  UNCHANGED Link!vars
  BY <1>13, SilentStep DEF Crash, storeVars
<1>14. ASSUME PurgeExpired
       PROVE  Link!Next
  <2> DEFINE lapsed == {k \in Tokens : row[k] # "absent" /\ expires[k] <= now}
  <2>1. /\ expires' = expires /\ args' = args /\ published' = published
        /\ result' = result
        /\ row' = [k \in Tokens |-> IF expires[k] <= now THEN "absent" ELSE row[k]]
    BY <1>14 DEF PurgeExpired, callVars
  <2>2. \A k \in lapsed : LinkState[k] \in {"open", "verified"}
    BY DEF LinkState, TypeOK, RowStates
  <2>3. \A k \in Tokens : row[k] # "absent" => expires[k] # 0
    BY DEF Created
  <2>4. LinkState' = [k \in Tokens |-> IF k \in lapsed THEN "gone" ELSE LinkState[k]]
    BY <2>1, <2>3 DEF LinkState
  <2>5. Link!Lapse(lapsed)
    BY <2>1, <2>2, <2>4, SameAsked DEF Link!Lapse
  <2>. QED
    BY <2>1, <2>5 DEF Link!Next
<1>15. ASSUME Tick
       PROVE  UNCHANGED Link!vars
  BY <1>15, SilentStep DEF Tick, storeVars, callVars
<1>. QED
  BY <1>1, <1>2, <1>3, <1>4, <1>5, <1>6, <1>7, <1>8, <1>9, <1>10, <1>11, <1>12, <1>13,
     <1>14, <1>15 DEF Next, Run, Link!Next

\* The gate keeps the promise of VerificationLink: links are opened once, verified
\* at most once, lapse for good, and answers agree with the life of their link.
THEOREM ImplementsLink == Spec => KeepsLinkPromise
<1>1. Init => Link!Init
  BY DEF Init, Link!Init, LinkState, Tok, NoArgs
<1>2. IInv /\ [Next]_vars => [Link!Next]_(Link!vars)
  <2>1. CASE IInv /\ Next
    BY <2>1, LinkStep
  <2>2. CASE UNCHANGED vars
    BY <2>2, SilentStep DEF vars, storeVars, callVars
  <2>. QED
    BY <2>1, <2>2
<1>. QED
  BY <1>1, <1>2, Invariance, PTL DEF Spec, KeepsLinkPromise, Link!Spec

-----------------------------------------------------------------------------
(* Nobody waits for a lock that is never released *)

Early(t)   == pc[t] \in {"idle", "get", "got", "delete"}
Working(t) == pc[t] \in Critical
Dead(t)    == pc[t] = "dead"

\* A lock object has the link and the replica of the call that created it.
Origins ==
    /\ \A t \in Calls : Early(t) => lock[t] = None
    /\ \A t \in Calls : lock[t] # None => lock[lock[t]] = lock[t] /\ Same(lock[t], t)
    /\ \A r \in Replicas, k \in Tokens : locks[r][k] # None =>
         LET l == locks[r][k] IN lock[l] = l /\ Home(l) = r /\ Tok(l) = k

\* Only a call under a lock holds it, or one that died there; and nobody alive, or yet to
\* arrive, gets a lock that a dead call had.
LeftBehind ==
    /\ \A l \in Calls : holder[l] # None =>
         lock[holder[l]] = l /\ (Working(holder[l]) \/ Dead(holder[l]))
    /\ \A t, u \in Calls : Dead(u) /\ lock[u] # None /\ Locked(t) => lock[u] # lock[t]
    /\ \A u \in Calls, r \in Replicas, k \in Tokens :
         Dead(u) /\ lock[u] # None => lock[u] # locks[r][k]

\* Whoever waits for a lock that is held waits for a call of the same link and replica
\* that is under the lock, alive, and waits for no lock itself.
WaitsForAWorker ==
    \A t \in Calls : pc[t] = "wait" =>
        LET u == holder[lock[t]] IN u # None => Working(u) /\ Same(u, t)

WaitInv == IInv /\ Origins /\ LeftBehind

\* A step that touches no lock.
Quiet ==
    /\ UNCHANGED <<lock, locks, holder>>
    /\ \A t \in Calls :
        /\ args'[t] = args[t] \/ pc[t] = "idle"
        /\ Early(t)' => Early(t)
        /\ Locked(t)' => Locked(t)
        /\ Working(t) => Working(t)'
        /\ Dead(t)' <=> Dead(t)

LEMMA LockSteps ==
    ASSUME TypeOK, Next
    PROVE  \/ Quiet
           \/ \E t \in Calls, a \in Results :
                Leave(t, a) /\ Locked(t) /\ UNCHANGED <<args, lock>>
           \/ \E t \in Calls : SetDefault(t) \/ Acquire(t)
           \/ \E r \in Replicas : Crash(r)
<1>. DEFINE Left == \E t \in Calls, a \in Results :
                      Leave(t, a) /\ Locked(t) /\ UNCHANGED <<args, lock>>
<1>. USE SomeResults
<1>. USE DEF Locked, Early, Working, Dead, Critical, TypeOK, callVars, storeVars, lockVars
<1>1. ASSUME NEW k \in Tokens, CreateVerification(k) PROVE Quiet
  BY <1>1 DEF Quiet, CreateVerification
<1>2. ASSUME NEW t \in Calls, NEW v \in Visits, NEW k \in Tokens, NEW r \in Replicas,
             Arrive(t, v, k, r)
      PROVE  Quiet
  BY <1>2 DEF Quiet, Arrive
<1>3. ASSUME NEW t \in Calls, Get(t) PROVE Quiet
  BY <1>3 DEF Quiet, Get, Goto
<1>4. ASSUME NEW t \in Calls, EarlyReturn(t) PROVE Quiet
  BY <1>4 DEF Quiet, EarlyReturn, Goto, Return
<1>5. ASSUME NEW t \in Calls, DeleteExpired(t) PROVE Quiet \/ Left
  <2>1. CASE Leave(t, "unknown") /\ pc[t] = "redelete"
    BY <1>5, <2>1 DEF DeleteExpired
  <2>2. CASE pc[t] = "delete" /\ Return(t, "unknown") /\ UNCHANGED lockVars
    BY <1>5, <2>2 DEF Quiet, DeleteExpired, Return
  <2>. QED BY <1>5, <2>1, <2>2 DEF DeleteExpired
<1>6. ASSUME NEW t \in Calls, Recheck(t) PROVE Quiet \/ Left
  <2>1. CASE \E a \in Results : Leave(t, a)
    BY <1>6, <2>1 DEF Recheck
  <2>2. CASE (Goto(t, "redelete") \/ Goto(t, "checks")) /\ UNCHANGED lockVars
    BY <1>6, <2>2 DEF Quiet, Recheck, Goto
  <2>. QED BY <1>6, <2>1, <2>2 DEF Recheck
<1>7. ASSUME NEW t \in Calls, CheapChecks(t) PROVE Quiet \/ Left
  <2>1. CASE Leave(t, "failed")
    BY <1>7, <2>1 DEF CheapChecks
  <2>2. CASE (Goto(t, "lookup") \/ Goto(t, "mark")) /\ UNCHANGED lockVars
    BY <1>7, <2>2 DEF Quiet, CheapChecks, Goto
  <2>. QED BY <1>7, <2>1, <2>2 DEF CheapChecks
<1>8. ASSUME NEW t \in Calls, LookupChallenge(t) PROVE Quiet \/ Left
  <2>1. CASE Leave(t, "failed")
    BY <1>8, <2>1 DEF LookupChallenge
  <2>2. CASE Goto(t, "solve") /\ UNCHANGED lockVars
    BY <1>8, <2>2 DEF Quiet, LookupChallenge, Goto
  <2>. QED BY <1>8, <2>1, <2>2 DEF LookupChallenge
<1>9. ASSUME NEW t \in Calls, SolveChallenge(t) PROVE Quiet \/ Left
  <2>1. CASE Leave(t, "failed")
    BY <1>9, <2>1 DEF SolveChallenge
  <2>2. CASE Goto(t, "mark") /\ UNCHANGED lockVars
    BY <1>9, <2>2 DEF Quiet, SolveChallenge, Goto
  <2>. QED BY <1>9, <2>1, <2>2 DEF SolveChallenge
<1>10. ASSUME NEW t \in Calls, MarkVerified(t) PROVE Quiet \/ Left
  <2>1. CASE Leave(t, "error")
    BY <1>10, <2>1 DEF MarkVerified
  <2>2. CASE Goto(t, "publish") /\ UNCHANGED lockVars
    BY <1>10, <2>2 DEF Quiet, MarkVerified, Goto
  <2>. QED BY <1>10, <2>1, <2>2 DEF MarkVerified
<1>11. ASSUME NEW t \in Calls, Publish(t) PROVE Left
  BY <1>11 DEF Publish
<1>12. ASSUME NEW t \in Calls, Fault(t) PROVE Quiet \/ Left
  <2>1. CASE Leave(t, "error") /\ Locked(t)
    BY <1>12, <2>1 DEF Fault
  <2>2. CASE pc[t] \in {"get", "delete"} /\ Return(t, "error") /\ UNCHANGED lockVars
    BY <1>12, <2>2 DEF Quiet, Fault, Return
  <2>. QED BY <1>12, <2>1, <2>2 DEF Fault
<1>13. CASE PurgeExpired \/ Tick
  BY <1>13 DEF Quiet, PurgeExpired, Tick
<1>. QED
  BY <1>1, <1>2, <1>3, <1>4, <1>5, <1>6, <1>7, <1>8, <1>9, <1>10, <1>11, <1>12, <1>13
  DEF Next, Run

LEMMA WaitInit == Init => WaitInv
  BY InitInv, GateAssumption DEF Init, WaitInv, Origins, LeftBehind, Early, Dead

\* A call that has or had a lock, or created one, has arrived, and so have those that wait
\* for it: what they were made with stays.
LEMMA LockArgs ==
    ASSUME WaitInv, NEW t \in Calls, lock[t] # None
    PROVE  pc[t] # "idle" /\ lock[t] \in Calls /\ pc[lock[t]] # "idle"
<1>1. lock[t] \in Calls
  BY DEF WaitInv, IInv, TypeOK
<1>. QED BY <1>1 DEF WaitInv, Origins, Early

LEMMA QuietKeeps == ASSUME WaitInv, Quiet PROVE Origins' /\ LeftBehind'
<1>1. Origins /\ LeftBehind /\ TypeOK
  BY DEF WaitInv, IInv
<1>2. \A t \in Calls : pc[t] # "idle" => args'[t] = args[t]
  BY DEF Quiet
<1>3. UNCHANGED <<lock, locks, holder>>
  BY DEF Quiet
<1>4. \A t \in Calls : Early(t)' => lock'[t] = None
  BY <1>1, <1>3 DEF Quiet, Origins
<1>5. ASSUME NEW t \in Calls, lock'[t] # None
      PROVE  (lock[lock[t]] = lock[t] /\ Same(lock[t], t))'
  BY <1>1, <1>2, <1>3, <1>5, LockArgs DEF Origins, Same, Tok, Home
<1>6. ASSUME NEW r \in Replicas, NEW k \in Tokens, locks'[r][k] # None
      PROVE  (LET l == locks[r][k] IN lock[l] = l /\ Home(l) = r /\ Tok(l) = k)'
  <2>. DEFINE l == locks[r][k]
  <2>1. l # None /\ l \in Calls /\ lock[l] = l /\ Home(l) = r /\ Tok(l) = k
    BY <1>1, <1>3, <1>6 DEF Origins, TypeOK
  <2>2. args'[l] = args[l]
    BY <1>2, <2>1, LockArgs
  <2>. HIDE DEF l
  <2>3. lock'[l] = l /\ args'[l].home = r /\ args'[l].token = k
    BY <1>3, <2>1, <2>2 DEF Home, Tok
  <2>4. locks'[r][k] = l
    BY <1>3 DEF l
  <2>. QED BY <2>3, <2>4 DEF Home, Tok
<1>7. \A l \in Calls : holder[l] # None => holder[l] \in Calls
  BY <1>1 DEF TypeOK
<1>8. LeftBehind'
  BY <1>1, <1>3, <1>7 DEF Quiet, LeftBehind
<1>. QED BY <1>4, <1>5, <1>6, <1>8 DEF Origins

LEMMA LeaveKeeps ==
    ASSUME WaitInv, NEW t \in Calls, NEW a \in Results, Leave(t, a), Locked(t),
           UNCHANGED <<args, lock>>
    PROVE  Origins' /\ LeftBehind'
<1>1. Origins /\ LeftBehind /\ TypeOK /\ Tok(t) \in Tokens /\ Home(t) \in Replicas
  BY ArgsType DEF WaitInv, IInv, Locked, Critical
<1>2. /\ \A u \in Calls : u # t => pc'[u] = pc[u]
      /\ pc'[t] = "done"
  BY <1>1 DEF Leave, Return, TypeOK
<1>3. /\ \A l \in Calls : holder'[l] = IF holder[l] = t THEN None ELSE holder[l]
      /\ \A r \in Replicas, k \in Tokens : locks'[r][k] \in {locks[r][k], None}
  BY <1>1 DEF Leave, TypeOK
<1>4. Origins'
  BY <1>1, <1>2, <1>3 DEF Origins, Early, Same, Tok, Home
<1>5. \A l \in Calls : holder[l] # None => holder[l] \in Calls
  BY <1>1 DEF TypeOK
<1>6. ~ Dead(t)' /\ ~ Locked(t)'
  BY <1>2 DEF Dead, Locked, Critical
<1>7. LeftBehind'
  BY <1>1, <1>2, <1>3, <1>5, <1>6 DEF LeftBehind, Working, Dead, Locked
<1>. QED BY <1>4, <1>7

LEMMA SetDefaultKeeps ==
    ASSUME WaitInv, NEW t \in Calls, SetDefault(t)
    PROVE  Origins' /\ LeftBehind'
<1>. DEFINE r == Home(t)
            k == Tok(t)
            l == IF locks[r][k] = None THEN t ELSE locks[r][k]
<1>1. Origins /\ LeftBehind /\ TypeOK /\ k \in Tokens /\ r \in Replicas
  BY ArgsType DEF WaitInv, IInv, SetDefault
<1>2. /\ pc[t] = "got"
      /\ lock' = [lock EXCEPT ![t] = l]
      /\ locks' = [locks EXCEPT ![r][k] = l]
      /\ pc' = [pc EXCEPT ![t] = "wait"]
      /\ UNCHANGED <<args, holder>>
  BY DEF SetDefault, Goto
<1>3. lock[t] = None
  BY <1>1, <1>2 DEF Origins, Early
<1>4. l \in Calls /\ l # None /\ Home(l) = r /\ Tok(l) = k /\ (l = t \/ lock[l] = l)
  BY <1>1, GateAssumption DEF Origins, TypeOK
<1>5. \A u \in Calls : lock[u] # t
  BY <1>1, <1>3, GateAssumption DEF Origins
<1>6. \A u \in Calls : Dead(u) => lock[u] # l
  <2>1. CASE l = t
    BY <1>5, <2>1
  <2>2. CASE l = locks[r][k]
    BY <1>1, <1>4, <2>2 DEF LeftBehind
  <2>. QED BY <2>1, <2>2
<1>. HIDE DEF l, r, k
<1>7. /\ lock'[t] = l
      /\ \A u \in Calls : u # t => lock'[u] = lock[u] /\ pc'[u] = pc[u]
      /\ pc'[t] = "wait"
      /\ \A q \in Replicas, j \in Tokens : locks'[q][j] = IF q = r /\ j = k THEN l ELSE locks[q][j]
  BY <1>1, <1>2 DEF TypeOK
<1>8. lock'[l] = l
  BY <1>4, <1>7
<1>9. ASSUME NEW u \in Calls, lock'[u] # None
      PROVE  (lock[lock[u]] = lock[u] /\ Same(lock[u], u))'
  <2>1. CASE u = t
    BY <1>2, <1>4, <1>7, <1>8, <2>1 DEF Same, Tok, Home, r, k
  <2>2. CASE u # t
    <3>1. /\ lock'[u] = lock[u] /\ lock[lock[u]] = lock[u] /\ Same(lock[u], u)
          /\ lock[u] # t /\ lock[u] \in Calls
      BY <1>1, <1>5, <1>7, <1>9, <2>2 DEF Origins, TypeOK
    <3>. QED BY <1>2, <1>7, <2>2, <3>1 DEF Same, Tok, Home
  <2>. QED BY <2>1, <2>2
<1>10. ASSUME NEW q \in Replicas, NEW j \in Tokens, locks'[q][j] # None
       PROVE  (LET m == locks[q][j] IN lock[m] = m /\ Home(m) = q /\ Tok(m) = j)'
  <2>1. CASE q = r /\ j = k
    BY <1>2, <1>4, <1>7, <1>8, <2>1 DEF Tok, Home
  <2>2. CASE ~ (q = r /\ j = k)
    <3>. DEFINE m == locks[q][j]
    <3>1. locks'[q][j] = m /\ m \in Calls /\ lock[m] = m /\ Home(m) = q /\ Tok(m) = j
      BY <1>1, <1>7, <1>10, <2>2 DEF Origins, TypeOK
    <3>2. m # t
      BY <1>5, <3>1
    <3>. HIDE DEF m
    <3>3. lock'[m] = m /\ args'[m].home = q /\ args'[m].token = j
      BY <1>2, <1>7, <3>1, <3>2 DEF Tok, Home
    <3>. QED BY <3>1, <3>3 DEF Tok, Home
  <2>. QED BY <2>1, <2>2
<1>11. \A u \in Calls : Early(u)' => lock'[u] = None
  BY <1>1, <1>7 DEF Origins, Early
<1>12. Origins'
  BY <1>9, <1>10, <1>11 DEF Origins
<1>13. \A m \in Calls : holder[m] # None => holder[m] \in Calls /\ holder[m] # t
  BY <1>1, <1>2 DEF TypeOK, LeftBehind, Working, Dead, Critical
<1>14. /\ ~ Dead(t)'
       /\ \A u \in Calls : u # t =>
            (Dead(u)' <=> Dead(u)) /\ (Locked(u)' <=> Locked(u)) /\ (Working(u)' <=> Working(u))
  BY <1>7 DEF Dead, Locked, Working
<1>15. LeftBehind'
  <2>1. \A m \in Calls : holder'[m] # None =>
          lock'[holder'[m]] = m /\ (Working(holder[m]) \/ Dead(holder[m]))'
    BY <1>1, <1>2, <1>7, <1>13, <1>14 DEF LeftBehind, Working, Dead
  <2>2. \A v, u \in Calls : Dead(u)' /\ lock'[u] # None /\ Locked(v)' => lock'[u] # lock'[v]
    BY <1>1, <1>6, <1>7, <1>14 DEF LeftBehind
  <2>3. \A u \in Calls, q \in Replicas, j \in Tokens :
          Dead(u)' /\ lock'[u] # None => lock'[u] # locks'[q][j]
    BY <1>1, <1>6, <1>7, <1>14 DEF LeftBehind
  <2>. QED BY <2>1, <2>2, <2>3 DEF LeftBehind
<1>. QED BY <1>12, <1>15

LEMMA AcquireKeeps ==
    ASSUME WaitInv, NEW t \in Calls, Acquire(t)
    PROVE  Origins' /\ LeftBehind'
<1>1. Origins /\ LeftBehind /\ TypeOK /\ pc[t] = "wait" /\ lock[t] \in Calls
  BY DEF WaitInv, IInv, HeldLock, Locked, Acquire
<1>2. /\ holder[lock[t]] = None
      /\ holder' = [holder EXCEPT ![lock[t]] = t]
      /\ pc' = [pc EXCEPT ![t] = "reread"]
      /\ UNCHANGED <<args, lock, locks>>
  BY DEF Acquire, Goto
<1>3. \A u \in Calls :
        /\ Early(u)' => Early(u)
        /\ Locked(u)' => Locked(u)
        /\ Working(u) => Working(u)'
        /\ Dead(u)' <=> Dead(u)
  BY <1>1, <1>2 DEF Early, Locked, Working, Dead, Critical, TypeOK
<1>4. Origins'
  BY <1>1, <1>2, <1>3 DEF Origins, Same, Tok, Home
<1>5. Working(t)' /\ \A l \in Calls : holder[l] # None => holder[l] \in Calls
  BY <1>1, <1>2 DEF Working, Critical, TypeOK
<1>6. \A l \in Calls : holder'[l] = IF l = lock[t] THEN t ELSE holder[l]
  BY <1>1, <1>2 DEF TypeOK
<1>7. LeftBehind'
  BY <1>1, <1>2, <1>3, <1>5, <1>6 DEF LeftBehind
<1>. QED BY <1>4, <1>7

\* The calls of a replica die together, and the locks they had were that replica's.
LEMMA CrashKeeps ==
    ASSUME WaitInv, NEW r \in Replicas, Crash(r)
    PROVE  Origins' /\ LeftBehind'
<1>1. Origins /\ LeftBehind /\ TypeOK
  BY DEF WaitInv, IInv
<1>2. /\ \A t \in Calls : pc'[t] = IF Home(t) = r /\ pc[t] \notin {"idle", "done"}
                                    THEN "dead" ELSE pc[t]
      /\ \A q \in Replicas, k \in Tokens :
           locks'[q][k] = IF q = r THEN None ELSE locks[q][k]
      /\ UNCHANGED <<args, lock, holder>>
  BY <1>1 DEF Crash, TypeOK
<1>3. \A t \in Calls :
        /\ Early(t)' => Early(t)
        /\ Locked(t)' => Locked(t) /\ Home(t) # r
        /\ Working(t) => Working(t)' \/ Dead(t)'
        /\ Dead(t) => Dead(t)'
        /\ Dead(t)' => Dead(t) \/ Home(t) = r
  BY <1>2 DEF Early, Locked, Working, Dead, Critical
<1>4. Origins'
  BY <1>1, <1>2, <1>3 DEF Origins, Same, Tok, Home
<1>5. \A l \in Calls : holder[l] # None => holder[l] \in Calls
  BY <1>1 DEF TypeOK
<1>6. \A u \in Calls : lock[u] # None => Home(lock[u]) = Home(u)
  BY <1>1 DEF Origins, Same
<1>7. ASSUME NEW u \in Calls, Dead(u)', lock[u] # None
      PROVE  /\ \A t \in Calls : Locked(t)' => lock[u] # lock[t]
             /\ \A q \in Replicas, k \in Tokens : lock[u] # locks'[q][k]
  <2>1. CASE Dead(u)
    BY <1>1, <1>2, <1>3, <1>7, <2>1 DEF LeftBehind
  <2>2. CASE Home(u) = r
    <3>1. Home(lock[u]) = r
      BY <1>6, <1>7, <2>2
    <3>2. \A t \in Calls : Locked(t)' => lock[u] # lock[t]
      BY <1>3, <1>6, <1>7, <3>1
    <3>3. \A q \in Replicas, k \in Tokens : q # r /\ locks[q][k] # None => Home(locks[q][k]) # r
      BY <1>1 DEF Origins
    <3>. QED BY <1>2, <1>7, <3>1, <3>2, <3>3
  <2>. QED BY <1>3, <1>7, <2>1, <2>2
<1>8. LeftBehind'
  BY <1>1, <1>2, <1>3, <1>5, <1>7 DEF LeftBehind
<1>. QED BY <1>4, <1>8

LEMMA WaitNext == WaitInv /\ [Next]_vars => WaitInv'
<1>. SUFFICES ASSUME WaitInv, [Next]_vars PROVE WaitInv'
  OBVIOUS
<1>1. IInv' /\ TypeOK
  BY IInvStep DEF WaitInv, IInv
<1>2. CASE Next
  BY <1>1, <1>2, LockSteps, QuietKeeps, LeaveKeeps, SetDefaultKeeps, AcquireKeeps, CrashKeeps
  DEF WaitInv
<1>3. CASE UNCHANGED vars
  <2>1. Quiet
    BY <1>3 DEF vars, callVars, lockVars, Quiet, Early, Locked, Working, Dead
  <2>. QED BY <1>1, <2>1, QuietKeeps DEF WaitInv
<1>. QED BY <1>2, <1>3

\* gate.py: a task that waits for a lock that was popped "already holds its own reference to
\* that Lock object", and so is woken: whatever fails, is cancelled or dies, a call that
\* waits does so for a lock that is free, or is held by a call of its replica that is alive
\* and at work on the same link.  No two calls wait for each other, and none for a lock
\* whose holder is gone.
THEOREM NobodyWaitsForTheGone == Spec => []WaitsForAWorker
<1>1. WaitInv => WaitsForAWorker
  <2>. SUFFICES ASSUME WaitInv, NEW t \in Calls, pc[t] = "wait", holder[lock[t]] # None
                PROVE  Working(holder[lock[t]]) /\ Same(holder[lock[t]], t)
    BY DEF WaitsForAWorker
  <2>. DEFINE u == holder[lock[t]]
  <2>1. lock[t] \in Calls /\ lock[t] # None /\ Locked(t)
    BY GateAssumption DEF WaitInv, IInv, HeldLock, Locked
  <2>2. u \in Calls /\ lock[u] = lock[t] /\ (Working(u) \/ Dead(u))
    BY <2>1 DEF WaitInv, IInv, TypeOK, LeftBehind
  <2>3. Working(u)
    BY <2>1, <2>2 DEF WaitInv, LeftBehind
  <2>4. Same(lock[t], t) /\ Same(lock[u], u)
    BY <2>1, <2>2 DEF WaitInv, Origins
  <2>. QED BY <2>2, <2>3, <2>4 DEF Same
<1>. QED BY <1>1, WaitInit, WaitNext, PTL DEF Spec
=============================================================================
