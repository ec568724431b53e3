------------------------- MODULE AdaptiveGateProofs -------------------------
(***************************************************************************)
(* Proofs about AdaptiveGate, for any tokens, calls, replicas and bounds.  *)
(* The lock alone does not make the decision unique (get_info pops it for  *)
(* whoever waits), nor does the store alone (two replicas may both find    *)
(* nothing): the heart of the inductive invariant is RegisteredLock, the   *)
(* lock of a link is shared by a replica's calls until a decision is       *)
(* stored, and Kept, a stored decision stays as long as the link is open.  *)
(***************************************************************************)
EXTENDS AdaptiveGate, TLAPS

\* A decision, once stored, is not lost in a crash.
Durable == Overwrites => ~ Crashes

Holding(t) == pc[t] \in Critical \union {"recheck"}
Locked(t)  == Holding(t) \/ pc[t] = "wait"

\* Some call of t's replica for t's link left the lock without verifying the link ...
Upset(t) ==
    \E w \in Calls : Same(w, t) /\ result[w] \in {"pending", "failed", "error"}
\* ... or was broken off.
Broken(t) == \E w \in Calls : Same(w, t) /\ (result[w] = "error" \/ pc[w] = "dead")

\* The link is open and nobody popped the lock of a call that still needs it.
Steady(t) ==
    /\ row[Tok(t)] = "open"
    /\ ~ Upset(t) \/ (Durable /\ decision[Tok(t)] = None /\ ~ Broken(t))

\* A call that goes by a decision it got under the lock, or told a visitor of it.
Chosen(t) == pc[t] \in {"checks", "lookup", "solve", "mark"} \/ Shown(t)

\* A call that issues a challenge or may do so.
Issuer(t) == t \in issued \/ pc[t] = "assess"

\* A verification past the re-read of an open link: the one that may publish.
Candidate(t) ==
    \/ pc[t] \in {"load", "assess", "save", "reload"} /\ Visit(t).op = "verify"
    \/ pc[t] \in {"checks", "lookup", "solve", "mark", "forget", "trust", "publish"}
    \/ pc[t] = "recheck" /\ snap[t] = "open"
    \/ t \in published

\* Somebody was asked for a captcha on link k, and solved it.
AskedFor(k)  == \E u \in Calls : Shown(u) /\ Tok(u) = k /\ mine[u] \in Calls
SolvedFor(k) == \E u \in Calls : Shown(u) /\ Tok(u) = k /\ mine[u] \in spent

\* A call that never gets to the lock.
StopsEarly(t) ==
    /\ pc[t] \in Outside \union {"got", "done", "dead"}
    /\ pc[t] = "got" => snap[t] # "open"
    /\ t \notin published

-----------------------------------------------------------------------------
\* Only a finished call has an answer, only a finished one has published.
Finished ==
    \A t \in Calls :
        /\ result[t] # "none" => pc[t] = "done"
        /\ t \in published => pc[t] = "done" /\ result[t] = "verified"
        /\ pc[t] = "idle" => args[t] = NoArgs

\* Calls are made for links that exist; a row goes only after its link lapsed.
Created ==
    /\ \A t \in Calls : pc[t] # "idle" => expires[Tok(t)] # 0
    /\ \A k \in Tokens : expires[k] = 0 => row[k] = "absent"

Lapsed ==
    /\ \A k \in Tokens : expires[k] # 0 /\ row[k] = "absent" => expires[k] <= now
    /\ \A t \in Calls : pc[t] \in {"delete", "redelete"} => expires[Tok(t)] <= now

\* What a call has read or done and nobody can undo.
Settled ==
    \A t \in Calls :
        /\ pc[t] \in {"got", "recheck"} /\ snap[t] # "open" => row[Tok(t)] # "open"
        /\ pc[t] \in {"got", "recheck"} /\ snap[t] = "absent" => row[Tok(t)] = "absent"
        /\ pc[t] \in {"forgetgone", "reforget"} => row[Tok(t)] = "absent"
        /\ pc[t] \in {"forget", "trust", "publish"} \/ t \in published
              => row[Tok(t)] # "open"
        /\ result[t] \in {"verified", "unknown"} => row[Tok(t)] # "open"

\* A call under the lock holds the lock object it got from setdefault.
HeldLock ==
    \A t \in Calls :
        /\ Locked(t) => lock[t] \in Calls
        /\ Holding(t) => holder[lock[t]] = t

\* While a link is open, what a call goes by is stored, and stays so: nobody
\* forgets a decision, and a store that does not overwrite keeps the first.
Kept ==
    \A t \in Calls :
        /\ pc[t] \in {"save", "reload"} \/ Chosen(t) => mine[t] # None
        /\ Durable /\ (pc[t] = "reload" \/ Chosen(t) \/ result[t] = "failed")
                /\ row[Tok(t)] = "open"
              => decision[Tok(t)] # None
        /\ ~ Overwrites /\ Chosen(t) /\ row[Tok(t)] = "open"
              => decision[Tok(t)] = mine[t]

\* A call that issued a challenge went on from there.
Issued ==
    \A t \in issued :
        \/ Holding(t) /\ pc[t] \notin {"reread", "recheck", "load", "assess"}
        \/ pc[t] = "dead"
        \/ result[t] \in {"pending", "failed", "verified", "error", "unknown"}

\* Nobody gets past the captcha without solving it.
Earned ==
    \A t \in Calls :
        /\ pc[t] \in {"lookup", "solve"} => mine[t] \in Calls
        /\ pc[t] = "mark" /\ mine[t] \in Calls => mine[t] \in spent

\* The lock object that the calls of a link hold or wait for is the registered one.
RegisteredLock ==
    \A t \in Calls :
        Locked(t) /\ Steady(t) => lock[t] = locks[Home(t)][Tok(t)]

\* At most one verification of a replica gets past the re-read.
OneCandidate ==
    \A t, u \in Calls :
        Candidate(t) /\ Candidate(u) /\ Same(t, u) /\ ~ Upset(t) => t = u

\* At most one call of a replica decides on a captcha for an open link.
OneIssuer ==
    Durable => \A t, u \in Calls :
        Issuer(t) /\ Issuer(u) /\ Same(t, u) /\ row[Tok(t)] = "open" /\ ~ Broken(t)
            => t = u

\* A call that came after a visitor was asked for a captcha.
Escalated ==
    ~ Overwrites => \A t \in Calls : args[t].escalated =>
        \/ expires[Tok(t)] <= now
        \/ SolvedFor(Tok(t))
        \/ row[Tok(t)] = "open" /\ AskedFor(Tok(t))
        \/ row[Tok(t)] # "open" /\ StopsEarly(t)

IInv ==
    /\ TypeOK
    /\ Finished
    /\ Created
    /\ Lapsed
    /\ Settled
    /\ HeldLock
    /\ Kept
    /\ Issued
    /\ Earned
    /\ RegisteredLock
    /\ OneCandidate
    /\ OneIssuer
    /\ Escalated

-----------------------------------------------------------------------------
\* What no step undoes.
Onward ==
    /\ now <= now' /\ spent \subseteq spent'
    /\ \A t \in Calls :
        /\ pc[t] # "idle" => args'[t] = args[t] /\ pc'[t] # "idle"
        /\ pc[t] = "dead" => pc'[t] = "dead"
        /\ pc[t] = "done" =>
             pc'[t] = "done" /\ result'[t] = result[t] /\ mine'[t] = mine[t]
    /\ \A k \in Tokens : expires[k] # 0 =>
        /\ expires'[k] = expires[k]
        /\ row'[k] = "open" => row[k] = "open"
        /\ row'[k] = "open" /\ Durable /\ decision[k] # None => decision'[k] # None

-----------------------------------------------------------------------------
LEMMA InitInv == Init => IInv
<1> SUFFICES ASSUME Init
             PROVE  IInv
  OBVIOUS
<1>1. TypeOK
  <2>1. /\ now \in 0..MaxTime /\ faults \in 0..MaxFaults
        /\ row \in [Tokens -> RowStates] /\ expires \in [Tokens -> Nat]
        /\ decision \in [Tokens -> Decisions]
        /\ spent = {} /\ issued = {} /\ published = {}
    BY AdaptiveAssumption DEF Init, RowStates, Decisions
  <2>2. /\ args \in [Calls -> Args \union {NoArgs}] /\ pc \in [Calls -> PCs]
        /\ \A t \in Calls : pc[t] = "idle"
        /\ snap \in [Calls -> RowStates] /\ mine \in [Calls -> Decisions]
        /\ lock \in [Calls -> Calls \union {None}] /\ result \in [Calls -> Results]
    BY DEF Init, RowStates, Decisions, Results, PCs
  <2>3. /\ locks \in [Replicas -> [Tokens -> Calls \union {None}]]
        /\ holder \in [Calls -> Calls \union {None}]
    BY DEF Init
  <2>4. trusted \in BOOLEAN
    BY Zenon DEF Init
  <2>. QED
    BY <2>1, <2>2, <2>3, <2>4 DEF TypeOK
<1>2. \A t \in Calls : pc[t] = "idle" /\ result[t] = "none" /\ args[t] = NoArgs
  BY DEF Init
<1>3. Finished /\ Created /\ Lapsed /\ Settled /\ Escalated
  BY <1>2 DEF Init, Finished, Created, Lapsed, Settled, Escalated, NoArgs
<1>4. \A t \in Calls : ~ Locked(t) /\ ~ Chosen(t) /\ ~ Issuer(t) /\ ~ Candidate(t)
  BY <1>2 DEF Init, Locked, Holding, Critical, Chosen, Shown, Issuer, Candidate
<1>5. HeldLock /\ Kept /\ Issued /\ Earned
  BY <1>2, <1>4 DEF Init, HeldLock, Kept, Issued, Earned, Locked
<1>6. RegisteredLock /\ OneCandidate /\ OneIssuer
  BY <1>4 DEF RegisteredLock, OneCandidate, OneIssuer
<1>. QED
  BY <1>1, <1>3, <1>5, <1>6 DEF IInv

\* What a started call was made with.
LEMMA ArgsType ==
    ASSUME TypeOK, NEW t \in Calls, pc[t] # "idle"
    PROVE  Tok(t) \in Tokens /\ Home(t) \in Replicas /\ Visit(t) \in Visits
  BY DEF TypeOK, Args, Tok, Home, Visit

\* A call that leaves the lock behind leaves locks and holders as they should be.
LEMMA LeaveType ==
    ASSUME TypeOK, NEW t \in Calls, pc[t] # "idle", NEW a \in Results, Leave(t, a)
    PROVE  /\ pc' \in [Calls -> PCs] /\ result' \in [Calls -> Results]
           /\ \A u \in Calls : pc'[u] # "idle" => pc[u] # "idle"
           /\ locks' \in [Replicas -> [Tokens -> Calls \union {None}]]
           /\ holder' \in [Calls -> Calls \union {None}]
<1>1. Tok(t) \in Tokens /\ Home(t) \in Replicas
  BY ArgsType
<1>. QED
  BY <1>1 DEF TypeOK, Leave, PCs

\* Every variable keeps its type.
LEMMA TypeStep ==
    ASSUME TypeOK, Earned, Next
    PROVE  TypeOK'
<1>1. ASSUME NEW k \in Tokens, CreateVerification(k)
      PROVE  TypeOK'
  BY <1>1, AdaptiveAssumption, ArgsType DEF CreateVerification, TypeOK, RowStates,
     Decisions, Results, PCs, Critical, Outside, callVars, lockVars, flowVars
<1>2. ASSUME NEW t \in Calls, NEW v \in Visits, NEW k \in Tokens, NEW r \in Replicas,
   Arrive(t, v, k, r)
      PROVE  TypeOK'
  BY <1>2, AdaptiveAssumption, ArgsType DEF Arrive, TypeOK, RowStates, Decisions,
     Results, PCs, Critical, Outside, Args, storeVars, lockVars
<1>3. ASSUME NEW t \in Calls, Get(t)
      PROVE  TypeOK'
  BY <1>3, AdaptiveAssumption, ArgsType DEF Get, Goto, TypeOK, RowStates, Decisions,
     Results, PCs, Critical, Outside, storeVars, lockVars
<1>4. ASSUME NEW t \in Calls, EarlyReturn(t)
      PROVE  TypeOK'
  BY <1>4, ArgsType, LeaveType DEF EarlyReturn, Goto, Return, TypeOK, RowStates,
     Decisions, Results, PCs, Critical, Outside,
     storeVars, callVars, lockVars, flowVars
<1>5. ASSUME NEW t \in Calls, DeleteExpired(t)
      PROVE  TypeOK'
  BY <1>5, AdaptiveAssumption, ArgsType DEF DeleteExpired, Goto, TypeOK, RowStates,
     Decisions, Results, PCs, Critical, Outside, callVars, lockVars
<1>6. ASSUME NEW t \in Calls, ForgetDecision(t)
      PROVE  TypeOK'
  BY <1>6, ArgsType, LeaveType DEF ForgetDecision, Goto, Return, TypeOK, RowStates,
     Decisions, Results, PCs, Critical, Outside,
     storeVars, callVars, lockVars, flowVars
<1>7. ASSUME NEW t \in Calls, SetDefault(t)
      PROVE  TypeOK'
  BY <1>7, AdaptiveAssumption, ArgsType DEF SetDefault, Expired, TypeOK, RowStates,
     Decisions, Results, PCs, Critical, Outside, storeVars
<1>8. ASSUME NEW t \in Calls, Acquire(t)
      PROVE  TypeOK'
  BY <1>8, AdaptiveAssumption, ArgsType DEF Acquire, TypeOK, RowStates, Decisions,
     Results, PCs, Critical, Outside, storeVars, callVars
<1>9. ASSUME NEW t \in Calls, Recheck(t)
      PROVE  TypeOK'
  BY <1>9, AdaptiveAssumption, ArgsType DEF Recheck, Goto, Expired, TypeOK,
     RowStates, Decisions, Results, PCs, Critical, Outside, storeVars, callVars,
     lockVars
<1>10. ASSUME NEW t \in Calls, LoadDecision(t)
      PROVE  TypeOK'
  BY <1>10, ArgsType, LeaveType DEF LoadDecision, Decided, Goto, Return, TypeOK,
     RowStates, Decisions, Results, PCs, Critical, Outside,
     storeVars, callVars, lockVars, flowVars
<1>11. ASSUME NEW t \in Calls, Assess(t)
      PROVE  TypeOK'
  BY <1>11, AdaptiveAssumption, ArgsType DEF Assess, Goto, TypeOK, RowStates,
     Decisions, Results, PCs, Critical, Outside, storeVars, lockVars
<1>12. ASSUME NEW t \in Calls, SaveDecision(t)
      PROVE  TypeOK'
  BY <1>12, AdaptiveAssumption, ArgsType DEF SaveDecision, Goto, TypeOK, RowStates,
     Decisions, Results, PCs, Critical, Outside, callVars, lockVars
<1>13. ASSUME NEW t \in Calls, ReloadDecision(t)
      PROVE  TypeOK'
  BY <1>13, ArgsType, LeaveType DEF ReloadDecision, Decided, Goto, Return, TypeOK,
     RowStates, Decisions, Results, PCs, Critical, Outside,
     storeVars, callVars, lockVars, flowVars
<1>14. ASSUME NEW t \in Calls, CheapChecks(t)
      PROVE  TypeOK'
  BY <1>14, ArgsType, LeaveType DEF CheapChecks, Goto, Return, TypeOK, RowStates,
     Decisions, Results, PCs, Critical, Outside,
     storeVars, callVars, lockVars, flowVars
<1>15. ASSUME NEW t \in Calls, LookupChallenge(t)
      PROVE  TypeOK'
  BY <1>15, ArgsType, LeaveType DEF LookupChallenge, Goto, Return, TypeOK, RowStates,
     Decisions, Results, PCs, Critical, Outside,
     storeVars, callVars, lockVars, flowVars
<1>16. ASSUME NEW t \in Calls, SolveChallenge(t)
      PROVE  TypeOK'
  BY <1>16, ArgsType, LeaveType DEF SolveChallenge, Earned, Goto, Return, TypeOK,
     RowStates, Decisions, Results, PCs, Critical, Outside,
     storeVars, callVars, lockVars, flowVars
<1>17. ASSUME NEW t \in Calls, MarkVerified(t)
      PROVE  TypeOK'
  BY <1>17, ArgsType, LeaveType, SMTT(20) DEF MarkVerified, Goto, Return, TypeOK, RowStates,
     Decisions, Results, PCs, Critical, Outside,
     storeVars, callVars, lockVars, flowVars
<1>18. ASSUME NEW t \in Calls, Trust(t)
      PROVE  TypeOK'
  BY <1>18, AdaptiveAssumption, ArgsType DEF Trust, Goto, TypeOK, RowStates,
     Decisions, Results, PCs, Critical, Outside, callVars, lockVars
<1>19. ASSUME NEW t \in Calls, Publish(t)
      PROVE  TypeOK'
  BY <1>19, ArgsType, LeaveType DEF Publish, Goto, Return, TypeOK, RowStates, Decisions,
     Results, PCs, Critical, Outside,
     storeVars, callVars, lockVars, flowVars
<1>20. ASSUME NEW t \in Calls, Fault(t)
      PROVE  TypeOK'
  BY <1>20, AdaptiveAssumption, LeaveType DEF Fault, Return, TypeOK, RowStates,
     Decisions, Results, PCs, Critical, Outside,
     storeVars, callVars, lockVars, flowVars
<1>21. ASSUME NEW r \in Replicas, Crash(r)
      PROVE  TypeOK'
  BY <1>21, AdaptiveAssumption, ArgsType DEF Crash, TypeOK, RowStates, Decisions,
     Results, PCs, Critical, Outside, callVars
<1>22. ASSUME PurgeExpired
      PROVE  TypeOK'
  BY <1>22, AdaptiveAssumption, ArgsType DEF PurgeExpired, TypeOK, RowStates,
     Decisions, Results, PCs, Critical, Outside, callVars, lockVars, flowVars
<1>23. ASSUME Tick
      PROVE  TypeOK'
  BY <1>23, AdaptiveAssumption, ArgsType DEF Tick, TypeOK, RowStates, Decisions,
     Results, PCs, Critical, Outside, storeVars, callVars, lockVars, flowVars
<1>. QED BY <1>1, <1>2, <1>3, <1>4, <1>5, <1>6, <1>7, <1>8, <1>9, <1>10, <1>11, <1>12,
   <1>13, <1>14, <1>15, <1>16, <1>17, <1>18, <1>19, <1>20, <1>21, <1>22, <1>23 DEF
   Next, Run

\* Only finished calls have answers and publish.
LEMMA FinishedStep ==
    ASSUME TypeOK, Finished, Next
    PROVE  Finished'
<1>1. ASSUME NEW k \in Tokens, CreateVerification(k)
      PROVE  Finished'
  BY <1>1 DEF CreateVerification, TypeOK, Finished, callVars, lockVars, flowVars
<1>2. ASSUME NEW t \in Calls, NEW v \in Visits, NEW k \in Tokens, NEW r \in Replicas,
   Arrive(t, v, k, r)
      PROVE  Finished'
  BY <1>2 DEF Arrive, TypeOK, Finished, storeVars, lockVars
<1>3. ASSUME NEW t \in Calls, Get(t)
      PROVE  Finished'
  BY <1>3 DEF Get, Goto, TypeOK, Finished, storeVars, lockVars
<1>4. ASSUME NEW t \in Calls, EarlyReturn(t)
      PROVE  Finished'
  BY <1>4 DEF EarlyReturn, Goto, Return, Leave, Expired, TypeOK, Finished,
     storeVars, callVars, lockVars
<1>5. ASSUME NEW t \in Calls, DeleteExpired(t)
      PROVE  Finished'
  BY <1>5 DEF DeleteExpired, Goto, TypeOK, Finished, callVars, lockVars
<1>6. ASSUME NEW t \in Calls, ForgetDecision(t)
      PROVE  Finished'
  BY <1>6 DEF ForgetDecision, Goto, Return, Leave, TypeOK, Finished, callVars,
     lockVars
<1>7. ASSUME NEW t \in Calls, SetDefault(t)
      PROVE  Finished'
  BY <1>7 DEF SetDefault, Expired, TypeOK, Finished, storeVars
<1>8. ASSUME NEW t \in Calls, Acquire(t)
      PROVE  Finished'
  BY <1>8 DEF Acquire, TypeOK, Finished, storeVars, callVars
<1>9. ASSUME NEW t \in Calls, Recheck(t)
      PROVE  Finished'
  BY <1>9 DEF Recheck, Goto, Expired, TypeOK, Finished, storeVars, callVars,
     lockVars
<1>10. ASSUME NEW t \in Calls, LoadDecision(t)
      PROVE  Finished'
  BY <1>10 DEF LoadDecision, Decided, Goto, Leave, TypeOK, Finished, storeVars,
     lockVars
<1>11. ASSUME NEW t \in Calls, Assess(t)
      PROVE  Finished'
  BY <1>11 DEF Assess, Goto, TypeOK, Finished, storeVars, lockVars
<1>12. ASSUME NEW t \in Calls, SaveDecision(t)
      PROVE  Finished'
  BY <1>12 DEF SaveDecision, Goto, TypeOK, Finished, callVars, lockVars
<1>13. ASSUME NEW t \in Calls, ReloadDecision(t)
      PROVE  Finished'
  BY <1>13 DEF ReloadDecision, Decided, Goto, Leave, TypeOK, Finished, storeVars,
     lockVars
<1>14. ASSUME NEW t \in Calls, CheapChecks(t)
      PROVE  Finished'
  BY <1>14 DEF CheapChecks, Goto, Leave, TypeOK, Finished, storeVars, callVars,
     lockVars
<1>15. ASSUME NEW t \in Calls, LookupChallenge(t)
      PROVE  Finished'
  BY <1>15 DEF LookupChallenge, Goto, Leave, TypeOK, Finished, storeVars, callVars,
     lockVars
<1>16. ASSUME NEW t \in Calls, SolveChallenge(t)
      PROVE  Finished'
  BY <1>16 DEF SolveChallenge, Goto, Leave, TypeOK, Finished, callVars, lockVars
<1>17. ASSUME NEW t \in Calls, MarkVerified(t)
      PROVE  Finished'
  BY <1>17 DEF MarkVerified, Goto, Leave, TypeOK, Finished, callVars, lockVars
<1>18. ASSUME NEW t \in Calls, Trust(t)
      PROVE  Finished'
  BY <1>18 DEF Trust, Goto, TypeOK, Finished, callVars, lockVars
<1>19. ASSUME NEW t \in Calls, Publish(t)
      PROVE  Finished'
  BY <1>19 DEF Publish, Leave, TypeOK, Finished, storeVars, callVars
<1>20. ASSUME NEW t \in Calls, Fault(t)
      PROVE  Finished'
  BY <1>20 DEF Fault, Return, Leave, TypeOK, Finished, Critical, Outside, storeVars,
     callVars, lockVars
<1>21. ASSUME NEW r \in Replicas, Crash(r)
      PROVE  Finished'
  BY <1>21 DEF Crash, TypeOK, Finished, callVars
<1>22. ASSUME PurgeExpired
      PROVE  Finished'
  BY <1>22 DEF PurgeExpired, TypeOK, Finished, callVars, lockVars, flowVars
<1>23. ASSUME Tick
      PROVE  Finished'
  BY <1>23 DEF Tick, TypeOK, Finished, storeVars, callVars, lockVars, flowVars
<1>. QED BY <1>1, <1>2, <1>3, <1>4, <1>5, <1>6, <1>7, <1>8, <1>9, <1>10, <1>11, <1>12,
   <1>13, <1>14, <1>15, <1>16, <1>17, <1>18, <1>19, <1>20, <1>21, <1>22, <1>23 DEF
   Next, Run

\* Calls are about links that exist.
LEMMA CreatedStep ==
    ASSUME TypeOK, Finished, Created, Next
    PROVE  Created'
<1>1. ASSUME NEW k \in Tokens, CreateVerification(k)
      PROVE  Created'
  BY <1>1, AdaptiveAssumption, ArgsType DEF CreateVerification, TypeOK, Finished,
     Created, Tok, callVars, lockVars, flowVars
<1>2. ASSUME NEW t \in Calls, NEW v \in Visits, NEW k \in Tokens, NEW r \in Replicas,
   Arrive(t, v, k, r)
      PROVE  Created'
  BY <1>2, AdaptiveAssumption, ArgsType DEF Arrive, TypeOK, Finished, Created, Tok,
     storeVars, lockVars
<1>3. ASSUME NEW t \in Calls, Get(t)
      PROVE  Created'
  BY <1>3, AdaptiveAssumption, ArgsType DEF Get, Goto, TypeOK, Finished, Created,
     Tok, storeVars, lockVars
<1>4. ASSUME NEW t \in Calls, EarlyReturn(t)
      PROVE  Created'
  BY <1>4, AdaptiveAssumption, ArgsType DEF EarlyReturn, Goto, Return, Leave,
     Expired, TypeOK, Finished, Created, Tok, storeVars, callVars, lockVars
<1>5. ASSUME NEW t \in Calls, DeleteExpired(t)
      PROVE  Created'
  BY <1>5, AdaptiveAssumption, ArgsType DEF DeleteExpired, Goto, TypeOK, Finished,
     Created, Tok, callVars, lockVars
<1>6. ASSUME NEW t \in Calls, ForgetDecision(t)
      PROVE  Created'
  BY <1>6, AdaptiveAssumption, ArgsType DEF ForgetDecision, Goto, Return, Leave,
     TypeOK, Finished, Created, Tok, callVars, lockVars
<1>7. ASSUME NEW t \in Calls, SetDefault(t)
      PROVE  Created'
  BY <1>7, AdaptiveAssumption, ArgsType DEF SetDefault, Expired, TypeOK, Finished,
     Created, Tok, storeVars
<1>8. ASSUME NEW t \in Calls, Acquire(t)
      PROVE  Created'
  BY <1>8, AdaptiveAssumption, ArgsType DEF Acquire, TypeOK, Finished, Created, Tok,
     storeVars, callVars
<1>9. ASSUME NEW t \in Calls, Recheck(t)
      PROVE  Created'
  BY <1>9, AdaptiveAssumption, ArgsType DEF Recheck, Goto, Expired, TypeOK,
     Finished, Created, Tok, storeVars, callVars, lockVars
<1>10. ASSUME NEW t \in Calls, LoadDecision(t)
      PROVE  Created'
  BY <1>10, AdaptiveAssumption, ArgsType DEF LoadDecision, Decided, Goto, Leave,
     TypeOK, Finished, Created, Tok, storeVars, lockVars
<1>11. ASSUME NEW t \in Calls, Assess(t)
      PROVE  Created'
  BY <1>11, AdaptiveAssumption, ArgsType DEF Assess, Goto, TypeOK, Finished,
     Created, Tok, storeVars, lockVars
<1>12. ASSUME NEW t \in Calls, SaveDecision(t)
      PROVE  Created'
  BY <1>12, AdaptiveAssumption, ArgsType DEF SaveDecision, Goto, TypeOK, Finished,
     Created, Tok, callVars, lockVars
<1>13. ASSUME NEW t \in Calls, ReloadDecision(t)
      PROVE  Created'
  BY <1>13, AdaptiveAssumption, ArgsType DEF ReloadDecision, Decided, Goto, Leave,
     TypeOK, Finished, Created, Tok, storeVars, lockVars
<1>14. ASSUME NEW t \in Calls, CheapChecks(t)
      PROVE  Created'
  BY <1>14, AdaptiveAssumption, ArgsType DEF CheapChecks, Goto, Leave, TypeOK,
     Finished, Created, Tok, storeVars, callVars, lockVars
<1>15. ASSUME NEW t \in Calls, LookupChallenge(t)
      PROVE  Created'
  BY <1>15, AdaptiveAssumption, ArgsType DEF LookupChallenge, Goto, Leave, TypeOK,
     Finished, Created, Tok, storeVars, callVars, lockVars
<1>16. ASSUME NEW t \in Calls, SolveChallenge(t)
      PROVE  Created'
  BY <1>16, AdaptiveAssumption, ArgsType DEF SolveChallenge, Goto, Leave, TypeOK,
     Finished, Created, Tok, callVars, lockVars
<1>17. ASSUME NEW t \in Calls, MarkVerified(t)
      PROVE  Created'
  BY <1>17, AdaptiveAssumption, ArgsType DEF MarkVerified, Goto, Leave, TypeOK,
     Finished, Created, Tok, callVars, lockVars
<1>18. ASSUME NEW t \in Calls, Trust(t)
      PROVE  Created'
  BY <1>18, AdaptiveAssumption, ArgsType DEF Trust, Goto, TypeOK, Finished, Created,
     Tok, callVars, lockVars
<1>19. ASSUME NEW t \in Calls, Publish(t)
      PROVE  Created'
  BY <1>19, AdaptiveAssumption, ArgsType DEF Publish, Leave, TypeOK, Finished,
     Created, Tok, storeVars, callVars
<1>20. ASSUME NEW t \in Calls, Fault(t)
      PROVE  Created'
  BY <1>20, AdaptiveAssumption, ArgsType DEF Fault, Return, Leave, TypeOK, Finished,
     Created, Critical, Outside, Tok, storeVars, callVars, lockVars
<1>21. ASSUME NEW r \in Replicas, Crash(r)
      PROVE  Created'
  BY <1>21, AdaptiveAssumption, ArgsType DEF Crash, TypeOK, Finished, Created, Tok,
     callVars
<1>22. ASSUME PurgeExpired
      PROVE  Created'
  BY <1>22, AdaptiveAssumption, ArgsType DEF PurgeExpired, TypeOK, Finished,
     Created, Tok, callVars, lockVars, flowVars
<1>23. ASSUME Tick
      PROVE  Created'
  BY <1>23, AdaptiveAssumption, ArgsType DEF Tick, TypeOK, Finished, Created, Tok,
     storeVars, callVars, lockVars, flowVars
<1>. QED BY <1>1, <1>2, <1>3, <1>4, <1>5, <1>6, <1>7, <1>8, <1>9, <1>10, <1>11, <1>12,
   <1>13, <1>14, <1>15, <1>16, <1>17, <1>18, <1>19, <1>20, <1>21, <1>22, <1>23 DEF
   Next, Run

\* A row is deleted only after its link lapsed.
LEMMA LapsedStep ==
    ASSUME TypeOK, Finished, Created, Lapsed, Next
    PROVE  Lapsed'
<1>1. ASSUME NEW k \in Tokens, CreateVerification(k)
      PROVE  Lapsed'
  BY <1>1, AdaptiveAssumption, ArgsType DEF CreateVerification, TypeOK, Finished,
     Created, Lapsed, RowStates, Tok, callVars, lockVars, flowVars
<1>2. ASSUME NEW t \in Calls, NEW v \in Visits, NEW k \in Tokens, NEW r \in Replicas,
   Arrive(t, v, k, r)
      PROVE  Lapsed'
  BY <1>2, AdaptiveAssumption, ArgsType DEF Arrive, TypeOK, Finished, Created,
     Lapsed, RowStates, Tok, storeVars, lockVars
<1>3. ASSUME NEW t \in Calls, Get(t)
      PROVE  Lapsed'
  BY <1>3, AdaptiveAssumption, ArgsType DEF Get, Goto, TypeOK, Finished, Created,
     Lapsed, RowStates, Tok, storeVars, lockVars
<1>4. ASSUME NEW t \in Calls, EarlyReturn(t)
      PROVE  Lapsed'
  BY <1>4, AdaptiveAssumption, ArgsType DEF EarlyReturn, Goto, Return, Leave,
     Expired, TypeOK, Finished, Created, Lapsed, RowStates, Tok, storeVars,
     callVars, lockVars
<1>5. ASSUME NEW t \in Calls, DeleteExpired(t)
      PROVE  Lapsed'
  BY <1>5, AdaptiveAssumption, ArgsType DEF DeleteExpired, Goto, TypeOK, Finished,
     Created, Lapsed, RowStates, Tok, callVars, lockVars
<1>6. ASSUME NEW t \in Calls, ForgetDecision(t)
      PROVE  Lapsed'
  BY <1>6, AdaptiveAssumption, ArgsType DEF ForgetDecision, Goto, Return, Leave,
     TypeOK, Finished, Created, Lapsed, RowStates, Tok, callVars, lockVars
<1>7. ASSUME NEW t \in Calls, SetDefault(t)
      PROVE  Lapsed'
  BY <1>7, AdaptiveAssumption, ArgsType DEF SetDefault, Expired, TypeOK, Finished,
     Created, Lapsed, RowStates, Tok, storeVars
<1>8. ASSUME NEW t \in Calls, Acquire(t)
      PROVE  Lapsed'
  BY <1>8, AdaptiveAssumption, ArgsType DEF Acquire, TypeOK, Finished, Created,
     Lapsed, RowStates, Tok, storeVars, callVars
<1>9. ASSUME NEW t \in Calls, Recheck(t)
      PROVE  Lapsed'
  BY <1>9, AdaptiveAssumption, ArgsType DEF Recheck, Goto, Expired, TypeOK,
     Finished, Created, Lapsed, RowStates, Tok, storeVars, callVars, lockVars
<1>10. ASSUME NEW t \in Calls, LoadDecision(t)
      PROVE  Lapsed'
  BY <1>10, AdaptiveAssumption, ArgsType DEF LoadDecision, Decided, Goto, Leave,
     TypeOK, Finished, Created, Lapsed, RowStates, Tok, storeVars, lockVars
<1>11. ASSUME NEW t \in Calls, Assess(t)
      PROVE  Lapsed'
  BY <1>11, AdaptiveAssumption, ArgsType DEF Assess, Goto, TypeOK, Finished,
     Created, Lapsed, RowStates, Tok, storeVars, lockVars
<1>12. ASSUME NEW t \in Calls, SaveDecision(t)
      PROVE  Lapsed'
  BY <1>12, AdaptiveAssumption, ArgsType DEF SaveDecision, Goto, TypeOK, Finished,
     Created, Lapsed, RowStates, Tok, callVars, lockVars
<1>13. ASSUME NEW t \in Calls, ReloadDecision(t)
      PROVE  Lapsed'
  BY <1>13, AdaptiveAssumption, ArgsType DEF ReloadDecision, Decided, Goto, Leave,
     TypeOK, Finished, Created, Lapsed, RowStates, Tok, storeVars, lockVars
<1>14. ASSUME NEW t \in Calls, CheapChecks(t)
      PROVE  Lapsed'
  BY <1>14, AdaptiveAssumption, ArgsType DEF CheapChecks, Goto, Leave, TypeOK,
     Finished, Created, Lapsed, RowStates, Tok, storeVars, callVars, lockVars
<1>15. ASSUME NEW t \in Calls, LookupChallenge(t)
      PROVE  Lapsed'
  BY <1>15, AdaptiveAssumption, ArgsType DEF LookupChallenge, Goto, Leave, TypeOK,
     Finished, Created, Lapsed, RowStates, Tok, storeVars, callVars, lockVars
<1>16. ASSUME NEW t \in Calls, SolveChallenge(t)
      PROVE  Lapsed'
  BY <1>16, AdaptiveAssumption, ArgsType DEF SolveChallenge, Goto, Leave, TypeOK,
     Finished, Created, Lapsed, RowStates, Tok, callVars, lockVars
<1>17. ASSUME NEW t \in Calls, MarkVerified(t)
      PROVE  Lapsed'
  BY <1>17, AdaptiveAssumption, ArgsType DEF MarkVerified, Goto, Leave, TypeOK,
     Finished, Created, Lapsed, RowStates, Tok, callVars, lockVars
<1>18. ASSUME NEW t \in Calls, Trust(t)
      PROVE  Lapsed'
  BY <1>18, AdaptiveAssumption, ArgsType DEF Trust, Goto, TypeOK, Finished, Created,
     Lapsed, RowStates, Tok, callVars, lockVars
<1>19. ASSUME NEW t \in Calls, Publish(t)
      PROVE  Lapsed'
  BY <1>19, AdaptiveAssumption, ArgsType DEF Publish, Leave, TypeOK, Finished,
     Created, Lapsed, RowStates, Tok, storeVars, callVars
<1>20. ASSUME NEW t \in Calls, Fault(t)
      PROVE  Lapsed'
  BY <1>20, AdaptiveAssumption, ArgsType DEF Fault, Return, Leave, TypeOK, Finished,
     Created, Lapsed, RowStates, Critical, Outside, Tok, storeVars, callVars,
     lockVars
<1>21. ASSUME NEW r \in Replicas, Crash(r)
      PROVE  Lapsed'
  BY <1>21, AdaptiveAssumption, ArgsType DEF Crash, TypeOK, Finished, Created,
     Lapsed, RowStates, Tok, callVars
<1>22. ASSUME PurgeExpired
      PROVE  Lapsed'
  BY <1>22, AdaptiveAssumption, ArgsType DEF PurgeExpired, TypeOK, Finished,
     Created, Lapsed, RowStates, Tok, callVars, lockVars, flowVars
<1>23. ASSUME Tick
      PROVE  Lapsed'
  BY <1>23, AdaptiveAssumption, ArgsType DEF Tick, TypeOK, Finished, Created,
     Lapsed, RowStates, Tok, storeVars, callVars, lockVars, flowVars
<1>. QED BY <1>1, <1>2, <1>3, <1>4, <1>5, <1>6, <1>7, <1>8, <1>9, <1>10, <1>11, <1>12,
   <1>13, <1>14, <1>15, <1>16, <1>17, <1>18, <1>19, <1>20, <1>21, <1>22, <1>23 DEF
   Next, Run

\* A link that is not open stays so.
LEMMA SettledStep ==
    ASSUME TypeOK, Finished, Created, Settled, Next
    PROVE  Settled'
<1>0. \A u \in Calls : pc[u] # "idle" => Tok(u) \in Tokens
  BY ArgsType
<1>1. ASSUME NEW k \in Tokens, CreateVerification(k)
      PROVE  Settled'
  BY <1>1, <1>0 DEF CreateVerification, TypeOK, Finished, Created, Settled, Tok,
     callVars, lockVars, flowVars
<1>2. ASSUME NEW t \in Calls, NEW v \in Visits, NEW k \in Tokens, NEW r \in Replicas,
   Arrive(t, v, k, r)
      PROVE  Settled'
  BY <1>2 DEF Arrive, TypeOK, Finished, Created, Settled, Tok, storeVars, lockVars
<1>3. ASSUME NEW t \in Calls, Get(t)
      PROVE  Settled'
  BY <1>3 DEF Get, Goto, TypeOK, Finished, Created, Settled, Tok, storeVars,
     lockVars
<1>4. ASSUME NEW t \in Calls, EarlyReturn(t)
      PROVE  Settled'
  BY <1>4 DEF EarlyReturn, Goto, Return, Leave, Expired, TypeOK, Finished, Created,
     Settled, Tok, storeVars, callVars, lockVars
<1>5. ASSUME NEW t \in Calls, DeleteExpired(t)
      PROVE  Settled'
  BY <1>5, <1>0 DEF DeleteExpired, Goto, TypeOK, Finished, Created, Settled, Tok,
     callVars, lockVars
<1>6. ASSUME NEW t \in Calls, ForgetDecision(t)
      PROVE  Settled'
  BY <1>6 DEF ForgetDecision, Goto, Return, Leave, TypeOK, Finished, Created,
     Settled, Tok, callVars, lockVars
<1>7. ASSUME NEW t \in Calls, SetDefault(t)
      PROVE  Settled'
  BY <1>7 DEF SetDefault, Expired, TypeOK, Finished, Created, Settled, Tok,
     storeVars
<1>8. ASSUME NEW t \in Calls, Acquire(t)
      PROVE  Settled'
  BY <1>8 DEF Acquire, TypeOK, Finished, Created, Settled, Tok, storeVars, callVars
<1>9. ASSUME NEW t \in Calls, Recheck(t)
      PROVE  Settled'
  BY <1>9 DEF Recheck, Goto, Expired, TypeOK, Finished, Created, Settled, Tok,
     storeVars, callVars, lockVars
<1>10. ASSUME NEW t \in Calls, LoadDecision(t)
      PROVE  Settled'
  BY <1>10 DEF LoadDecision, Decided, Goto, Leave, TypeOK, Finished, Created,
     Settled, Tok, storeVars, lockVars
<1>11. ASSUME NEW t \in Calls, Assess(t)
      PROVE  Settled'
  BY <1>11 DEF Assess, Goto, TypeOK, Finished, Created, Settled, Tok, storeVars,
     lockVars
<1>12. ASSUME NEW t \in Calls, SaveDecision(t)
      PROVE  Settled'
  BY <1>12 DEF SaveDecision, Goto, TypeOK, Finished, Created, Settled, Tok,
     callVars, lockVars
<1>13. ASSUME NEW t \in Calls, ReloadDecision(t)
      PROVE  Settled'
  BY <1>13 DEF ReloadDecision, Decided, Goto, Leave, TypeOK, Finished, Created,
     Settled, Tok, storeVars, lockVars
<1>14. ASSUME NEW t \in Calls, CheapChecks(t)
      PROVE  Settled'
  BY <1>14 DEF CheapChecks, Goto, Leave, TypeOK, Finished, Created, Settled, Tok,
     storeVars, callVars, lockVars
<1>15. ASSUME NEW t \in Calls, LookupChallenge(t)
      PROVE  Settled'
  BY <1>15 DEF LookupChallenge, Goto, Leave, TypeOK, Finished, Created, Settled,
     Tok, storeVars, callVars, lockVars
<1>16. ASSUME NEW t \in Calls, SolveChallenge(t)
      PROVE  Settled'
  BY <1>16 DEF SolveChallenge, Goto, Leave, TypeOK, Finished, Created, Settled, Tok,
     callVars, lockVars
<1>17. ASSUME NEW t \in Calls, MarkVerified(t)
      PROVE  Settled'
  BY <1>17, <1>0 DEF MarkVerified, Goto, Leave, TypeOK, Finished, Created, Settled,
     Tok, callVars, lockVars
<1>18. ASSUME NEW t \in Calls, Trust(t)
      PROVE  Settled'
  BY <1>18 DEF Trust, Goto, TypeOK, Finished, Created, Settled, Tok, callVars,
     lockVars
<1>19. ASSUME NEW t \in Calls, Publish(t)
      PROVE  Settled'
  BY <1>19 DEF Publish, Leave, TypeOK, Finished, Created, Settled, Tok, storeVars,
     callVars
<1>20. ASSUME NEW t \in Calls, Fault(t)
      PROVE  Settled'
  BY <1>20 DEF Fault, Return, Leave, TypeOK, Finished, Created, Settled, Critical,
     Outside, Tok, storeVars, callVars, lockVars
<1>21. ASSUME NEW r \in Replicas, Crash(r)
      PROVE  Settled'
  BY <1>21 DEF Crash, TypeOK, Finished, Created, Settled, Tok, callVars
<1>22. ASSUME PurgeExpired
      PROVE  Settled'
  BY <1>22, <1>0 DEF PurgeExpired, TypeOK, Finished, Created, Settled, Tok,
     callVars, lockVars, flowVars
<1>23. ASSUME Tick
      PROVE  Settled'
  BY <1>23 DEF Tick, TypeOK, Finished, Created, Settled, Tok, storeVars, callVars,
     lockVars, flowVars
<1>. QED BY <1>1, <1>2, <1>3, <1>4, <1>5, <1>6, <1>7, <1>8, <1>9, <1>10, <1>11, <1>12,
   <1>13, <1>14, <1>15, <1>16, <1>17, <1>18, <1>19, <1>20, <1>21, <1>22, <1>23 DEF
   Next, Run

\* A call that waits for a lock gets that lock or goes.
LEMMA HeldStep ==
    ASSUME TypeOK, HeldLock, Next
    PROVE  HeldLock'
<1>1. ASSUME NEW k \in Tokens, CreateVerification(k)
      PROVE  HeldLock'
  BY <1>1, AdaptiveAssumption, ArgsType DEF CreateVerification, TypeOK, HeldLock,
     Locked, Holding, Critical, callVars, lockVars, flowVars
<1>2. ASSUME NEW t \in Calls, NEW v \in Visits, NEW k \in Tokens, NEW r \in Replicas,
   Arrive(t, v, k, r)
      PROVE  HeldLock'
  BY <1>2, AdaptiveAssumption, ArgsType DEF Arrive, TypeOK, HeldLock, Locked,
     Holding, Critical, storeVars, lockVars
<1>3. ASSUME NEW t \in Calls, Get(t)
      PROVE  HeldLock'
  BY <1>3, AdaptiveAssumption, ArgsType DEF Get, Goto, TypeOK, HeldLock, Locked,
     Holding, Critical, storeVars, lockVars
<1>4. ASSUME NEW t \in Calls, EarlyReturn(t)
      PROVE  HeldLock'
  BY <1>4, AdaptiveAssumption, ArgsType DEF EarlyReturn, Goto, Return, Leave,
     Expired, TypeOK, HeldLock, Locked, Holding, Critical, storeVars, callVars,
     lockVars
<1>5. ASSUME NEW t \in Calls, DeleteExpired(t)
      PROVE  HeldLock'
  BY <1>5, AdaptiveAssumption, ArgsType DEF DeleteExpired, Goto, TypeOK, HeldLock,
     Locked, Holding, Critical, callVars, lockVars
<1>6. ASSUME NEW t \in Calls, ForgetDecision(t)
      PROVE  HeldLock'
  BY <1>6, AdaptiveAssumption, ArgsType DEF ForgetDecision, Goto, Return, Leave,
     TypeOK, HeldLock, Locked, Holding, Critical, callVars, lockVars
<1>7. ASSUME NEW t \in Calls, SetDefault(t)
      PROVE  HeldLock'
  BY <1>7, AdaptiveAssumption, ArgsType DEF SetDefault, Expired, TypeOK, HeldLock,
     Locked, Holding, Critical, storeVars
<1>8. ASSUME NEW t \in Calls, Acquire(t)
      PROVE  HeldLock'
  BY <1>8, AdaptiveAssumption, ArgsType DEF Acquire, TypeOK, HeldLock, Locked,
     Holding, Critical, storeVars, callVars
<1>9. ASSUME NEW t \in Calls, Recheck(t)
      PROVE  HeldLock'
  BY <1>9, AdaptiveAssumption, ArgsType DEF Recheck, Goto, Expired, TypeOK,
     HeldLock, Locked, Holding, Critical, storeVars, callVars, lockVars
<1>10. ASSUME NEW t \in Calls, LoadDecision(t)
      PROVE  HeldLock'
  BY <1>10, AdaptiveAssumption, ArgsType DEF LoadDecision, Decided, Goto, Leave,
     TypeOK, HeldLock, Locked, Holding, Critical, storeVars, lockVars
<1>11. ASSUME NEW t \in Calls, Assess(t)
      PROVE  HeldLock'
  BY <1>11, AdaptiveAssumption, ArgsType DEF Assess, Goto, TypeOK, HeldLock, Locked,
     Holding, Critical, storeVars, lockVars
<1>12. ASSUME NEW t \in Calls, SaveDecision(t)
      PROVE  HeldLock'
  BY <1>12, AdaptiveAssumption, ArgsType DEF SaveDecision, Goto, TypeOK, HeldLock,
     Locked, Holding, Critical, callVars, lockVars
<1>13. ASSUME NEW t \in Calls, ReloadDecision(t)
      PROVE  HeldLock'
  BY <1>13, AdaptiveAssumption, ArgsType DEF ReloadDecision, Decided, Goto, Leave,
     TypeOK, HeldLock, Locked, Holding, Critical, storeVars, lockVars
<1>14. ASSUME NEW t \in Calls, CheapChecks(t)
      PROVE  HeldLock'
  BY <1>14, AdaptiveAssumption, ArgsType DEF CheapChecks, Goto, Leave, TypeOK,
     HeldLock, Locked, Holding, Critical, storeVars, callVars, lockVars
<1>15. ASSUME NEW t \in Calls, LookupChallenge(t)
      PROVE  HeldLock'
  BY <1>15, AdaptiveAssumption, ArgsType DEF LookupChallenge, Goto, Leave, TypeOK,
     HeldLock, Locked, Holding, Critical, storeVars, callVars, lockVars
<1>16. ASSUME NEW t \in Calls, SolveChallenge(t)
      PROVE  HeldLock'
  BY <1>16, AdaptiveAssumption, ArgsType DEF SolveChallenge, Goto, Leave, TypeOK,
     HeldLock, Locked, Holding, Critical, callVars, lockVars
<1>17. ASSUME NEW t \in Calls, MarkVerified(t)
      PROVE  HeldLock'
  BY <1>17, AdaptiveAssumption, ArgsType DEF MarkVerified, Goto, Leave, TypeOK,
     HeldLock, Locked, Holding, Critical, callVars, lockVars
<1>18. ASSUME NEW t \in Calls, Trust(t)
      PROVE  HeldLock'
  BY <1>18, AdaptiveAssumption, ArgsType DEF Trust, Goto, TypeOK, HeldLock, Locked,
     Holding, Critical, callVars, lockVars
<1>19. ASSUME NEW t \in Calls, Publish(t)
      PROVE  HeldLock'
  BY <1>19, AdaptiveAssumption, ArgsType DEF Publish, Leave, TypeOK, HeldLock,
     Locked, Holding, Critical, storeVars, callVars
<1>20. ASSUME NEW t \in Calls, Fault(t)
      PROVE  HeldLock'
  BY <1>20, AdaptiveAssumption, ArgsType DEF Fault, Return, Leave, TypeOK, HeldLock,
     Locked, Holding, Critical, Outside, storeVars, callVars, lockVars
<1>21. ASSUME NEW r \in Replicas, Crash(r)
      PROVE  HeldLock'
  BY <1>21, AdaptiveAssumption, ArgsType DEF Crash, TypeOK, HeldLock, Locked,
     Holding, Critical, callVars
<1>22. ASSUME PurgeExpired
      PROVE  HeldLock'
  BY <1>22, AdaptiveAssumption, ArgsType DEF PurgeExpired, TypeOK, HeldLock, Locked,
     Holding, Critical, callVars, lockVars, flowVars
<1>23. ASSUME Tick
      PROVE  HeldLock'
  BY <1>23, AdaptiveAssumption, ArgsType DEF Tick, TypeOK, HeldLock, Locked,
     Holding, Critical, storeVars, callVars, lockVars, flowVars
<1>. QED BY <1>1, <1>2, <1>3, <1>4, <1>5, <1>6, <1>7, <1>8, <1>9, <1>10, <1>11, <1>12,
   <1>13, <1>14, <1>15, <1>16, <1>17, <1>18, <1>19, <1>20, <1>21, <1>22, <1>23 DEF
   Next, Run

\* The captcha is passed by solving it.
LEMMA EarnedStep ==
    ASSUME TypeOK, Earned, Next
    PROVE  Earned'
<1>1. ASSUME NEW k \in Tokens, CreateVerification(k)
      PROVE  Earned'
  BY <1>1, AdaptiveAssumption DEF CreateVerification, TypeOK, Earned, callVars,
     lockVars, flowVars
<1>2. ASSUME NEW t \in Calls, NEW v \in Visits, NEW k \in Tokens, NEW r \in Replicas,
   Arrive(t, v, k, r)
      PROVE  Earned'
  BY <1>2, AdaptiveAssumption DEF Arrive, TypeOK, Earned, storeVars, lockVars
<1>3. ASSUME NEW t \in Calls, Get(t)
      PROVE  Earned'
  BY <1>3, AdaptiveAssumption DEF Get, Goto, TypeOK, Earned, storeVars, lockVars
<1>4. ASSUME NEW t \in Calls, EarlyReturn(t)
      PROVE  Earned'
  BY <1>4, AdaptiveAssumption DEF EarlyReturn, Goto, Return, Leave, Expired, TypeOK,
     Earned, storeVars, callVars, lockVars
<1>5. ASSUME NEW t \in Calls, DeleteExpired(t)
      PROVE  Earned'
  BY <1>5, AdaptiveAssumption DEF DeleteExpired, Goto, TypeOK, Earned, callVars,
     lockVars
<1>6. ASSUME NEW t \in Calls, ForgetDecision(t)
      PROVE  Earned'
  BY <1>6, AdaptiveAssumption DEF ForgetDecision, Goto, Return, Leave, TypeOK,
     Earned, callVars, lockVars
<1>7. ASSUME NEW t \in Calls, SetDefault(t)
      PROVE  Earned'
  BY <1>7, AdaptiveAssumption DEF SetDefault, Expired, TypeOK, Earned, storeVars
<1>8. ASSUME NEW t \in Calls, Acquire(t)
      PROVE  Earned'
  BY <1>8, AdaptiveAssumption DEF Acquire, TypeOK, Earned, storeVars, callVars
<1>9. ASSUME NEW t \in Calls, Recheck(t)
      PROVE  Earned'
  BY <1>9, AdaptiveAssumption DEF Recheck, Goto, Expired, TypeOK, Earned, storeVars,
     callVars, lockVars
<1>10. ASSUME NEW t \in Calls, LoadDecision(t)
      PROVE  Earned'
  BY <1>10, AdaptiveAssumption DEF LoadDecision, Decided, Goto, Leave, TypeOK,
     Earned, storeVars, lockVars
<1>11. ASSUME NEW t \in Calls, Assess(t)
      PROVE  Earned'
  BY <1>11, AdaptiveAssumption DEF Assess, Goto, TypeOK, Earned, storeVars, lockVars
<1>12. ASSUME NEW t \in Calls, SaveDecision(t)
      PROVE  Earned'
  BY <1>12, AdaptiveAssumption DEF SaveDecision, Goto, TypeOK, Earned, callVars,
     lockVars
<1>13. ASSUME NEW t \in Calls, ReloadDecision(t)
      PROVE  Earned'
  BY <1>13, AdaptiveAssumption DEF ReloadDecision, Decided, Goto, Leave, TypeOK,
     Earned, storeVars, lockVars
<1>14. ASSUME NEW t \in Calls, CheapChecks(t)
      PROVE  Earned'
  BY <1>14, AdaptiveAssumption DEF CheapChecks, Goto, Leave, TypeOK, Earned,
     storeVars, callVars, lockVars
<1>15. ASSUME NEW t \in Calls, LookupChallenge(t)
      PROVE  Earned'
  BY <1>15, AdaptiveAssumption DEF LookupChallenge, Goto, Leave, TypeOK, Earned,
     storeVars, callVars, lockVars
<1>16. ASSUME NEW t \in Calls, SolveChallenge(t)
      PROVE  Earned'
  BY <1>16, AdaptiveAssumption DEF SolveChallenge, Goto, Leave, TypeOK, Earned,
     callVars, lockVars
<1>17. ASSUME NEW t \in Calls, MarkVerified(t)
      PROVE  Earned'
  BY <1>17, AdaptiveAssumption DEF MarkVerified, Goto, Leave, TypeOK, Earned,
     callVars, lockVars
<1>18. ASSUME NEW t \in Calls, Trust(t)
      PROVE  Earned'
  BY <1>18, AdaptiveAssumption DEF Trust, Goto, TypeOK, Earned, callVars, lockVars
<1>19. ASSUME NEW t \in Calls, Publish(t)
      PROVE  Earned'
  BY <1>19, AdaptiveAssumption DEF Publish, Leave, TypeOK, Earned, storeVars,
     callVars
<1>20. ASSUME NEW t \in Calls, Fault(t)
      PROVE  Earned'
  BY <1>20, AdaptiveAssumption DEF Fault, Return, Leave, TypeOK, Earned, Critical,
     Outside, storeVars, callVars, lockVars
<1>21. ASSUME NEW r \in Replicas, Crash(r)
      PROVE  Earned'
  BY <1>21, AdaptiveAssumption DEF Crash, TypeOK, Earned, callVars
<1>22. ASSUME PurgeExpired
      PROVE  Earned'
  BY <1>22, AdaptiveAssumption DEF PurgeExpired, TypeOK, Earned, callVars, lockVars,
     flowVars
<1>23. ASSUME Tick
      PROVE  Earned'
  BY <1>23, AdaptiveAssumption DEF Tick, TypeOK, Earned, storeVars, callVars,
     lockVars, flowVars
<1>. QED BY <1>1, <1>2, <1>3, <1>4, <1>5, <1>6, <1>7, <1>8, <1>9, <1>10, <1>11, <1>12,
   <1>13, <1>14, <1>15, <1>16, <1>17, <1>18, <1>19, <1>20, <1>21, <1>22, <1>23 DEF
   Next, Run

\* A stored decision stays while its link is open.
LEMMA KeptStep ==
    ASSUME TypeOK, Finished, Created, Lapsed, Settled, Kept, Next
    PROVE  Kept'
<1>0. \A u \in Calls : pc[u] # "idle" => Tok(u) \in Tokens
  BY ArgsType
<1>1. ASSUME NEW k \in Tokens, CreateVerification(k)
      PROVE  Kept'
  BY <1>1, <1>0, AdaptiveAssumption DEF CreateVerification, TypeOK, Finished,
     Created, Settled, Kept, Chosen, Shown, Durable, Tok, callVars, lockVars,
     flowVars
<1>2. ASSUME NEW t \in Calls, NEW v \in Visits, NEW k \in Tokens, NEW r \in Replicas,
   Arrive(t, v, k, r)
      PROVE  Kept'
  BY <1>2, <1>0, AdaptiveAssumption DEF Arrive, TypeOK, Finished, Created, Settled,
     Kept, Chosen, Shown, Durable, Tok, storeVars, lockVars
<1>3. ASSUME NEW t \in Calls, Get(t)
      PROVE  Kept'
  BY <1>3, <1>0, AdaptiveAssumption DEF Get, Goto, TypeOK, Finished, Created,
     Settled, Kept, Chosen, Shown, Durable, Tok, storeVars, lockVars
<1>4. ASSUME NEW t \in Calls, EarlyReturn(t)
      PROVE  Kept'
  BY <1>4, <1>0, AdaptiveAssumption DEF EarlyReturn, Goto, Return, Leave, Expired,
     TypeOK, Finished, Created, Settled, Kept, Chosen, Shown, Durable, Tok,
     storeVars, callVars, lockVars
<1>5. ASSUME NEW t \in Calls, DeleteExpired(t)
      PROVE  Kept'
  BY <1>5, <1>0, AdaptiveAssumption DEF DeleteExpired, Goto, TypeOK, Finished,
     Created, Settled, Kept, Chosen, Shown, Durable, Tok, callVars, lockVars
<1>6. ASSUME NEW t \in Calls, ForgetDecision(t)
      PROVE  Kept'
  BY <1>6, <1>0, AdaptiveAssumption DEF ForgetDecision, Goto, Return, Leave, TypeOK,
     Finished, Created, Settled, Kept, Chosen, Shown, Durable, Tok, callVars,
     lockVars
<1>7. ASSUME NEW t \in Calls, SetDefault(t)
      PROVE  Kept'
  BY <1>7, <1>0, AdaptiveAssumption DEF SetDefault, Expired, TypeOK, Finished,
     Created, Settled, Kept, Chosen, Shown, Durable, Tok, storeVars
<1>8. ASSUME NEW t \in Calls, Acquire(t)
      PROVE  Kept'
  BY <1>8, <1>0, AdaptiveAssumption DEF Acquire, TypeOK, Finished, Created, Settled,
     Kept, Chosen, Shown, Durable, Tok, storeVars, callVars
<1>9. ASSUME NEW t \in Calls, Recheck(t)
      PROVE  Kept'
  BY <1>9, <1>0, AdaptiveAssumption DEF Recheck, Goto, Expired, TypeOK, Finished,
     Created, Settled, Kept, Chosen, Shown, Durable, Tok, storeVars, callVars,
     lockVars
<1>10. ASSUME NEW t \in Calls, LoadDecision(t)
      PROVE  Kept'
  BY <1>10, <1>0, AdaptiveAssumption DEF LoadDecision, Decided, Goto, Leave, TypeOK,
     Finished, Created, Settled, Kept, Chosen, Shown, Durable, Tok, storeVars,
     lockVars
<1>11. ASSUME NEW t \in Calls, Assess(t)
      PROVE  Kept'
  BY <1>11, <1>0, AdaptiveAssumption DEF Assess, Goto, TypeOK, Finished, Created,
     Settled, Kept, Chosen, Shown, Durable, Tok, storeVars, lockVars
<1>12. ASSUME NEW t \in Calls, SaveDecision(t)
      PROVE  Kept'
  BY <1>12, <1>0, AdaptiveAssumption DEF SaveDecision, Goto, TypeOK, Finished,
     Created, Settled, Kept, Chosen, Shown, Durable, Tok, callVars, lockVars
<1>13. ASSUME NEW t \in Calls, ReloadDecision(t)
      PROVE  Kept'
  BY <1>13, <1>0, AdaptiveAssumption DEF ReloadDecision, Decided, Goto, Leave,
     TypeOK, Finished, Created, Settled, Kept, Chosen, Shown, Durable, Tok,
     storeVars, lockVars
<1>14. ASSUME NEW t \in Calls, CheapChecks(t)
      PROVE  Kept'
  BY <1>14, <1>0, AdaptiveAssumption DEF CheapChecks, Goto, Leave, TypeOK, Finished,
     Created, Settled, Kept, Chosen, Shown, Durable, Tok, storeVars, callVars,
     lockVars
<1>15. ASSUME NEW t \in Calls, LookupChallenge(t)
      PROVE  Kept'
  BY <1>15, <1>0, AdaptiveAssumption DEF LookupChallenge, Goto, Leave, TypeOK,
     Finished, Created, Settled, Kept, Chosen, Shown, Durable, Tok, storeVars,
     callVars, lockVars
<1>16. ASSUME NEW t \in Calls, SolveChallenge(t)
      PROVE  Kept'
  BY <1>16, <1>0, AdaptiveAssumption DEF SolveChallenge, Goto, Leave, TypeOK,
     Finished, Created, Settled, Kept, Chosen, Shown, Durable, Tok, callVars,
     lockVars
<1>17. ASSUME NEW t \in Calls, MarkVerified(t)
      PROVE  Kept'
  BY <1>17, <1>0, AdaptiveAssumption DEF MarkVerified, Goto, Leave, TypeOK,
     Finished, Created, Settled, Kept, Chosen, Shown, Durable, Tok, callVars,
     lockVars
<1>18. ASSUME NEW t \in Calls, Trust(t)
      PROVE  Kept'
  BY <1>18, <1>0, AdaptiveAssumption DEF Trust, Goto, TypeOK, Finished, Created,
     Settled, Kept, Chosen, Shown, Durable, Tok, callVars, lockVars
<1>19. ASSUME NEW t \in Calls, Publish(t)
      PROVE  Kept'
  BY <1>19, <1>0, AdaptiveAssumption DEF Publish, Leave, TypeOK, Finished, Created,
     Settled, Kept, Chosen, Shown, Durable, Tok, storeVars, callVars
<1>20. ASSUME NEW t \in Calls, Fault(t)
      PROVE  Kept'
  BY <1>20, <1>0, AdaptiveAssumption DEF Fault, Return, Leave, TypeOK, Finished,
     Created, Settled, Kept, Chosen, Shown, Durable, Critical, Outside, Tok,
     storeVars, callVars, lockVars
<1>21. ASSUME NEW r \in Replicas, Crash(r)
      PROVE  Kept'
  BY <1>21, <1>0, AdaptiveAssumption DEF Crash, TypeOK, Finished, Created, Settled,
     Kept, Chosen, Shown, Durable, Tok, callVars
<1>22. ASSUME PurgeExpired
      PROVE  Kept'
  BY <1>22, <1>0, AdaptiveAssumption DEF PurgeExpired, TypeOK, Finished, Created,
     Settled, Kept, Chosen, Shown, Durable, Tok, callVars, lockVars, flowVars
<1>23. ASSUME Tick
      PROVE  Kept'
  BY <1>23, <1>0, AdaptiveAssumption DEF Tick, TypeOK, Finished, Created, Settled,
     Kept, Chosen, Shown, Durable, Tok, storeVars, callVars, lockVars, flowVars
<1>. QED BY <1>1, <1>2, <1>3, <1>4, <1>5, <1>6, <1>7, <1>8, <1>9, <1>10, <1>11, <1>12,
   <1>13, <1>14, <1>15, <1>16, <1>17, <1>18, <1>19, <1>20, <1>21, <1>22, <1>23 DEF
   Next, Run

\* A call that issued a challenge went on from there.
LEMMA IssuedStep ==
    ASSUME TypeOK, Issued, Next
    PROVE  Issued'
<1>1. ASSUME NEW k \in Tokens, CreateVerification(k)
      PROVE  Issued'
  BY <1>1 DEF CreateVerification, TypeOK, Issued, Holding, Critical, callVars,
     lockVars, flowVars
<1>2. ASSUME NEW t \in Calls, NEW v \in Visits, NEW k \in Tokens, NEW r \in Replicas,
   Arrive(t, v, k, r)
      PROVE  Issued'
  BY <1>2 DEF Arrive, TypeOK, Issued, Holding, Critical, storeVars, lockVars
<1>3. ASSUME NEW t \in Calls, Get(t)
      PROVE  Issued'
  BY <1>3 DEF Get, Goto, TypeOK, Issued, Holding, Critical, storeVars, lockVars
<1>4. ASSUME NEW t \in Calls, EarlyReturn(t)
      PROVE  Issued'
  BY <1>4 DEF EarlyReturn, Goto, Return, Leave, Expired, TypeOK, Issued, Holding,
     Critical, storeVars, callVars, lockVars
<1>5. ASSUME NEW t \in Calls, DeleteExpired(t)
      PROVE  Issued'
  BY <1>5 DEF DeleteExpired, Goto, TypeOK, Issued, Holding, Critical, callVars,
     lockVars
<1>6. ASSUME NEW t \in Calls, ForgetDecision(t)
      PROVE  Issued'
  BY <1>6 DEF ForgetDecision, Goto, Return, Leave, TypeOK, Issued, Holding,
     Critical, callVars, lockVars
<1>7. ASSUME NEW t \in Calls, SetDefault(t)
      PROVE  Issued'
  BY <1>7 DEF SetDefault, Expired, TypeOK, Issued, Holding, Critical, storeVars
<1>8. ASSUME NEW t \in Calls, Acquire(t)
      PROVE  Issued'
  BY <1>8 DEF Acquire, TypeOK, Issued, Holding, Critical, storeVars, callVars
<1>9. ASSUME NEW t \in Calls, Recheck(t)
      PROVE  Issued'
  BY <1>9 DEF Recheck, Goto, Expired, TypeOK, Issued, Holding, Critical, storeVars,
     callVars, lockVars
<1>10. ASSUME NEW t \in Calls, LoadDecision(t)
      PROVE  Issued'
  BY <1>10 DEF LoadDecision, Decided, Goto, Leave, TypeOK, Issued, Holding,
     Critical, storeVars, lockVars
<1>11. ASSUME NEW t \in Calls, Assess(t)
      PROVE  Issued'
  BY <1>11 DEF Assess, Goto, TypeOK, Issued, Holding, Critical, storeVars, lockVars
<1>12. ASSUME NEW t \in Calls, SaveDecision(t)
      PROVE  Issued'
  BY <1>12 DEF SaveDecision, Goto, TypeOK, Issued, Holding, Critical, callVars,
     lockVars
<1>13. ASSUME NEW t \in Calls, ReloadDecision(t)
      PROVE  Issued'
  BY <1>13 DEF ReloadDecision, Decided, Goto, Leave, TypeOK, Issued, Holding,
     Critical, storeVars, lockVars
<1>14. ASSUME NEW t \in Calls, CheapChecks(t)
      PROVE  Issued'
  BY <1>14 DEF CheapChecks, Goto, Leave, TypeOK, Issued, Holding, Critical,
     storeVars, callVars, lockVars
<1>15. ASSUME NEW t \in Calls, LookupChallenge(t)
      PROVE  Issued'
  BY <1>15 DEF LookupChallenge, Goto, Leave, TypeOK, Issued, Holding, Critical,
     storeVars, callVars, lockVars
<1>16. ASSUME NEW t \in Calls, SolveChallenge(t)
      PROVE  Issued'
  BY <1>16 DEF SolveChallenge, Goto, Leave, TypeOK, Issued, Holding, Critical,
     callVars, lockVars
<1>17. ASSUME NEW t \in Calls, MarkVerified(t)
      PROVE  Issued'
  BY <1>17, SMTT(20) DEF MarkVerified, Goto, Leave, TypeOK, Issued, Holding, Critical,
     callVars, lockVars
<1>18. ASSUME NEW t \in Calls, Trust(t)
      PROVE  Issued'
  BY <1>18 DEF Trust, Goto, TypeOK, Issued, Holding, Critical, callVars, lockVars
<1>19. ASSUME NEW t \in Calls, Publish(t)
      PROVE  Issued'
  BY <1>19 DEF Publish, Leave, TypeOK, Issued, Holding, Critical, storeVars,
     callVars
<1>20. ASSUME NEW t \in Calls, Fault(t)
      PROVE  Issued'
  BY <1>20 DEF Fault, Return, Leave, TypeOK, Issued, Holding, Critical, Outside,
     storeVars, callVars, lockVars
<1>21. ASSUME NEW r \in Replicas, Crash(r)
      PROVE  Issued'
  BY <1>21 DEF Crash, TypeOK, Issued, Holding, Critical, callVars
<1>22. ASSUME PurgeExpired
      PROVE  Issued'
  BY <1>22 DEF PurgeExpired, TypeOK, Issued, Holding, Critical, callVars, lockVars,
     flowVars
<1>23. ASSUME Tick
      PROVE  Issued'
  BY <1>23 DEF Tick, TypeOK, Issued, Holding, Critical, storeVars, callVars,
     lockVars, flowVars
<1>. QED BY <1>1, <1>2, <1>3, <1>4, <1>5, <1>6, <1>7, <1>8, <1>9, <1>10, <1>11, <1>12,
   <1>13, <1>14, <1>15, <1>16, <1>17, <1>18, <1>19, <1>20, <1>21, <1>22, <1>23 DEF
   Next, Run

\* What no step undoes.
LEMMA OnwardStep ==
    ASSUME TypeOK, Finished, Created, Settled, Kept, Next
    PROVE  Onward
<1>0. \A u \in Calls : pc[u] # "idle" => Tok(u) \in Tokens
  BY ArgsType
<1>1. ASSUME NEW k \in Tokens, CreateVerification(k)
      PROVE  Onward
  BY <1>1, <1>0, AdaptiveAssumption DEF CreateVerification, TypeOK, Finished,
     Created, Settled, Onward, Durable, Tok, callVars, lockVars, flowVars
<1>2. ASSUME NEW t \in Calls, NEW v \in Visits, NEW k \in Tokens, NEW r \in Replicas,
   Arrive(t, v, k, r)
      PROVE  Onward
  BY <1>2, <1>0, AdaptiveAssumption DEF Arrive, TypeOK, Finished, Created, Settled,
     Onward, Durable, Tok, storeVars, lockVars
<1>3. ASSUME NEW t \in Calls, Get(t)
      PROVE  Onward
  BY <1>3, <1>0, AdaptiveAssumption DEF Get, Goto, TypeOK, Finished, Created,
     Settled, Onward, Durable, Tok, storeVars, lockVars
<1>4. ASSUME NEW t \in Calls, EarlyReturn(t)
      PROVE  Onward
  BY <1>4, <1>0, AdaptiveAssumption DEF EarlyReturn, Goto, Return, Leave, Expired,
     TypeOK, Finished, Created, Settled, Onward, Durable, Tok, storeVars, callVars,
     lockVars
<1>5. ASSUME NEW t \in Calls, DeleteExpired(t)
      PROVE  Onward
  BY <1>5, <1>0, AdaptiveAssumption DEF DeleteExpired, Goto, TypeOK, Finished,
     Created, Settled, Onward, Durable, Tok, callVars, lockVars
<1>6. ASSUME NEW t \in Calls, ForgetDecision(t)
      PROVE  Onward
  BY <1>6, <1>0, AdaptiveAssumption DEF ForgetDecision, Goto, Return, Leave, TypeOK,
     Finished, Created, Settled, Onward, Durable, Tok, callVars, lockVars
<1>7. ASSUME NEW t \in Calls, SetDefault(t)
      PROVE  Onward
  BY <1>7, <1>0, AdaptiveAssumption DEF SetDefault, Expired, TypeOK, Finished,
     Created, Settled, Onward, Durable, Tok, storeVars
<1>8. ASSUME NEW t \in Calls, Acquire(t)
      PROVE  Onward
  BY <1>8, <1>0, AdaptiveAssumption DEF Acquire, TypeOK, Finished, Created, Settled,
     Onward, Durable, Tok, storeVars, callVars
<1>9. ASSUME NEW t \in Calls, Recheck(t)
      PROVE  Onward
  BY <1>9, <1>0, AdaptiveAssumption DEF Recheck, Goto, Expired, TypeOK, Finished,
     Created, Settled, Onward, Durable, Tok, storeVars, callVars, lockVars
<1>10. ASSUME NEW t \in Calls, LoadDecision(t)
      PROVE  Onward
  BY <1>10, <1>0, AdaptiveAssumption DEF LoadDecision, Decided, Goto, Leave, TypeOK,
     Finished, Created, Settled, Onward, Durable, Tok, storeVars, lockVars
<1>11. ASSUME NEW t \in Calls, Assess(t)
      PROVE  Onward
  BY <1>11, <1>0, AdaptiveAssumption DEF Assess, Goto, TypeOK, Finished, Created,
     Settled, Onward, Durable, Tok, storeVars, lockVars
<1>12. ASSUME NEW t \in Calls, SaveDecision(t)
      PROVE  Onward
  <2>1. mine[t] # None /\ Tok(t) \in Tokens
    BY <1>12, ArgsType DEF SaveDecision, Kept
  <2>2. \A k \in Tokens : decision[k] # None => decision'[k] # None
    BY <1>12, <2>1 DEF SaveDecision, TypeOK
  <2>3. /\ UNCHANGED <<now, row, expires, spent, callVars, result>>
        /\ pc[t] = "save" /\ pc' = [pc EXCEPT ![t] = "reload"]
    BY <1>12 DEF SaveDecision, Goto
  <2>. QED
    BY <2>2, <2>3, AdaptiveAssumption DEF Onward, TypeOK, callVars
<1>13. ASSUME NEW t \in Calls, ReloadDecision(t)
      PROVE  Onward
  BY <1>13, <1>0, AdaptiveAssumption DEF ReloadDecision, Decided, Goto, Leave,
     TypeOK, Finished, Created, Settled, Onward, Durable, Tok, storeVars, lockVars
<1>14. ASSUME NEW t \in Calls, CheapChecks(t)
      PROVE  Onward
  BY <1>14, <1>0, AdaptiveAssumption DEF CheapChecks, Goto, Leave, TypeOK, Finished,
     Created, Settled, Onward, Durable, Tok, storeVars, callVars, lockVars
<1>15. ASSUME NEW t \in Calls, LookupChallenge(t)
      PROVE  Onward
  BY <1>15, <1>0, AdaptiveAssumption DEF LookupChallenge, Goto, Leave, TypeOK,
     Finished, Created, Settled, Onward, Durable, Tok, storeVars, callVars, lockVars
<1>16. ASSUME NEW t \in Calls, SolveChallenge(t)
      PROVE  Onward
  BY <1>16, <1>0, AdaptiveAssumption DEF SolveChallenge, Goto, Leave, TypeOK,
     Finished, Created, Settled, Onward, Durable, Tok, callVars, lockVars
<1>17. ASSUME NEW t \in Calls, MarkVerified(t)
      PROVE  Onward
  BY <1>17, <1>0, AdaptiveAssumption DEF MarkVerified, Goto, Leave, TypeOK,
     Finished, Created, Settled, Onward, Durable, Tok, callVars, lockVars
<1>18. ASSUME NEW t \in Calls, Trust(t)
      PROVE  Onward
  BY <1>18, <1>0, AdaptiveAssumption DEF Trust, Goto, TypeOK, Finished, Created,
     Settled, Onward, Durable, Tok, callVars, lockVars
<1>19. ASSUME NEW t \in Calls, Publish(t)
      PROVE  Onward
  BY <1>19, <1>0, AdaptiveAssumption DEF Publish, Leave, TypeOK, Finished, Created,
     Settled, Onward, Durable, Tok, storeVars, callVars
<1>20. ASSUME NEW t \in Calls, Fault(t)
      PROVE  Onward
  BY <1>20, <1>0, AdaptiveAssumption DEF Fault, Return, Leave, TypeOK, Finished,
     Created, Settled, Onward, Durable, Critical, Outside, Tok, storeVars, callVars,
     lockVars
<1>21. ASSUME NEW r \in Replicas, Crash(r)
      PROVE  Onward
  BY <1>21, <1>0, AdaptiveAssumption DEF Crash, TypeOK, Finished, Created, Settled,
     Onward, Durable, Tok, callVars
<1>22. ASSUME PurgeExpired
      PROVE  Onward
  BY <1>22, <1>0, AdaptiveAssumption DEF PurgeExpired, TypeOK, Finished, Created,
     Settled, Onward, Durable, Tok, callVars, lockVars, flowVars
<1>23. ASSUME Tick
      PROVE  Onward
  BY <1>23, <1>0, AdaptiveAssumption DEF Tick, TypeOK, Finished, Created, Settled,
     Onward, Durable, Tok, storeVars, callVars, lockVars, flowVars
<1>. QED BY <1>1, <1>2, <1>3, <1>4, <1>5, <1>6, <1>7, <1>8, <1>9, <1>10, <1>11, <1>12,
   <1>13, <1>14, <1>15, <1>16, <1>17, <1>18, <1>19, <1>20, <1>21, <1>22, <1>23 DEF
   Next, Run

\* What went wrong at a link stays so, and a lock that is steady now was so before.
LEMMA SteadyBack ==
    ASSUME TypeOK, Finished, Created, Onward, NEW t \in Calls, pc[t] # "idle"
    PROVE  /\ Upset(t) => Upset(t)'
           /\ Broken(t) => Broken(t)'
           /\ row'[Tok(t)] = "open" => row[Tok(t)] = "open"
           /\ Steady(t)' => Steady(t)
           /\ Tok(t)' = Tok(t) /\ Home(t)' = Home(t)
<1>1. Tok(t)' = Tok(t) /\ Home(t)' = Home(t) /\ Tok(t) \in Tokens
  BY ArgsType DEF Onward, Tok, Home
<1>2. ASSUME NEW w \in Calls, pc[w] \in {"done", "dead"}, Same(w, t)
      PROVE  Same(w, t)'
  BY <1>1, <1>2 DEF Onward, Same, Tok, Home
<1>3. Upset(t) => Upset(t)'
  BY <1>2 DEF Upset, Finished, Onward
<1>4. Broken(t) => Broken(t)'
  BY <1>2 DEF Broken, Finished, Onward
<1>5. row'[Tok(t)] = "open" => row[Tok(t)] = "open"
  BY <1>1 DEF Onward, Created
<1>6. Steady(t)' => Steady(t)
  BY <1>1, <1>3, <1>4, <1>5 DEF Onward, Created, Steady, Durable
<1>. QED
  BY <1>1, <1>3, <1>4, <1>5, <1>6

\* Where no lock is taken or popped, the calls that share one still do.
LEMMA RegisteredQuiet ==
    ASSUME TypeOK, Finished, Created, Onward, RegisteredLock,
           \A u \in Calls : Locked(u)' => Locked(u),
           UNCHANGED <<lock, locks>>
    PROVE  RegisteredLock'
<1> SUFFICES ASSUME NEW u \in Calls, Locked(u)', Steady(u)'
             PROVE  lock'[u] = locks'[Home(u)'][Tok(u)']
  BY DEF RegisteredLock
<1>1. Locked(u) /\ pc[u] # "idle"
  BY DEF Locked, Holding, Critical
<1>. QED
  BY <1>1, SteadyBack DEF RegisteredLock

\* A call that leaves pops a lock only where nobody relies on it any more.
LEMMA RegisteredLeave ==
    ASSUME TypeOK, Finished, Created, Onward, Settled', Kept', RegisteredLock,
           NEW t \in Calls, Locked(t), NEW a \in Results \ {"none"}, Leave(t, a),
           UNCHANGED <<lock, args>>
    PROVE  RegisteredLock'
<1> SUFFICES ASSUME NEW u \in Calls, Locked(u)', Steady(u)'
             PROVE  lock'[u] = locks'[Home(u)'][Tok(u)']
  BY DEF RegisteredLock
<1>1. Locked(u) /\ pc[u] # "idle" /\ pc[t] # "idle" /\ result'[t] = a /\ pc'[t] = "done"
  BY DEF Leave, Locked, Holding, Critical, TypeOK
<1>2. lock[u] = locks[Home(u)][Tok(u)] /\ Tok(u)' = Tok(u) /\ Home(u)' = Home(u)
  BY <1>1, SteadyBack DEF RegisteredLock
<1>3. ~ Same(t, u)
  <2> SUFFICES ASSUME Same(t, u)
               PROVE  FALSE
    OBVIOUS
  <2>1. Same(t, u)' /\ Tok(t)' = Tok(u)'
    BY <1>2 DEF Same, Tok, Home
  <2>2. row'[Tok(t)'] = "open"
    BY <2>1 DEF Steady
  <2>3. a \in {"pending", "failed", "error"}
    BY <1>1, <2>2 DEF Settled, Results
  <2>4. Upset(u)'
    BY <1>1, <2>1, <2>3 DEF Upset
  <2>5. Durable /\ decision'[Tok(t)'] = None /\ ~ Broken(u)'
    BY <2>1, <2>4 DEF Steady, Durable
  <2>6. a # "error"
    BY <1>1, <2>1, <2>5 DEF Broken
  <2>. QED
    BY <1>1, <2>2, <2>3, <2>5, <2>6 DEF Kept, Chosen, Shown, Durable
<1>4. locks'[Home(u)][Tok(u)] = locks[Home(u)][Tok(u)]
  BY <1>1, <1>3, ArgsType DEF Leave, Same, TypeOK
<1>. QED
  BY <1>2, <1>4

\* The calls of a steady link share the registered lock.
LEMMA RegisteredStep ==
    ASSUME TypeOK, Finished, Created, Onward, HeldLock, Settled', Kept',
       RegisteredLock, Next
    PROVE  RegisteredLock'
<1>1. ASSUME NEW k \in Tokens, CreateVerification(k)
      PROVE  RegisteredLock'
  <2>1. \A u \in Calls : Locked(u)' => Locked(u)
    BY <1>1 DEF CreateVerification, Goto, Return, TypeOK, Locked, Holding, Critical,
       Outside, storeVars, callVars, lockVars, flowVars
  <2>2. UNCHANGED <<lock, locks>>
    BY <1>1 DEF CreateVerification, Goto, Return, storeVars, callVars, lockVars, flowVars
  <2>. QED
    BY <2>1, <2>2, RegisteredQuiet
<1>2. ASSUME NEW t \in Calls, NEW v \in Visits, NEW k \in Tokens, NEW r \in Replicas,
   Arrive(t, v, k, r)
      PROVE  RegisteredLock'
  <2>1. \A u \in Calls : Locked(u)' => Locked(u)
    BY <1>2 DEF Arrive, Goto, Return, TypeOK, Locked, Holding, Critical, Outside,
       storeVars, callVars, lockVars, flowVars
  <2>2. UNCHANGED <<lock, locks>>
    BY <1>2 DEF Arrive, Goto, Return, storeVars, callVars, lockVars, flowVars
  <2>. QED
    BY <2>1, <2>2, RegisteredQuiet
<1>3. ASSUME NEW t \in Calls, Get(t)
      PROVE  RegisteredLock'
  <2>1. \A u \in Calls : Locked(u)' => Locked(u)
    BY <1>3 DEF Get, Goto, Return, TypeOK, Locked, Holding, Critical, Outside,
       storeVars, callVars, lockVars, flowVars
  <2>2. UNCHANGED <<lock, locks>>
    BY <1>3 DEF Get, Goto, Return, storeVars, callVars, lockVars, flowVars
  <2>. QED
    BY <2>1, <2>2, RegisteredQuiet
<1>4. ASSUME NEW t \in Calls, EarlyReturn(t)
      PROVE  RegisteredLock'
  <2>1. CASE Locked(t) /\ \E a \in {"unknown", "verified"} : Leave(t, a)
    <3>1. UNCHANGED <<lock, args>>
      BY <1>4, <2>1 DEF EarlyReturn, Locked, Holding, Critical, Outside, Leave,
         Goto, Return, storeVars, callVars
    <3>. QED
      BY <2>1, <3>1, RegisteredLeave DEF Results
  <2>2. CASE ~ (Locked(t) /\ \E a \in {"unknown", "verified"} : Leave(t, a))
    <3>1. pc' = [pc EXCEPT ![t] = pc'[t]] /\ UNCHANGED <<lock, locks>>
          /\ (pc'[t] \in Critical \union {"recheck", "wait"} => Locked(t))
      BY <1>4, <2>2 DEF EarlyReturn, Goto, Return, TypeOK, Locked, Holding,
         Critical, Outside, storeVars, callVars, lockVars, flowVars
    <3>2. \A u \in Calls : Locked(u)' => Locked(u)
      BY <3>1 DEF Locked, Holding, Critical, Outside, TypeOK
    <3>. QED
      BY <3>1, <3>2, RegisteredQuiet
  <2>. QED
    BY <2>1, <2>2
<1>5. ASSUME NEW t \in Calls, DeleteExpired(t)
      PROVE  RegisteredLock'
  <2>1. \A u \in Calls : Locked(u)' => Locked(u)
    BY <1>5 DEF DeleteExpired, Goto, Return, TypeOK, Locked, Holding, Critical,
       Outside, storeVars, callVars, lockVars, flowVars
  <2>2. UNCHANGED <<lock, locks>>
    BY <1>5 DEF DeleteExpired, Goto, Return, storeVars, callVars, lockVars, flowVars
  <2>. QED
    BY <2>1, <2>2, RegisteredQuiet
<1>6. ASSUME NEW t \in Calls, ForgetDecision(t)
      PROVE  RegisteredLock'
  <2>1. CASE Locked(t) /\ \E a \in {"unknown"} : Leave(t, a)
    <3>1. UNCHANGED <<lock, args>>
      BY <1>6, <2>1 DEF ForgetDecision, Locked, Holding, Critical, Outside, Leave,
         Goto, Return, storeVars, callVars
    <3>. QED
      BY <2>1, <3>1, RegisteredLeave DEF Results
  <2>2. CASE ~ (Locked(t) /\ \E a \in {"unknown"} : Leave(t, a))
    <3>1. pc' = [pc EXCEPT ![t] = pc'[t]] /\ UNCHANGED <<lock, locks>>
          /\ (pc'[t] \in Critical \union {"recheck", "wait"} => Locked(t))
      BY <1>6, <2>2 DEF ForgetDecision, Goto, Return, TypeOK, Locked, Holding,
         Critical, Outside, storeVars, callVars, lockVars, flowVars
    <3>2. \A u \in Calls : Locked(u)' => Locked(u)
      BY <3>1 DEF Locked, Holding, Critical, Outside, TypeOK
    <3>. QED
      BY <3>1, <3>2, RegisteredQuiet
  <2>. QED
    BY <2>1, <2>2
<1>7. ASSUME NEW t \in Calls, SetDefault(t)
      PROVE  RegisteredLock'
  <2> SUFFICES ASSUME NEW u \in Calls, Locked(u)', Steady(u)'
               PROVE  lock'[u] = locks'[Home(u)'][Tok(u)']
    BY DEF RegisteredLock
  <2>1. pc[u] # "idle" /\ (u = t \/ Locked(u))
    BY <1>7 DEF SetDefault, Locked, Holding, Critical, TypeOK
  <2>2. Tok(u)' = Tok(u) /\ Home(u)' = Home(u) /\ Steady(u)
    BY <2>1, SteadyBack
  <2>3. Tok(u) \in Tokens /\ Home(u) \in Replicas /\ Tok(t) \in Tokens /\ Home(t) \in Replicas
    BY <1>7, <2>1, ArgsType DEF SetDefault
  <2>4. CASE u = t
    BY <1>7, <2>2, <2>3, <2>4 DEF SetDefault, TypeOK
  <2>5. CASE u # t /\ Locked(u)
    <3>1. lock'[u] = lock[u] /\ lock[u] \in Calls /\ lock[u] = locks[Home(u)][Tok(u)]
      BY <1>7, <2>2, <2>5 DEF SetDefault, RegisteredLock, HeldLock, TypeOK
    <3>. QED
      BY <1>7, <2>2, <2>3, <3>1, AdaptiveAssumption DEF SetDefault, TypeOK
  <2>. QED
    BY <2>1, <2>4, <2>5
<1>8. ASSUME NEW t \in Calls, Acquire(t)
      PROVE  RegisteredLock'
  <2>1. \A u \in Calls : Locked(u)' => Locked(u)
    BY <1>8 DEF Acquire, Goto, Return, TypeOK, Locked, Holding, Critical, Outside,
       storeVars, callVars, lockVars, flowVars
  <2>2. UNCHANGED <<lock, locks>>
    BY <1>8 DEF Acquire, Goto, Return, storeVars, callVars, lockVars, flowVars
  <2>. QED
    BY <2>1, <2>2, RegisteredQuiet
<1>9. ASSUME NEW t \in Calls, Recheck(t)
      PROVE  RegisteredLock'
  <2>1. \A u \in Calls : Locked(u)' => Locked(u)
    BY <1>9 DEF Recheck, Goto, Return, TypeOK, Locked, Holding, Critical, Outside,
       storeVars, callVars, lockVars, flowVars
  <2>2. UNCHANGED <<lock, locks>>
    BY <1>9 DEF Recheck, Goto, Return, storeVars, callVars, lockVars, flowVars
  <2>. QED
    BY <2>1, <2>2, RegisteredQuiet
<1>10. ASSUME NEW t \in Calls, LoadDecision(t)
      PROVE  RegisteredLock'
  <2>1. CASE Locked(t) /\ \E a \in {"pending"} : Leave(t, a)
    <3>1. UNCHANGED <<lock, args>>
      BY <1>10, <2>1 DEF LoadDecision, Locked, Holding, Critical, Outside, Leave,
         Goto, Return, storeVars, callVars, Decided
    <3>. QED
      BY <2>1, <3>1, RegisteredLeave DEF Results
  <2>2. CASE ~ (Locked(t) /\ \E a \in {"pending"} : Leave(t, a))
    <3>1. pc' = [pc EXCEPT ![t] = pc'[t]] /\ UNCHANGED <<lock, locks>>
          /\ (pc'[t] \in Critical \union {"recheck", "wait"} => Locked(t))
      BY <1>10, <2>2 DEF LoadDecision, Goto, Return, TypeOK, Locked, Holding,
         Critical, Outside, storeVars, callVars, lockVars, flowVars, Decided
    <3>2. \A u \in Calls : Locked(u)' => Locked(u)
      BY <3>1 DEF Locked, Holding, Critical, Outside, TypeOK
    <3>. QED
      BY <3>1, <3>2, RegisteredQuiet
  <2>. QED
    BY <2>1, <2>2
<1>11. ASSUME NEW t \in Calls, Assess(t)
      PROVE  RegisteredLock'
  <2>1. \A u \in Calls : Locked(u)' => Locked(u)
    BY <1>11 DEF Assess, Goto, Return, TypeOK, Locked, Holding, Critical, Outside,
       storeVars, callVars, lockVars, flowVars
  <2>2. UNCHANGED <<lock, locks>>
    BY <1>11 DEF Assess, Goto, Return, storeVars, callVars, lockVars, flowVars
  <2>. QED
    BY <2>1, <2>2, RegisteredQuiet
<1>12. ASSUME NEW t \in Calls, SaveDecision(t)
      PROVE  RegisteredLock'
  <2>1. \A u \in Calls : Locked(u)' => Locked(u)
    BY <1>12 DEF SaveDecision, Goto, Return, TypeOK, Locked, Holding, Critical,
       Outside, storeVars, callVars, lockVars, flowVars
  <2>2. UNCHANGED <<lock, locks>>
    BY <1>12 DEF SaveDecision, Goto, Return, storeVars, callVars, lockVars, flowVars
  <2>. QED
    BY <2>1, <2>2, RegisteredQuiet
<1>13. ASSUME NEW t \in Calls, ReloadDecision(t)
      PROVE  RegisteredLock'
  <2>1. CASE Locked(t) /\ \E a \in {"pending"} : Leave(t, a)
    <3>1. UNCHANGED <<lock, args>>
      BY <1>13, <2>1 DEF ReloadDecision, Locked, Holding, Critical, Outside, Leave,
         Goto, Return, storeVars, callVars, Decided
    <3>. QED
      BY <2>1, <3>1, RegisteredLeave DEF Results
  <2>2. CASE ~ (Locked(t) /\ \E a \in {"pending"} : Leave(t, a))
    <3>1. pc' = [pc EXCEPT ![t] = pc'[t]] /\ UNCHANGED <<lock, locks>>
          /\ (pc'[t] \in Critical \union {"recheck", "wait"} => Locked(t))
      BY <1>13, <2>2 DEF ReloadDecision, Goto, Return, TypeOK, Locked, Holding,
         Critical, Outside, storeVars, callVars, lockVars, flowVars, Decided
    <3>2. \A u \in Calls : Locked(u)' => Locked(u)
      BY <3>1 DEF Locked, Holding, Critical, Outside, TypeOK
    <3>. QED
      BY <3>1, <3>2, RegisteredQuiet
  <2>. QED
    BY <2>1, <2>2
<1>14. ASSUME NEW t \in Calls, CheapChecks(t)
      PROVE  RegisteredLock'
  <2>1. CASE Locked(t) /\ \E a \in {"failed"} : Leave(t, a)
    <3>1. UNCHANGED <<lock, args>>
      BY <1>14, <2>1 DEF CheapChecks, Locked, Holding, Critical, Outside, Leave,
         Goto, Return, storeVars, callVars
    <3>. QED
      BY <2>1, <3>1, RegisteredLeave DEF Results
  <2>2. CASE ~ (Locked(t) /\ \E a \in {"failed"} : Leave(t, a))
    <3>1. pc' = [pc EXCEPT ![t] = pc'[t]] /\ UNCHANGED <<lock, locks>>
          /\ (pc'[t] \in Critical \union {"recheck", "wait"} => Locked(t))
      BY <1>14, <2>2 DEF CheapChecks, Goto, Return, TypeOK, Locked, Holding,
         Critical, Outside, storeVars, callVars, lockVars, flowVars
    <3>2. \A u \in Calls : Locked(u)' => Locked(u)
      BY <3>1 DEF Locked, Holding, Critical, Outside, TypeOK
    <3>. QED
      BY <3>1, <3>2, RegisteredQuiet
  <2>. QED
    BY <2>1, <2>2
<1>15. ASSUME NEW t \in Calls, LookupChallenge(t)
      PROVE  RegisteredLock'
  <2>1. CASE Locked(t) /\ \E a \in {"failed"} : Leave(t, a)
    <3>1. UNCHANGED <<lock, args>>
      BY <1>15, <2>1 DEF LookupChallenge, Locked, Holding, Critical, Outside, Leave,
         Goto, Return, storeVars, callVars
    <3>. QED
      BY <2>1, <3>1, RegisteredLeave DEF Results
  <2>2. CASE ~ (Locked(t) /\ \E a \in {"failed"} : Leave(t, a))
    <3>1. pc' = [pc EXCEPT ![t] = pc'[t]] /\ UNCHANGED <<lock, locks>>
          /\ (pc'[t] \in Critical \union {"recheck", "wait"} => Locked(t))
      BY <1>15, <2>2 DEF LookupChallenge, Goto, Return, TypeOK, Locked, Holding,
         Critical, Outside, storeVars, callVars, lockVars, flowVars
    <3>2. \A u \in Calls : Locked(u)' => Locked(u)
      BY <3>1 DEF Locked, Holding, Critical, Outside, TypeOK
    <3>. QED
      BY <3>1, <3>2, RegisteredQuiet
  <2>. QED
    BY <2>1, <2>2
<1>16. ASSUME NEW t \in Calls, SolveChallenge(t)
      PROVE  RegisteredLock'
  <2>1. CASE Locked(t) /\ \E a \in {"failed"} : Leave(t, a)
    <3>1. UNCHANGED <<lock, args>>
      BY <1>16, <2>1 DEF SolveChallenge, Locked, Holding, Critical, Outside, Leave,
         Goto, Return, storeVars, callVars
    <3>. QED
      BY <2>1, <3>1, RegisteredLeave DEF Results
  <2>2. CASE ~ (Locked(t) /\ \E a \in {"failed"} : Leave(t, a))
    <3>1. pc' = [pc EXCEPT ![t] = pc'[t]] /\ UNCHANGED <<lock, locks>>
          /\ (pc'[t] \in Critical \union {"recheck", "wait"} => Locked(t))
      BY <1>16, <2>2 DEF SolveChallenge, Goto, Return, TypeOK, Locked, Holding,
         Critical, Outside, storeVars, callVars, lockVars, flowVars
    <3>2. \A u \in Calls : Locked(u)' => Locked(u)
      BY <3>1 DEF Locked, Holding, Critical, Outside, TypeOK
    <3>. QED
      BY <3>1, <3>2, RegisteredQuiet
  <2>. QED
    BY <2>1, <2>2
<1>17. ASSUME NEW t \in Calls, MarkVerified(t)
      PROVE  RegisteredLock'
  <2>1. CASE Locked(t) /\ \E a \in {"error"} : Leave(t, a)
    <3>1. UNCHANGED <<lock, args>>
      BY <1>17, <2>1 DEF MarkVerified, Locked, Holding, Critical, Outside, Leave,
         Goto, Return, storeVars, callVars
    <3>. QED
      BY <2>1, <3>1, RegisteredLeave DEF Results
  <2>2. CASE ~ (Locked(t) /\ \E a \in {"error"} : Leave(t, a))
    <3>1. pc' = [pc EXCEPT ![t] = pc'[t]] /\ UNCHANGED <<lock, locks>>
          /\ (pc'[t] \in Critical \union {"recheck", "wait"} => Locked(t))
      BY <1>17, <2>2 DEF MarkVerified, Goto, Return, TypeOK, Locked, Holding,
         Critical, Outside, storeVars, callVars, lockVars, flowVars
    <3>2. \A u \in Calls : Locked(u)' => Locked(u)
      BY <3>1 DEF Locked, Holding, Critical, Outside, TypeOK
    <3>. QED
      BY <3>1, <3>2, RegisteredQuiet
  <2>. QED
    BY <2>1, <2>2
<1>18. ASSUME NEW t \in Calls, Trust(t)
      PROVE  RegisteredLock'
  <2>1. \A u \in Calls : Locked(u)' => Locked(u)
    BY <1>18 DEF Trust, Goto, Return, TypeOK, Locked, Holding, Critical, Outside,
       storeVars, callVars, lockVars, flowVars
  <2>2. UNCHANGED <<lock, locks>>
    BY <1>18 DEF Trust, Goto, Return, storeVars, callVars, lockVars, flowVars
  <2>. QED
    BY <2>1, <2>2, RegisteredQuiet
<1>19. ASSUME NEW t \in Calls, Publish(t)
      PROVE  RegisteredLock'
  <2>1. CASE Locked(t) /\ \E a \in {"verified"} : Leave(t, a)
    <3>1. UNCHANGED <<lock, args>>
      BY <1>19, <2>1 DEF Publish, Locked, Holding, Critical, Outside, Leave, Goto,
         Return, storeVars, callVars
    <3>. QED
      BY <2>1, <3>1, RegisteredLeave DEF Results
  <2>2. CASE ~ (Locked(t) /\ \E a \in {"verified"} : Leave(t, a))
    <3>1. pc' = [pc EXCEPT ![t] = pc'[t]] /\ UNCHANGED <<lock, locks>>
          /\ (pc'[t] \in Critical \union {"recheck", "wait"} => Locked(t))
      BY <1>19, <2>2 DEF Publish, Goto, Return, TypeOK, Locked, Holding, Critical,
         Outside, storeVars, callVars, lockVars, flowVars
    <3>2. \A u \in Calls : Locked(u)' => Locked(u)
      BY <3>1 DEF Locked, Holding, Critical, Outside, TypeOK
    <3>. QED
      BY <3>1, <3>2, RegisteredQuiet
  <2>. QED
    BY <2>1, <2>2
<1>20. ASSUME NEW t \in Calls, Fault(t)
      PROVE  RegisteredLock'
  <2>1. CASE Locked(t) /\ \E a \in {"error"} : Leave(t, a)
    <3>1. UNCHANGED <<lock, args>>
      BY <1>20, <2>1 DEF Fault, Locked, Holding, Critical, Outside, Leave, Goto,
         Return, storeVars, callVars
    <3>. QED
      BY <2>1, <3>1, RegisteredLeave DEF Results
  <2>2. CASE ~ (Locked(t) /\ \E a \in {"error"} : Leave(t, a))
    <3>1. pc' = [pc EXCEPT ![t] = pc'[t]] /\ UNCHANGED <<lock, locks>>
          /\ (pc'[t] \in Critical \union {"recheck", "wait"} => Locked(t))
      BY <1>20, <2>2 DEF Fault, Goto, Return, TypeOK, Locked, Holding, Critical,
         Outside, storeVars, callVars, lockVars, flowVars
    <3>2. \A u \in Calls : Locked(u)' => Locked(u)
      BY <3>1 DEF Locked, Holding, Critical, Outside, TypeOK
    <3>. QED
      BY <3>1, <3>2, RegisteredQuiet
  <2>. QED
    BY <2>1, <2>2
<1>21. ASSUME NEW r \in Replicas, Crash(r)
      PROVE  RegisteredLock'
  <2> SUFFICES ASSUME NEW u \in Calls, Locked(u)', Steady(u)'
               PROVE  lock'[u] = locks'[Home(u)'][Tok(u)']
    BY DEF RegisteredLock
  <2>1. pc[u] # "idle" /\ Locked(u) /\ Home(u) # r
    BY <1>21 DEF Crash, Locked, Holding, Critical, TypeOK
  <2>2. Tok(u)' = Tok(u) /\ Home(u)' = Home(u) /\ Steady(u)
    BY <2>1, SteadyBack
  <2>3. lock'[u] = lock[u] /\ locks'[Home(u)] = locks[Home(u)]
    BY <1>21, <2>1, ArgsType DEF Crash, TypeOK, callVars
  <2>. QED
    BY <2>1, <2>2, <2>3 DEF RegisteredLock
<1>22. ASSUME PurgeExpired
      PROVE  RegisteredLock'
  <2>1. \A u \in Calls : Locked(u)' => Locked(u)
    BY <1>22 DEF PurgeExpired, Goto, Return, TypeOK, Locked, Holding, Critical,
       Outside, storeVars, callVars, lockVars, flowVars
  <2>2. UNCHANGED <<lock, locks>>
    BY <1>22 DEF PurgeExpired, Goto, Return, storeVars, callVars, lockVars, flowVars
  <2>. QED
    BY <2>1, <2>2, RegisteredQuiet
<1>23. ASSUME Tick
      PROVE  RegisteredLock'
  <2>1. \A u \in Calls : Locked(u)' => Locked(u)
    BY <1>23 DEF Tick, Goto, Return, TypeOK, Locked, Holding, Critical, Outside,
       storeVars, callVars, lockVars, flowVars
  <2>2. UNCHANGED <<lock, locks>>
    BY <1>23 DEF Tick, Goto, Return, storeVars, callVars, lockVars, flowVars
  <2>. QED
    BY <2>1, <2>2, RegisteredQuiet
<1>. QED BY <1>1, <1>2, <1>3, <1>4, <1>5, <1>6, <1>7, <1>8, <1>9, <1>10, <1>11, <1>12,
   <1>13, <1>14, <1>15, <1>16, <1>17, <1>18, <1>19, <1>20, <1>21, <1>22, <1>23 DEF
   Next, Run

\* Of two calls under steady locks of one link, one waits.
LEMMA Exclusive ==
    ASSUME TypeOK, HeldLock, RegisteredLock, NEW t \in Calls, NEW u \in Calls,
           Holding(t), Holding(u), Same(t, u), Steady(t), Steady(u)
    PROVE  t = u
  BY DEF HeldLock, RegisteredLock, Locked, Same

\* Where no call gets past the re-read, the one that did is the same as before.
LEMMA CandidateQuiet ==
    ASSUME TypeOK, Finished, Created, Onward, OneCandidate,
           \A u \in Calls : Candidate(u)' => Candidate(u) /\ pc[u] # "idle"
    PROVE  OneCandidate'
<1> SUFFICES ASSUME NEW t \in Calls, NEW u \in Calls, Candidate(t)', Candidate(u)',
                    Same(t, u)', ~ Upset(t)'
             PROVE  t = u
  BY DEF OneCandidate
<1>1. Candidate(t) /\ Candidate(u) /\ pc[t] # "idle" /\ pc[u] # "idle"
  OBVIOUS
<1>2. Same(t, u) /\ ~ Upset(t)
  BY <1>1, SteadyBack DEF Same
<1>. QED
  BY <1>1, <1>2 DEF OneCandidate

\* Only the holder of the lock gets past the re-read.
LEMMA OneCandidateStep ==
    ASSUME TypeOK, Finished, Created, Onward, Settled, HeldLock, RegisteredLock,
       OneCandidate, Next
    PROVE  OneCandidate'
<1>1. ASSUME NEW k \in Tokens, CreateVerification(k)
      PROVE  OneCandidate'
  <2>1. \A u \in Calls : Candidate(u)' => Candidate(u) /\ pc[u] # "idle"
    BY <1>1, AdaptiveAssumption, ArgsType DEF CreateVerification, TypeOK, Finished,
       Candidate, Visit, VisitType,
       Critical, Outside, storeVars, callVars, lockVars, flowVars
  <2>. QED
    BY <2>1, CandidateQuiet
<1>2. ASSUME NEW t \in Calls, NEW v \in Visits, NEW k \in Tokens, NEW r \in Replicas,
   Arrive(t, v, k, r)
      PROVE  OneCandidate'
  <2>1. \A u \in Calls : Candidate(u)' => Candidate(u) /\ pc[u] # "idle"
    BY <1>2, AdaptiveAssumption, ArgsType DEF Arrive, TypeOK, Finished, Candidate,
       Visit, VisitType,
       Critical, Outside, storeVars, callVars, lockVars, flowVars
  <2>. QED
    BY <2>1, CandidateQuiet
<1>3. ASSUME NEW t \in Calls, Get(t)
      PROVE  OneCandidate'
  <2>1. CASE ~ (pc[t] = "reread" /\ row[Tok(t)] = "open")
    <3>1. \A u \in Calls : Candidate(u)' => Candidate(u) /\ pc[u] # "idle"
      BY <1>3, <2>1 DEF Get, Goto, TypeOK, Finished, Candidate, Visit, lockVars, storeVars
    <3>. QED
      BY <3>1, CandidateQuiet
  <2>2. CASE pc[t] = "reread" /\ row[Tok(t)] = "open"
    <3> SUFFICES ASSUME NEW u \in Calls, NEW w \in Calls, Candidate(u)', Candidate(w)',
                        Same(u, w)', ~ Upset(u)'
                 PROVE  u = w
      BY DEF OneCandidate
    <3>1. \A x \in Calls : Candidate(x)' => (Candidate(x) \/ x = t) /\ pc[x] # "idle"
      BY <1>3, <2>2 DEF Get, Goto, TypeOK, Finished, Candidate, Visit, lockVars, storeVars
    <3>2. Same(u, w) /\ ~ Upset(u) /\ ~ Upset(w)
      BY <3>1, SteadyBack DEF Same, Upset
    <3>3. ASSUME NEW x \in Calls, Candidate(x), Same(x, t), ~ Upset(x)
          PROVE  x = t
      <4>1. Holding(x) /\ Steady(x)
        BY <2>2, <3>3 DEF Candidate, Settled, Same, Holding, Critical, Steady
      <4>2. Holding(t) /\ Steady(t)
        BY <2>2, <3>3 DEF Holding, Critical, Steady, Same, Upset
      <4>. QED
        BY <3>3, <4>1, <4>2, Exclusive
    <3>. QED
      BY <3>1, <3>2, <3>3 DEF OneCandidate, Same
  <2>. QED
    BY <2>1, <2>2
<1>4. ASSUME NEW t \in Calls, EarlyReturn(t)
      PROVE  OneCandidate'
  <2>1. \A u \in Calls : Candidate(u)' => Candidate(u) /\ pc[u] # "idle"
    BY <1>4, AdaptiveAssumption, ArgsType DEF EarlyReturn, Goto, Return, Leave,
       Expired, TypeOK, Finished, Candidate, Visit, VisitType,
       Critical, Outside, storeVars, callVars, lockVars, flowVars
  <2>. QED
    BY <2>1, CandidateQuiet
<1>5. ASSUME NEW t \in Calls, DeleteExpired(t)
      PROVE  OneCandidate'
  <2>1. \A u \in Calls : Candidate(u)' => Candidate(u) /\ pc[u] # "idle"
    BY <1>5, AdaptiveAssumption, ArgsType DEF DeleteExpired, Goto, TypeOK, Finished,
       Candidate, Visit, VisitType,
       Critical, Outside, storeVars, callVars, lockVars, flowVars
  <2>. QED
    BY <2>1, CandidateQuiet
<1>6. ASSUME NEW t \in Calls, ForgetDecision(t)
      PROVE  OneCandidate'
  <2>1. \A u \in Calls : Candidate(u)' => Candidate(u) /\ pc[u] # "idle"
    BY <1>6, AdaptiveAssumption, ArgsType DEF ForgetDecision, Goto, Return, Leave,
       TypeOK, Finished, Candidate, Visit, VisitType,
       Critical, Outside, storeVars, callVars, lockVars, flowVars
  <2>. QED
    BY <2>1, CandidateQuiet
<1>7. ASSUME NEW t \in Calls, SetDefault(t)
      PROVE  OneCandidate'
  <2>1. \A u \in Calls : Candidate(u)' => Candidate(u) /\ pc[u] # "idle"
    BY <1>7, AdaptiveAssumption, ArgsType DEF SetDefault, Expired, TypeOK, Finished,
       Candidate, Visit, VisitType,
       Critical, Outside, storeVars, callVars, lockVars, flowVars
  <2>. QED
    BY <2>1, CandidateQuiet
<1>8. ASSUME NEW t \in Calls, Acquire(t)
      PROVE  OneCandidate'
  <2>1. \A u \in Calls : Candidate(u)' => Candidate(u) /\ pc[u] # "idle"
    BY <1>8, AdaptiveAssumption, ArgsType DEF Acquire, TypeOK, Finished, Candidate,
       Visit, VisitType,
       Critical, Outside, storeVars, callVars, lockVars, flowVars
  <2>. QED
    BY <2>1, CandidateQuiet
<1>9. ASSUME NEW t \in Calls, Recheck(t)
      PROVE  OneCandidate'
  <2>1. \A u \in Calls : Candidate(u)' => Candidate(u) /\ pc[u] # "idle"
    BY <1>9, AdaptiveAssumption, ArgsType DEF Recheck, Goto, Expired, TypeOK,
       Finished, Candidate, Visit, VisitType,
       Critical, Outside, storeVars, callVars, lockVars, flowVars
  <2>. QED
    BY <2>1, CandidateQuiet
<1>10. ASSUME NEW t \in Calls, LoadDecision(t)
      PROVE  OneCandidate'
  <2>1. \A u \in Calls : Candidate(u)' => Candidate(u) /\ pc[u] # "idle"
    BY <1>10, AdaptiveAssumption, ArgsType DEF LoadDecision, Decided, Goto, Leave,
       TypeOK, Finished, Candidate, Visit, VisitType,
       Critical, Outside, storeVars, callVars, lockVars, flowVars
  <2>. QED
    BY <2>1, CandidateQuiet
<1>11. ASSUME NEW t \in Calls, Assess(t)
      PROVE  OneCandidate'
  <2>1. \A u \in Calls : Candidate(u)' => Candidate(u) /\ pc[u] # "idle"
    BY <1>11, AdaptiveAssumption, ArgsType DEF Assess, Goto, TypeOK, Finished,
       Candidate, Visit, VisitType,
       Critical, Outside, storeVars, callVars, lockVars, flowVars
  <2>. QED
    BY <2>1, CandidateQuiet
<1>12. ASSUME NEW t \in Calls, SaveDecision(t)
      PROVE  OneCandidate'
  <2>1. \A u \in Calls : Candidate(u)' => Candidate(u) /\ pc[u] # "idle"
    BY <1>12, AdaptiveAssumption, ArgsType DEF SaveDecision, Goto, TypeOK, Finished,
       Candidate, Visit, VisitType,
       Critical, Outside, storeVars, callVars, lockVars, flowVars
  <2>. QED
    BY <2>1, CandidateQuiet
<1>13. ASSUME NEW t \in Calls, ReloadDecision(t)
      PROVE  OneCandidate'
  <2>1. \A u \in Calls : Candidate(u)' => Candidate(u) /\ pc[u] # "idle"
    BY <1>13, AdaptiveAssumption, ArgsType DEF ReloadDecision, Decided, Goto, Leave,
       TypeOK, Finished, Candidate, Visit, VisitType,
       Critical, Outside, storeVars, callVars, lockVars, flowVars
  <2>. QED
    BY <2>1, CandidateQuiet
<1>14. ASSUME NEW t \in Calls, CheapChecks(t)
      PROVE  OneCandidate'
  <2>1. \A u \in Calls : Candidate(u)' => Candidate(u) /\ pc[u] # "idle"
    BY <1>14, AdaptiveAssumption, ArgsType DEF CheapChecks, Goto, Leave, TypeOK,
       Finished, Candidate, Visit, VisitType,
       Critical, Outside, storeVars, callVars, lockVars, flowVars
  <2>. QED
    BY <2>1, CandidateQuiet
<1>15. ASSUME NEW t \in Calls, LookupChallenge(t)
      PROVE  OneCandidate'
  <2>1. \A u \in Calls : Candidate(u)' => Candidate(u) /\ pc[u] # "idle"
    BY <1>15, AdaptiveAssumption, ArgsType DEF LookupChallenge, Goto, Leave, TypeOK,
       Finished, Candidate, Visit, VisitType,
       Critical, Outside, storeVars, callVars, lockVars, flowVars
  <2>. QED
    BY <2>1, CandidateQuiet
<1>16. ASSUME NEW t \in Calls, SolveChallenge(t)
      PROVE  OneCandidate'
  <2>1. \A u \in Calls : Candidate(u)' => Candidate(u) /\ pc[u] # "idle"
    BY <1>16, AdaptiveAssumption, ArgsType DEF SolveChallenge, Goto, Leave, TypeOK,
       Finished, Candidate, Visit, VisitType,
       Critical, Outside, storeVars, callVars, lockVars, flowVars
  <2>. QED
    BY <2>1, CandidateQuiet
<1>17. ASSUME NEW t \in Calls, MarkVerified(t)
      PROVE  OneCandidate'
  <2>1. \A u \in Calls : Candidate(u)' => Candidate(u) /\ pc[u] # "idle"
    BY <1>17, AdaptiveAssumption, ArgsType DEF MarkVerified, Goto, Leave, TypeOK,
       Finished, Candidate, Visit, VisitType,
       Critical, Outside, storeVars, callVars, lockVars, flowVars
  <2>. QED
    BY <2>1, CandidateQuiet
<1>18. ASSUME NEW t \in Calls, Trust(t)
      PROVE  OneCandidate'
  <2>1. \A u \in Calls : Candidate(u)' => Candidate(u) /\ pc[u] # "idle"
    BY <1>18, AdaptiveAssumption, ArgsType DEF Trust, Goto, TypeOK, Finished,
       Candidate, Visit, VisitType,
       Critical, Outside, storeVars, callVars, lockVars, flowVars
  <2>. QED
    BY <2>1, CandidateQuiet
<1>19. ASSUME NEW t \in Calls, Publish(t)
      PROVE  OneCandidate'
  <2>1. \A u \in Calls : Candidate(u)' => Candidate(u) /\ pc[u] # "idle"
    BY <1>19, AdaptiveAssumption, ArgsType DEF Publish, Leave, TypeOK, Finished,
       Candidate, Visit, VisitType,
       Critical, Outside, storeVars, callVars, lockVars, flowVars
  <2>. QED
    BY <2>1, CandidateQuiet
<1>20. ASSUME NEW t \in Calls, Fault(t)
      PROVE  OneCandidate'
  <2>1. \A u \in Calls : Candidate(u)' => Candidate(u) /\ pc[u] # "idle"
    BY <1>20, AdaptiveAssumption, ArgsType DEF Fault, Return, Leave, TypeOK, Finished,
       Candidate, Visit, VisitType,
       Critical, Outside, storeVars, callVars, lockVars, flowVars
  <2>. QED
    BY <2>1, CandidateQuiet
<1>21. ASSUME NEW r \in Replicas, Crash(r)
      PROVE  OneCandidate'
  <2>1. \A u \in Calls : Candidate(u)' => Candidate(u) /\ pc[u] # "idle"
    BY <1>21, AdaptiveAssumption, ArgsType DEF Crash, TypeOK, Finished, Candidate,
       Visit, VisitType,
       Critical, Outside, storeVars, callVars, lockVars, flowVars
  <2>. QED
    BY <2>1, CandidateQuiet
<1>22. ASSUME PurgeExpired
      PROVE  OneCandidate'
  <2>1. \A u \in Calls : Candidate(u)' => Candidate(u) /\ pc[u] # "idle"
    BY <1>22, AdaptiveAssumption, ArgsType DEF PurgeExpired, TypeOK, Finished,
       Candidate, Visit, VisitType,
       Critical, Outside, storeVars, callVars, lockVars, flowVars
  <2>. QED
    BY <2>1, CandidateQuiet
<1>23. ASSUME Tick
      PROVE  OneCandidate'
  <2>1. \A u \in Calls : Candidate(u)' => Candidate(u) /\ pc[u] # "idle"
    BY <1>23, AdaptiveAssumption, ArgsType DEF Tick, TypeOK, Finished, Candidate,
       Visit, VisitType,
       Critical, Outside, storeVars, callVars, lockVars, flowVars
  <2>. QED
    BY <2>1, CandidateQuiet
<1>. QED BY <1>1, <1>2, <1>3, <1>4, <1>5, <1>6, <1>7, <1>8, <1>9, <1>10, <1>11, <1>12,
   <1>13, <1>14, <1>15, <1>16, <1>17, <1>18, <1>19, <1>20, <1>21, <1>22, <1>23 DEF
   Next, Run

\* Where no call sets out to decide, the one that did is the same as before.
LEMMA IssuerQuiet ==
    ASSUME TypeOK, Finished, Created, Onward, OneIssuer,
           \A u \in Calls : Issuer(u)' => Issuer(u) /\ pc[u] # "idle"
    PROVE  OneIssuer'
<1> SUFFICES ASSUME Durable, NEW t \in Calls, NEW u \in Calls, Issuer(t)', Issuer(u)',
                    Same(t, u)', row'[Tok(t)'] = "open", ~ Broken(t)'
             PROVE  t = u
  BY DEF OneIssuer, Durable
<1>1. Issuer(t) /\ Issuer(u) /\ pc[t] # "idle" /\ pc[u] # "idle"
  OBVIOUS
<1>2. Same(t, u) /\ row[Tok(t)] = "open" /\ ~ Broken(t)
  BY <1>1, SteadyBack DEF Same
<1>. QED
  BY <1>1, <1>2 DEF OneIssuer

\* Only the holder of the lock decides.
LEMMA OneIssuerStep ==
    ASSUME TypeOK, Finished, Created, Onward, Settled, HeldLock, Kept, Issued,
       RegisteredLock, OneIssuer, Next
    PROVE  OneIssuer'
<1>1. ASSUME NEW k \in Tokens, CreateVerification(k)
      PROVE  OneIssuer'
  <2>1. \A u \in Calls : Issuer(u)' => Issuer(u) /\ pc[u] # "idle"
    BY <1>1 DEF CreateVerification, TypeOK, Issued, Finished, Holding, Issuer,
       Critical, Outside, storeVars, callVars, lockVars, flowVars
  <2>. QED
    BY <2>1, IssuerQuiet
<1>2. ASSUME NEW t \in Calls, NEW v \in Visits, NEW k \in Tokens, NEW r \in Replicas,
   Arrive(t, v, k, r)
      PROVE  OneIssuer'
  <2>1. \A u \in Calls : Issuer(u)' => Issuer(u) /\ pc[u] # "idle"
    BY <1>2 DEF Arrive, TypeOK, Issued, Finished, Holding, Issuer,
       Critical, Outside, storeVars, callVars, lockVars, flowVars
  <2>. QED
    BY <2>1, IssuerQuiet
<1>3. ASSUME NEW t \in Calls, Get(t)
      PROVE  OneIssuer'
  <2>1. \A u \in Calls : Issuer(u)' => Issuer(u) /\ pc[u] # "idle"
    BY <1>3 DEF Get, Goto, TypeOK, Issued, Finished, Holding, Issuer,
       Critical, Outside, storeVars, callVars, lockVars, flowVars
  <2>. QED
    BY <2>1, IssuerQuiet
<1>4. ASSUME NEW t \in Calls, EarlyReturn(t)
      PROVE  OneIssuer'
  <2>1. \A u \in Calls : Issuer(u)' => Issuer(u) /\ pc[u] # "idle"
    BY <1>4 DEF EarlyReturn, Goto, Return, Leave, Expired, TypeOK, Issued, Finished,
       Holding, Issuer,
       Critical, Outside, storeVars, callVars, lockVars, flowVars
  <2>. QED
    BY <2>1, IssuerQuiet
<1>5. ASSUME NEW t \in Calls, DeleteExpired(t)
      PROVE  OneIssuer'
  <2>1. \A u \in Calls : Issuer(u)' => Issuer(u) /\ pc[u] # "idle"
    BY <1>5 DEF DeleteExpired, Goto, TypeOK, Issued, Finished, Holding, Issuer,
       Critical, Outside, storeVars, callVars, lockVars, flowVars
  <2>. QED
    BY <2>1, IssuerQuiet
<1>6. ASSUME NEW t \in Calls, ForgetDecision(t)
      PROVE  OneIssuer'
  <2>1. \A u \in Calls : Issuer(u)' => Issuer(u) /\ pc[u] # "idle"
    BY <1>6 DEF ForgetDecision, Goto, Return, Leave, TypeOK, Issued, Finished,
       Holding, Issuer,
       Critical, Outside, storeVars, callVars, lockVars, flowVars
  <2>. QED
    BY <2>1, IssuerQuiet
<1>7. ASSUME NEW t \in Calls, SetDefault(t)
      PROVE  OneIssuer'
  <2>1. \A u \in Calls : Issuer(u)' => Issuer(u) /\ pc[u] # "idle"
    BY <1>7 DEF SetDefault, Expired, TypeOK, Issued, Finished, Holding, Issuer,
       Critical, Outside, storeVars, callVars, lockVars, flowVars
  <2>. QED
    BY <2>1, IssuerQuiet
<1>8. ASSUME NEW t \in Calls, Acquire(t)
      PROVE  OneIssuer'
  <2>1. \A u \in Calls : Issuer(u)' => Issuer(u) /\ pc[u] # "idle"
    BY <1>8 DEF Acquire, TypeOK, Issued, Finished, Holding, Issuer,
       Critical, Outside, storeVars, callVars, lockVars, flowVars
  <2>. QED
    BY <2>1, IssuerQuiet
<1>9. ASSUME NEW t \in Calls, Recheck(t)
      PROVE  OneIssuer'
  <2>1. \A u \in Calls : Issuer(u)' => Issuer(u) /\ pc[u] # "idle"
    BY <1>9 DEF Recheck, Goto, Expired, TypeOK, Issued, Finished, Holding, Issuer,
       Critical, Outside, storeVars, callVars, lockVars, flowVars
  <2>. QED
    BY <2>1, IssuerQuiet
<1>10. ASSUME NEW t \in Calls, LoadDecision(t)
      PROVE  OneIssuer'
  <2>1. CASE decision[Tok(t)] # None
    <3>1. \A u \in Calls : Issuer(u)' => Issuer(u) /\ pc[u] # "idle"
      BY <1>10, <2>1 DEF LoadDecision, Decided, Goto, Leave, TypeOK, Issued,
         Finished, Holding,
         Critical, Issuer
    <3>. QED
      BY <3>1, IssuerQuiet
  <2>2. CASE decision[Tok(t)] = None
    <3> SUFFICES ASSUME Durable, NEW u \in Calls, NEW w \in Calls, Issuer(u)', Issuer(w)',
                        Same(u, w)', row'[Tok(u)'] = "open", ~ Broken(u)'
                 PROVE  u = w
      BY DEF OneIssuer, Durable
    <3>1. \A x \in Calls : Issuer(x)' => (Issuer(x) \/ x = t) /\ pc[x] # "idle"
      BY <1>10, <2>2 DEF LoadDecision, Goto, TypeOK, Issued, Finished, Holding,
         Critical, Issuer
    <3>2. Same(u, w) /\ row[Tok(u)] = "open" /\ ~ Broken(u) /\ ~ Broken(w)
      BY <3>1, SteadyBack DEF Same, Broken
    <3>3. ASSUME NEW x \in Calls, Issuer(x), Same(x, t), ~ Broken(x), row[Tok(x)] = "open"
          PROVE  x = t
      <4>1. Holding(x)
        BY <2>2, <3>3 DEF Issuer, Issued, Same, Broken, Settled, Kept, Chosen,
           Shown, Finished,
           Holding, Critical
      <4>2. Steady(x) /\ Steady(t) /\ Holding(t)
        BY <1>10, <2>2, <3>3 DEF Steady, Same, Broken, LoadDecision, Holding, Critical
      <4>. QED
        BY <3>3, <4>1, <4>2, Exclusive
    <3>. QED
      BY <3>1, <3>2, <3>3 DEF OneIssuer, Same
  <2>. QED
    BY <2>1, <2>2
<1>11. ASSUME NEW t \in Calls, Assess(t)
      PROVE  OneIssuer'
  <2>1. \A u \in Calls : Issuer(u)' => Issuer(u) /\ pc[u] # "idle"
    BY <1>11 DEF Assess, Goto, TypeOK, Issued, Finished, Holding, Issuer,
       Critical, Outside, storeVars, callVars, lockVars, flowVars
  <2>. QED
    BY <2>1, IssuerQuiet
<1>12. ASSUME NEW t \in Calls, SaveDecision(t)
      PROVE  OneIssuer'
  <2>1. \A u \in Calls : Issuer(u)' => Issuer(u) /\ pc[u] # "idle"
    BY <1>12 DEF SaveDecision, Goto, TypeOK, Issued, Finished, Holding, Issuer,
       Critical, Outside, storeVars, callVars, lockVars, flowVars
  <2>. QED
    BY <2>1, IssuerQuiet
<1>13. ASSUME NEW t \in Calls, ReloadDecision(t)
      PROVE  OneIssuer'
  <2>1. \A u \in Calls : Issuer(u)' => Issuer(u) /\ pc[u] # "idle"
    BY <1>13 DEF ReloadDecision, Decided, Goto, Leave, TypeOK, Issued, Finished,
       Holding, Issuer,
       Critical, Outside, storeVars, callVars, lockVars, flowVars
  <2>. QED
    BY <2>1, IssuerQuiet
<1>14. ASSUME NEW t \in Calls, CheapChecks(t)
      PROVE  OneIssuer'
  <2>1. \A u \in Calls : Issuer(u)' => Issuer(u) /\ pc[u] # "idle"
    BY <1>14 DEF CheapChecks, Goto, Leave, TypeOK, Issued, Finished, Holding, Issuer,
       Critical, Outside, storeVars, callVars, lockVars, flowVars
  <2>. QED
    BY <2>1, IssuerQuiet
<1>15. ASSUME NEW t \in Calls, LookupChallenge(t)
      PROVE  OneIssuer'
  <2>1. \A u \in Calls : Issuer(u)' => Issuer(u) /\ pc[u] # "idle"
    BY <1>15 DEF LookupChallenge, Goto, Leave, TypeOK, Issued, Finished, Holding, Issuer,
       Critical, Outside, storeVars, callVars, lockVars, flowVars
  <2>. QED
    BY <2>1, IssuerQuiet
<1>16. ASSUME NEW t \in Calls, SolveChallenge(t)
      PROVE  OneIssuer'
  <2>1. \A u \in Calls : Issuer(u)' => Issuer(u) /\ pc[u] # "idle"
    BY <1>16 DEF SolveChallenge, Goto, Leave, TypeOK, Issued, Finished, Holding, Issuer,
       Critical, Outside, storeVars, callVars, lockVars, flowVars
  <2>. QED
    BY <2>1, IssuerQuiet
<1>17. ASSUME NEW t \in Calls, MarkVerified(t)
      PROVE  OneIssuer'
  <2>1. \A u \in Calls : Issuer(u)' => Issuer(u) /\ pc[u] # "idle"
    BY <1>17 DEF MarkVerified, Goto, Leave, TypeOK, Issued, Finished, Holding, Issuer,
       Critical, Outside, storeVars, callVars, lockVars, flowVars
  <2>. QED
    BY <2>1, IssuerQuiet
<1>18. ASSUME NEW t \in Calls, Trust(t)
      PROVE  OneIssuer'
  <2>1. \A u \in Calls : Issuer(u)' => Issuer(u) /\ pc[u] # "idle"
    BY <1>18 DEF Trust, Goto, TypeOK, Issued, Finished, Holding, Issuer,
       Critical, Outside, storeVars, callVars, lockVars, flowVars
  <2>. QED
    BY <2>1, IssuerQuiet
<1>19. ASSUME NEW t \in Calls, Publish(t)
      PROVE  OneIssuer'
  <2>1. \A u \in Calls : Issuer(u)' => Issuer(u) /\ pc[u] # "idle"
    BY <1>19 DEF Publish, Leave, TypeOK, Issued, Finished, Holding, Issuer,
       Critical, Outside, storeVars, callVars, lockVars, flowVars
  <2>. QED
    BY <2>1, IssuerQuiet
<1>20. ASSUME NEW t \in Calls, Fault(t)
      PROVE  OneIssuer'
  <2>1. \A u \in Calls : Issuer(u)' => Issuer(u) /\ pc[u] # "idle"
    BY <1>20 DEF Fault, Return, Leave, TypeOK, Issued, Finished, Holding, Issuer,
       Critical, Outside, storeVars, callVars, lockVars, flowVars
  <2>. QED
    BY <2>1, IssuerQuiet
<1>21. ASSUME NEW r \in Replicas, Crash(r)
      PROVE  OneIssuer'
  <2>1. \A u \in Calls : Issuer(u)' => Issuer(u) /\ pc[u] # "idle"
    BY <1>21 DEF Crash, TypeOK, Issued, Finished, Holding, Issuer,
       Critical, Outside, storeVars, callVars, lockVars, flowVars
  <2>. QED
    BY <2>1, IssuerQuiet
<1>22. ASSUME PurgeExpired
      PROVE  OneIssuer'
  <2>1. \A u \in Calls : Issuer(u)' => Issuer(u) /\ pc[u] # "idle"
    BY <1>22 DEF PurgeExpired, TypeOK, Issued, Finished, Holding, Issuer,
       Critical, Outside, storeVars, callVars, lockVars, flowVars
  <2>. QED
    BY <2>1, IssuerQuiet
<1>23. ASSUME Tick
      PROVE  OneIssuer'
  <2>1. \A u \in Calls : Issuer(u)' => Issuer(u) /\ pc[u] # "idle"
    BY <1>23 DEF Tick, TypeOK, Issued, Finished, Holding, Issuer,
       Critical, Outside, storeVars, callVars, lockVars, flowVars
  <2>. QED
    BY <2>1, IssuerQuiet
<1>. QED BY <1>1, <1>2, <1>3, <1>4, <1>5, <1>6, <1>7, <1>8, <1>9, <1>10, <1>11, <1>12,
   <1>13, <1>14, <1>15, <1>16, <1>17, <1>18, <1>19, <1>20, <1>21, <1>22, <1>23 DEF
   Next, Run

\* An open link lapses or is verified, and nothing else becomes of it.
LEMMA OpenEnds ==
    ASSUME TypeOK, Lapsed, Next, NEW k \in Tokens, row[k] = "open", row'[k] # "open"
    PROVE  expires[k] <= now \/ \E w \in Calls : pc[w] = "mark" /\ Tok(w) = k
<1>1. CASE row' = row
  BY <1>1
<1>2. ASSUME NEW x \in Tokens, CreateVerification(x)
      PROVE  row'[k] = "open"
  BY <1>2 DEF CreateVerification, TypeOK
<1>3. ASSUME NEW t \in Calls, DeleteExpired(t)
      PROVE  expires[k] <= now
  BY <1>3 DEF DeleteExpired, Lapsed, TypeOK
<1>4. ASSUME NEW t \in Calls, MarkVerified(t)
      PROVE  pc[t] = "mark" /\ Tok(t) = k
  BY <1>4 DEF MarkVerified, TypeOK
<1>5. ASSUME PurgeExpired
      PROVE  expires[k] <= now
  BY <1>5 DEF PurgeExpired
<1>6. \/ row' = row \/ PurgeExpired
      \/ \E x \in Tokens : CreateVerification(x)
      \/ \E t \in Calls : DeleteExpired(t) \/ MarkVerified(t)
  BY DEF Next, Run, Arrive, Get, EarlyReturn, ForgetDecision, SetDefault, Acquire,
     Recheck,
     LoadDecision, Assess, SaveDecision, ReloadDecision, CheapChecks, LookupChallenge,
     SolveChallenge, Trust, Publish, Fault, Crash, Tick, storeVars
<1>. QED
  BY <1>1, <1>2, <1>3, <1>4, <1>5, <1>6

\* A call that found the link no longer open never gets to the lock.
LEMMA StopsEarlyStep ==
    ASSUME TypeOK, Finished, Settled, NEW u \in Calls, pc[u] # "idle", row[Tok(u)]
       # "open", StopsEarly(u), Next
    PROVE  StopsEarly(u)'
<1>1. ASSUME NEW k \in Tokens, CreateVerification(k)
      PROVE  StopsEarly(u)'
  BY <1>1 DEF CreateVerification, TypeOK, StopsEarly, Finished, Settled, Outside,
     callVars, lockVars, flowVars
<1>2. ASSUME NEW t \in Calls, NEW v \in Visits, NEW k \in Tokens, NEW r \in Replicas,
   Arrive(t, v, k, r)
      PROVE  StopsEarly(u)'
  BY <1>2 DEF Arrive, TypeOK, StopsEarly, Finished, Settled, Outside, storeVars,
     lockVars
<1>3. ASSUME NEW t \in Calls, Get(t)
      PROVE  StopsEarly(u)'
  BY <1>3 DEF Get, Goto, TypeOK, StopsEarly, Finished, Settled, Outside, storeVars,
     lockVars
<1>4. ASSUME NEW t \in Calls, EarlyReturn(t)
      PROVE  StopsEarly(u)'
  BY <1>4 DEF EarlyReturn, Goto, Return, Leave, Expired, TypeOK, StopsEarly,
     Finished, Settled, Outside, storeVars, callVars, lockVars
<1>5. ASSUME NEW t \in Calls, DeleteExpired(t)
      PROVE  StopsEarly(u)'
  BY <1>5 DEF DeleteExpired, Goto, TypeOK, StopsEarly, Finished, Settled, Outside,
     callVars, lockVars
<1>6. ASSUME NEW t \in Calls, ForgetDecision(t)
      PROVE  StopsEarly(u)'
  BY <1>6 DEF ForgetDecision, Goto, Return, Leave, TypeOK, StopsEarly, Finished,
     Settled, Outside, callVars, lockVars
<1>7. ASSUME NEW t \in Calls, SetDefault(t)
      PROVE  StopsEarly(u)'
  BY <1>7 DEF SetDefault, Expired, TypeOK, StopsEarly, Finished, Settled, Outside,
     storeVars
<1>8. ASSUME NEW t \in Calls, Acquire(t)
      PROVE  StopsEarly(u)'
  BY <1>8 DEF Acquire, TypeOK, StopsEarly, Finished, Settled, Outside, storeVars,
     callVars
<1>9. ASSUME NEW t \in Calls, Recheck(t)
      PROVE  StopsEarly(u)'
  BY <1>9 DEF Recheck, Goto, Expired, TypeOK, StopsEarly, Finished, Settled,
     Outside, storeVars, callVars, lockVars
<1>10. ASSUME NEW t \in Calls, LoadDecision(t)
      PROVE  StopsEarly(u)'
  BY <1>10 DEF LoadDecision, Decided, Goto, Leave, TypeOK, StopsEarly, Finished,
     Settled, Outside, storeVars, lockVars
<1>11. ASSUME NEW t \in Calls, Assess(t)
      PROVE  StopsEarly(u)'
  BY <1>11 DEF Assess, Goto, TypeOK, StopsEarly, Finished, Settled, Outside,
     storeVars, lockVars
<1>12. ASSUME NEW t \in Calls, SaveDecision(t)
      PROVE  StopsEarly(u)'
  BY <1>12 DEF SaveDecision, Goto, TypeOK, StopsEarly, Finished, Settled, Outside,
     callVars, lockVars
<1>13. ASSUME NEW t \in Calls, ReloadDecision(t)
      PROVE  StopsEarly(u)'
  BY <1>13 DEF ReloadDecision, Decided, Goto, Leave, TypeOK, StopsEarly, Finished,
     Settled, Outside, storeVars, lockVars
<1>14. ASSUME NEW t \in Calls, CheapChecks(t)
      PROVE  StopsEarly(u)'
  BY <1>14 DEF CheapChecks, Goto, Leave, TypeOK, StopsEarly, Finished, Settled,
     Outside, storeVars, callVars, lockVars
<1>15. ASSUME NEW t \in Calls, LookupChallenge(t)
      PROVE  StopsEarly(u)'
  BY <1>15 DEF LookupChallenge, Goto, Leave, TypeOK, StopsEarly, Finished, Settled,
     Outside, storeVars, callVars, lockVars
<1>16. ASSUME NEW t \in Calls, SolveChallenge(t)
      PROVE  StopsEarly(u)'
  BY <1>16 DEF SolveChallenge, Goto, Leave, TypeOK, StopsEarly, Finished, Settled,
     Outside, callVars, lockVars
<1>17. ASSUME NEW t \in Calls, MarkVerified(t)
      PROVE  StopsEarly(u)'
  BY <1>17 DEF MarkVerified, Goto, Leave, TypeOK, StopsEarly, Finished, Settled,
     Outside, callVars, lockVars
<1>18. ASSUME NEW t \in Calls, Trust(t)
      PROVE  StopsEarly(u)'
  BY <1>18 DEF Trust, Goto, TypeOK, StopsEarly, Finished, Settled, Outside,
     callVars, lockVars
<1>19. ASSUME NEW t \in Calls, Publish(t)
      PROVE  StopsEarly(u)'
  BY <1>19 DEF Publish, Leave, TypeOK, StopsEarly, Finished, Settled, Outside,
     storeVars, callVars
<1>20. ASSUME NEW t \in Calls, Fault(t)
      PROVE  StopsEarly(u)'
  BY <1>20 DEF Fault, Return, Leave, TypeOK, StopsEarly, Finished, Settled,
     Critical, Outside, storeVars, callVars, lockVars
<1>21. ASSUME NEW r \in Replicas, Crash(r)
      PROVE  StopsEarly(u)'
  BY <1>21 DEF Crash, TypeOK, StopsEarly, Finished, Settled, Outside, callVars
<1>22. ASSUME PurgeExpired
      PROVE  StopsEarly(u)'
  BY <1>22 DEF PurgeExpired, TypeOK, StopsEarly, Finished, Settled, Outside,
     callVars, lockVars, flowVars
<1>23. ASSUME Tick
      PROVE  StopsEarly(u)'
  BY <1>23 DEF Tick, TypeOK, StopsEarly, Finished, Settled, Outside, storeVars,
     callVars, lockVars, flowVars
<1>. QED BY <1>1, <1>2, <1>3, <1>4, <1>5, <1>6, <1>7, <1>8, <1>9, <1>10, <1>11, <1>12,
   <1>13, <1>14, <1>15, <1>16, <1>17, <1>18, <1>19, <1>20, <1>21, <1>22, <1>23 DEF
   Next, Run

\* What visitors were asked and solved stays so.
LEMMA AskedStays ==
    ASSUME TypeOK, Onward, NEW k
    PROVE  /\ AskedFor(k) => AskedFor(k)'
           /\ SolvedFor(k) => SolvedFor(k)'
<1>1. ASSUME NEW u \in Calls, Shown(u)
      PROVE  Shown(u)' /\ Tok(u)' = Tok(u) /\ mine'[u] = mine[u]
  BY <1>1 DEF Onward, Shown, Tok
<1>. QED
  BY <1>1 DEF Onward, AskedFor, SolvedFor

\* A visitor who was asked for a captcha on an open link has it decided for all.
LEMMA EscalatedStep ==
    ASSUME TypeOK, Finished, Created, Lapsed, Settled, Kept, Earned, Escalated, Onward, Next
    PROVE  Escalated'
<1> SUFFICES ASSUME ~ Overwrites, NEW t \in Calls, args'[t].escalated
             PROVE  \/ (expires[Tok(t)] <= now)'
                    \/ SolvedFor(Tok(t))'
                    \/ (row[Tok(t)] = "open" /\ AskedFor(Tok(t)))'
                    \/ (row[Tok(t)] # "open" /\ StopsEarly(t))'
  BY DEF Escalated
<1>1. CASE pc[t] = "idle"
  <2>1. PICK v \in Visits, k \in Tokens, r \in Replicas : Arrive(t, v, k, r)
    <3>1. args[t] = NoArgs
      BY <1>1 DEF Finished
    <3>2. NoArgs.escalated = FALSE
      BY DEF NoArgs
    <3>3. args' # args
      BY <3>1, <3>2
    <3>4. PICK u \in Calls, v \in Visits, k \in Tokens, r \in Replicas : Arrive(u, v, k, r)
      BY <3>3 DEF Next, Run, CreateVerification, Get, EarlyReturn, DeleteExpired,
         ForgetDecision, SetDefault, Acquire, Recheck, LoadDecision, Assess, SaveDecision,
         ReloadDecision, CheapChecks, LookupChallenge, SolveChallenge, MarkVerified, Trust,
         Publish, Fault, Crash, PurgeExpired, Tick, callVars
    <3>5. u = t
      BY <3>1, <3>2, <3>4 DEF Arrive, TypeOK
    <3>. QED
      BY <3>4, <3>5
  <2>2. Tok(t)' = k /\ pc'[t] = "get" /\ t \notin published'
    BY <1>1, <2>1 DEF Arrive, TypeOK, Tok, Finished
  <2>3. AskedFor(k)
    <3>1. \E u \in Calls : Tok(u) = k /\ result[u] = "pending" /\ mine[u] \in Calls
      BY <2>1 DEF Arrive, TypeOK
    <3>. QED
      BY <3>1 DEF AskedFor, Shown, Finished
  <2>. QED
    BY <2>2, <2>3, AskedStays DEF StopsEarly, Outside
<1>2. CASE pc[t] # "idle"
  <2>0. PICK k \in Tokens : Tok(t) = k
    BY <1>2, ArgsType
  <2>1. args'[t] = args[t] /\ Tok(t)' = k /\ expires[k] # 0
    BY <1>2, <2>0 DEF Onward, Tok, Created
  <2>2. expires'[k] = expires[k] /\ (row'[k] = "open" => row[k] = "open")
    BY <2>1 DEF Onward
  <2>3. CASE expires[k] <= now
    <3>1. now \in Nat /\ now' \in Nat /\ expires[k] \in Nat /\ now <= now'
      BY <2>1, TypeStep, AdaptiveAssumption DEF TypeOK, Onward
    <3>. QED
      BY <2>1, <2>2, <2>3, <3>1
  <2>4. CASE SolvedFor(k)
    BY <2>1, <2>4, AskedStays
  <2>5. CASE row[k] = "open" /\ AskedFor(k) /\ ~ expires[k] <= now
    <3>1. AskedFor(k)'
      BY <2>5, AskedStays
    <3>2. CASE row'[k] = "open"
      BY <2>1, <3>1, <3>2
    <3>3. CASE row'[k] # "open"
      <4>1. PICK w \in Calls : pc[w] = "mark" /\ Tok(w) = k
        BY <2>1, <2>5, <3>3, OpenEnds
      <4>2. PICK u \in Calls : Shown(u) /\ Tok(u) = k /\ mine[u] \in Calls
        BY <2>5 DEF AskedFor
      <4>3. decision[k] = mine[w] /\ decision[k] = mine[u]
        BY <2>5, <4>1, <4>2 DEF Kept, Chosen
      <4>4. mine[u] \in spent
        BY <4>1, <4>2, <4>3 DEF Earned
      <4>. QED
        BY <2>1, <4>2, <4>4, AskedStays DEF SolvedFor
    <3>. QED
      BY <3>2, <3>3
  <2>6. CASE row[k] # "open" /\ StopsEarly(t)
    BY <1>2, <2>0, <2>1, <2>2, <2>6, StopsEarlyStep
  <2>. QED
    BY <2>0, <2>1, <2>3, <2>4, <2>5, <2>6 DEF Escalated
<1>. QED
  BY <1>1, <1>2

LEMMA IInvStep == IInv /\ [Next]_vars => IInv'
<1>1. CASE IInv /\ Next
  <2> USE <1>1 DEF IInv
  <2>1. TypeOK' /\ Finished' /\ Created' /\ Lapsed' /\ Settled' /\ HeldLock'
    BY TypeStep, FinishedStep, CreatedStep, LapsedStep, SettledStep, HeldStep
  <2>2. Kept' /\ Issued' /\ Earned' /\ Onward
    BY KeptStep, IssuedStep, EarnedStep, OnwardStep
  <2>3. RegisteredLock'
    BY <2>1, <2>2, RegisteredStep
  <2>4. OneCandidate' /\ OneIssuer' /\ Escalated'
    BY <2>2, OneCandidateStep, OneIssuerStep, EscalatedStep
  <2>. QED
    BY <2>1, <2>2, <2>3, <2>4
<1>2. CASE IInv /\ UNCHANGED vars
  <2> USE <1>2 DEF IInv, vars, storeVars, callVars, flowVars, lockVars
  <2>1. TypeOK'
    BY DEF TypeOK
  <2>2. Finished'
    BY DEF Finished
  <2>3. Created'
    BY DEF Created, Tok
  <2>4. Lapsed'
    BY DEF Lapsed, Tok
  <2>5. Settled'
    BY DEF Settled, Tok
  <2>6. HeldLock'
    BY DEF HeldLock, Holding, Locked
  <2>7. Kept'
    BY DEF Kept, Chosen, Shown, Tok
  <2>8. Issued'
    BY DEF Issued, Holding
  <2>9. Earned'
    BY DEF Earned
  <2>10. RegisteredLock'
    BY DEF RegisteredLock, Broken, Holding, Home, Locked, Same, Steady, Tok, Upset
  <2>11. OneCandidate'
    BY DEF OneCandidate, Candidate, Home, Same, Tok, Upset, Visit
  <2>12. OneIssuer'
    BY DEF OneIssuer, Broken, Home, Issuer, Same, Tok
  <2>13. Escalated'
    BY DEF Escalated, AskedFor, Shown, SolvedFor, StopsEarly, Tok
  <2>. QED
    BY <2>1, <2>2, <2>3, <2>4, <2>5, <2>6, <2>7, <2>8, <2>9, <2>10, <2>11, <2>12, <2>13
<1>. QED
  BY <1>1, <1>2

-----------------------------------------------------------------------------
LEMMA Invariance == Spec => []IInv
  BY InitInv, IInvStep, PTL DEF Spec

\* Every variable keeps its type: no call is ever in a step the code does not have,
\* no lock is registered or held that nobody created.
THEOREM TypeCorrect == Spec => []TypeOK
<1>1. IInv => TypeOK
  BY DEF IInv
<1>. QED
  BY <1>1, Invariance, PTL

\* With a decision store that keeps what is there, a visitor's screen and the
\* verification go by the same decision for as long as the link is open, whatever
\* the replicas, the faults and the crashes.
THEOREM ShowsWhatCounts ==
    ASSUME ~ Overwrites
    PROVE  Spec => []ShownIsCurrent
<1>1. IInv => ShownIsCurrent
  BY DEF IInv, Kept, Chosen, ShownIsCurrent
<1>. QED
  BY <1>1, Invariance, PTL

\* The lock's part: unless one of them was broken off, the calls of a replica issue
\* one challenge for an open link, also with a store that overwrites, as long as no
\* crash takes the store's content with it.
THEOREM IssuesOnce ==
    ASSUME Overwrites => ~ Crashes
    PROVE  Spec => []IssuedOncePerReplica
<1>1. IInv => IssuedOncePerReplica
  BY DEF IInv, OneIssuer, Durable, Issuer, Broken, IssuedOncePerReplica, TypeOK
<1>. QED
  BY <1>1, Invariance, PTL

\* Two calls of one replica publish for a link only with the help of a third that
\* popped their lock.
THEOREM PublishesTwiceOnlyWithHelp == Spec => []TwoCallsPublishOnce
<1>1. IInv => TwoCallsPublishOnce
  <2> SUFFICES ASSUME IInv, NEW t \in published, NEW u \in published, Same(t, u), t # u
               PROVE  \E w \in Calls \ {t, u} :
                          Same(w, t) /\ result[w] \in {"pending", "failed", "error"}
    BY DEF TwoCallsPublishOnce
  <2>1. t \in Calls /\ u \in Calls
    BY DEF IInv, TypeOK
  <2>2. Upset(t)
    BY <2>1 DEF IInv, OneCandidate, Candidate
  <2>3. result[t] = "verified" /\ result[u] = "verified"
    BY <2>1 DEF IInv, Finished
  <2>. QED
    BY <2>2, <2>3 DEF Upset
<1>. QED
  BY <1>1, Invariance, PTL

\* Once a visitor was asked for a captcha, a call that comes later verifies the link
\* only after somebody solved one, until the link lapses.
THEOREM EscalationHolds ==
    ASSUME ~ Overwrites
    PROVE  Spec => []EscalationIsFinal
<1>1. IInv => EscalationIsFinal
  BY DEF IInv, TypeOK, Escalated, SolvedFor, StopsEarly, Settled, EscalationIsFinal
<1>. QED
  BY <1>1, Invariance, PTL
-----------------------------------------------------------------------------
(* AdaptiveCaptchaGate implements VerificationLink. *)

LEMMA SameLink ==
    ASSUME row' = row, expires' = expires
    PROVE  LinkState' = LinkState
  BY DEF LinkState

LEMMA SameAsked ==
    ASSUME args' = args
    PROVE  [t \in Calls |-> Tok(t)]' = [t \in Calls |-> Tok(t)]
  BY DEF Tok

\* What a call returns is the abstract answer to a call still unanswered.
LEMMA TellStep ==
    ASSUME TypeOK, Finished, NEW t \in Calls, pc[t] \notin {"idle", "done"},
           NEW a, result' = [result EXCEPT ![t] = a]
    PROVE  Link!Tell(t, a)
<1>1. Tok(t) \in Tokens /\ Tok(t) # None
  BY ArgsType, AdaptiveAssumption
<1>2. result[t] = "none"
  BY DEF Finished
<1>. QED
  BY <1>1, <1>2 DEF Link!Tell

\* An answer that leaves the store alone and says nothing the link denies.
LEMMA AnswerStep ==
    ASSUME TypeOK, Finished, Created, NEW t \in Calls, pc[t] \notin {"idle", "done"},
           NEW a \in {"verified", "unknown", "pending", "failed", "error"},
           result' = [result EXCEPT ![t] = a],
           a = "verified" => row[Tok(t)] # "open",
           a = "unknown" => row[Tok(t)] = "absent",
           row' = row, expires' = expires, args' = args, published' = published
    PROVE  Link!Next
<1>1. Link!Tell(t, a)
  BY TellStep
<1>2. UNCHANGED <<LinkState, [u \in Calls |-> Tok(u)], published>>
  BY SameLink, SameAsked
<1>3. Tok(t) \in Tokens /\ expires[Tok(t)] # 0
  BY ArgsType DEF Created
<1>4. LinkState[Tok(t)] = IF row[Tok(t)] # "absent" THEN row[Tok(t)] ELSE "gone"
  BY <1>3 DEF LinkState
<1>5. a = "verified" => LinkState[Tok(t)] \in {"verified", "gone"}
  BY <1>3, <1>4 DEF TypeOK, RowStates
<1>6. a = "unknown" => LinkState[Tok(t)] = "gone"
  BY <1>4
<1>7. Link!Answer(t)
  BY <1>1, <1>2, <1>5, <1>6 DEF Link!Answer, Link!Settled
<1>. QED
  BY <1>7 DEF Link!Next

\* A step that answers nobody, asks nothing and leaves the store alone.
LEMMA SilentStep ==
    ASSUME row' = row, expires' = expires, args' = args, result' = result,
           published' = published
    PROVE  UNCHANGED Link!vars
  BY SameLink, SameAsked DEF Link!vars

\* Rows that go, or that were gone, and nobody is answered.
LEMMA LapseStep ==
    ASSUME TypeOK, Created, NEW lapsed \in SUBSET Tokens,
           row' = [k \in Tokens |-> IF k \in lapsed THEN "absent" ELSE row[k]],
           expires' = expires, args' = args, result' = result, published' = published
    PROVE  Link!Next
<1> DEFINE gone == {k \in lapsed : row[k] # "absent"}
<1>1. \A k \in gone : LinkState[k] \in {"open", "verified"}
  BY DEF LinkState, TypeOK, RowStates
<1>2. \A k \in Tokens : row[k] # "absent" => expires[k] # 0
  BY DEF Created
<1>3. LinkState' = [k \in Tokens |-> IF k \in gone THEN "gone" ELSE LinkState[k]]
  BY <1>2 DEF LinkState
<1>4. Link!Lapse(gone) /\ result' = result
  BY <1>1, <1>3, SameAsked DEF Link!Lapse
<1>5. gone \in SUBSET Tokens
  OBVIOUS
<1>. QED
  BY <1>4, <1>5 DEF Link!Next

\* Every step of the gate is a step of VerificationLink or leaves it unchanged.
LEMMA LinkStep ==
    ASSUME IInv, Next
    PROVE  [Link!Next]_(Link!vars)
<1> USE DEF IInv
<1>1. ASSUME NEW k \in Tokens, CreateVerification(k)
      PROVE  Link!Open(k)
  <2>1. row[k] = "absent" /\ now \in Nat
    BY <1>1, AdaptiveAssumption DEF CreateVerification, Created, TypeOK
  <2>2. expires' = [expires EXCEPT ![k] = now + Ttl] /\ now + Ttl # 0
    BY <1>1, <2>1, AdaptiveAssumption DEF CreateVerification
  <2>3. row' = [row EXCEPT ![k] = "open"]
    BY <1>1 DEF CreateVerification
  <2>4. LinkState[k] = "none"
    BY <1>1, <2>1 DEF CreateVerification, LinkState
  <2>5. LinkState' = [LinkState EXCEPT ![k] = "open"]
    BY <2>1, <2>2, <2>3 DEF LinkState, TypeOK
  <2>6. UNCHANGED <<[t \in Calls |-> Tok(t)], result, published>>
    BY <1>1, SameAsked DEF CreateVerification, callVars, flowVars
  <2>. QED
    BY <2>4, <2>5, <2>6 DEF Link!Open
<1>2. ASSUME NEW t \in Calls, NEW v \in Visits, NEW k \in Tokens, NEW r \in Replicas,
             Arrive(t, v, k, r)
      PROVE  Link!Ask(t, k)
  <2>1. Tok(t) = None /\ Tok(t)' = k
    BY <1>2 DEF Arrive, Finished, NoArgs, Tok, TypeOK
  <2>2. [u \in Calls |-> Tok(u)]' = [[u \in Calls |-> Tok(u)] EXCEPT ![t] = k]
    BY <1>2, <2>1 DEF Arrive, Tok, TypeOK
  <2>3. LinkState[k] # "none"
    BY <1>2 DEF Arrive, LinkState, TypeOK, RowStates
  <2>4. UNCHANGED <<LinkState, result, published>>
    BY <1>2, SameLink DEF Arrive, storeVars
  <2>. QED
    BY <2>1, <2>2, <2>3, <2>4 DEF Link!Ask
<1>3. ASSUME NEW t \in Calls,
             \/ Get(t) \/ SetDefault(t) \/ Acquire(t) \/ Recheck(t)
             \/ Assess(t) \/ SaveDecision(t) \/ Trust(t)
      PROVE  UNCHANGED Link!vars
  BY <1>3, SilentStep DEF Get, SetDefault, Acquire, Recheck, Assess, SaveDecision, Trust,
     Goto, storeVars, callVars
<1>4. ASSUME NEW t \in Calls, EarlyReturn(t)
      PROVE  [Link!Next]_(Link!vars)
  <2>1. /\ row' = row /\ expires' = expires /\ args' = args /\ published' = published
        /\ pc[t] \in {"got", "recheck"}
    BY <1>4 DEF EarlyReturn, storeVars, callVars
  <2>2. CASE result' = result
    BY <2>1, <2>2, SilentStep
  <2>3. CASE result' = [result EXCEPT ![t] = "unknown"] /\ snap[t] = "absent"
    BY <2>1, <2>3, AnswerStep DEF Settled
  <2>4. CASE result' = [result EXCEPT ![t] = "verified"] /\ snap[t] = "verified"
    BY <2>1, <2>4, AnswerStep DEF Settled
  <2>. QED
    BY <1>4, <2>2, <2>3, <2>4 DEF EarlyReturn, Return, Leave, Goto
<1>5. ASSUME NEW t \in Calls, DeleteExpired(t)
      PROVE  Link!Next
  <2>1. /\ expires' = expires /\ args' = args /\ published' = published
        /\ result' = result /\ row' = [row EXCEPT ![Tok(t)] = "absent"]
    BY <1>5 DEF DeleteExpired, Goto, callVars
  <2>2. row' = [k \in Tokens |-> IF k \in {Tok(t)} THEN "absent" ELSE row[k]]
    BY <2>1 DEF TypeOK
  <2>3. {Tok(t)} \in SUBSET Tokens
    BY <1>5, ArgsType DEF DeleteExpired
  <2>. QED
    BY <2>1, <2>2, <2>3, LapseStep
<1>6. ASSUME NEW t \in Calls, ForgetDecision(t)
      PROVE  [Link!Next]_(Link!vars)
  <2>1. /\ row' = row /\ expires' = expires /\ args' = args /\ published' = published
        /\ pc[t] \in {"forgetgone", "reforget", "forget"}
    BY <1>6 DEF ForgetDecision, callVars
  <2>2. CASE result' = result
    BY <2>1, <2>2, SilentStep
  <2>3. CASE pc[t] # "forget" /\ result' = [result EXCEPT ![t] = "unknown"]
    BY <2>1, <2>3, AnswerStep DEF Settled
  <2>. QED
    BY <1>6, <2>2, <2>3 DEF ForgetDecision, Goto, Return, Leave
<1>7. ASSUME NEW t \in Calls, LoadDecision(t) \/ ReloadDecision(t)
      PROVE  [Link!Next]_(Link!vars)
  <2>1. /\ row' = row /\ expires' = expires /\ args' = args /\ published' = published
        /\ pc[t] \in {"load", "reload"}
    BY <1>7 DEF LoadDecision, ReloadDecision, storeVars
  <2>2. result' = [result EXCEPT ![t] = "pending"] \/ result' = result
    BY <1>7 DEF LoadDecision, ReloadDecision, Decided, Leave, Goto
  <2>. QED
    BY <2>1, <2>2, AnswerStep, SilentStep
<1>8. ASSUME NEW t \in Calls, CheapChecks(t) \/ LookupChallenge(t) \/ SolveChallenge(t)
      PROVE  [Link!Next]_(Link!vars)
  <2>1. /\ row' = row /\ expires' = expires /\ args' = args /\ published' = published
        /\ pc[t] \in {"checks", "lookup", "solve"}
    BY <1>8 DEF CheapChecks, LookupChallenge, SolveChallenge, storeVars, callVars
  <2>2. result' = [result EXCEPT ![t] = "failed"] \/ result' = result
    BY <1>8 DEF CheapChecks, LookupChallenge, SolveChallenge, Leave, Goto
  <2>. QED
    BY <2>1, <2>2, AnswerStep, SilentStep
<1>9. ASSUME NEW t \in Calls, MarkVerified(t)
      PROVE  [Link!Next]_(Link!vars)
  <2>1. /\ expires' = expires /\ args' = args /\ published' = published
        /\ pc[t] = "mark" /\ Tok(t) \in Tokens
    BY <1>9, ArgsType DEF MarkVerified, callVars
  <2>2. CASE result' = [result EXCEPT ![t] = "error"] /\ row' = row
    BY <2>1, <2>2, AnswerStep
  <2>3. CASE /\ result' = result
             /\ row' = [row EXCEPT ![Tok(t)] = IF @ = "absent" THEN @ ELSE "verified"]
    <3>1. CASE row[Tok(t)] # "open"
      <4>1. row' = row
        BY <2>1, <2>3, <3>1 DEF TypeOK, RowStates
      <4>. QED
        BY <2>1, <2>3, <4>1, SilentStep
    <3>2. CASE row[Tok(t)] = "open"
      <4>1. LinkState[Tok(t)] = "open"
        BY <2>1, <3>2 DEF LinkState
      <4>2. LinkState' = [LinkState EXCEPT ![Tok(t)] = "verified"]
        BY <2>1, <2>3, <3>2 DEF LinkState, TypeOK
      <4>3. Link!Verify(Tok(t))
        BY <2>1, <2>3, <4>1, <4>2, SameAsked DEF Link!Verify
      <4>. QED
        BY <2>1, <4>3 DEF Link!Next
    <3>. QED
      BY <3>1, <3>2
  <2>. QED
    BY <1>9, <2>2, <2>3 DEF MarkVerified, Goto, Leave
<1>10. ASSUME NEW t \in Calls, Publish(t)
       PROVE  Link!Next
  <2>1. /\ row' = row /\ expires' = expires /\ args' = args
        /\ published' = published \union {t} /\ pc[t] = "publish"
        /\ result' = [result EXCEPT ![t] = "verified"]
    BY <1>10 DEF Publish, Leave, storeVars, callVars
  <2>2. Tok(t) \in Tokens /\ expires[Tok(t)] # 0 /\ row[Tok(t)] # "open"
    BY <2>1, ArgsType DEF Created, Settled
  <2>3. LinkState[Tok(t)] \in {"verified", "gone"}
    BY <2>2 DEF LinkState, TypeOK, RowStates
  <2>4. Link!Announce(t)
    BY <2>1, <2>3, TellStep, SameLink, SameAsked DEF Link!Announce, Link!Settled
  <2>. QED
    BY <2>4 DEF Link!Next
<1>11. ASSUME NEW t \in Calls, Fault(t)
       PROVE  Link!Next
  <2>1. /\ row' = row /\ expires' = expires /\ args' = args /\ published' = published
        /\ pc[t] \notin {"idle", "done"} /\ result' = [result EXCEPT ![t] = "error"]
    BY <1>11 DEF Fault, Return, Leave, Critical, Outside, storeVars, callVars
  <2>. QED
    BY <2>1, AnswerStep
<1>12. ASSUME NEW r \in Replicas, Crash(r)
       PROVE  UNCHANGED Link!vars
  BY <1>12, SilentStep DEF Crash, callVars
<1>13. ASSUME PurgeExpired
       PROVE  Link!Next
  <2> DEFINE lapsed == {k \in Tokens : expires[k] <= now}
  <2>1. /\ expires' = expires /\ args' = args /\ published' = published
        /\ result' = result
        /\ row' = [k \in Tokens |-> IF k \in lapsed THEN "absent" ELSE row[k]]
    BY <1>13 DEF PurgeExpired, callVars, flowVars
  <2>2. lapsed \in SUBSET Tokens
    OBVIOUS
  <2>. QED
    BY <2>1, <2>2, LapseStep
<1>14. ASSUME Tick
       PROVE  UNCHANGED Link!vars
  BY <1>14, SilentStep DEF Tick, storeVars, callVars, flowVars
<1>. QED
  BY <1>1, <1>2, <1>3, <1>4, <1>5, <1>6, <1>7, <1>8, <1>9, <1>10, <1>11, <1>12, <1>13,
     <1>14 DEF Next, Run, Link!Next

\* The adaptive gate keeps the promise of VerificationLink too, with either decision
\* store: what it decides about captchas never touches the life of a link.
THEOREM ImplementsLink == Spec => KeepsLinkPromise
<1>1. Init => Link!Init
  BY DEF Init, Link!Init, LinkState, Tok, NoArgs
<1>2. IInv /\ [Next]_vars => [Link!Next]_(Link!vars)
  <2>1. CASE IInv /\ Next
    BY <2>1, LinkStep
  <2>2. CASE UNCHANGED vars
    BY <2>2, SilentStep DEF vars, storeVars, callVars, flowVars
  <2>. QED
    BY <2>1, <2>2
<1>. QED
  BY <1>1, <1>2, Invariance, PTL DEF Spec, KeepsLinkPromise, Link!Spec

-----------------------------------------------------------------------------
(* Nobody waits for a lock that is never released *)

Early(t) == pc[t] \in {"idle", "get", "got", "delete", "forgetgone"}
Dead(t)  == pc[t] = "dead"

\* A lock object has the link and the replica of the call that created it.
Origins ==
    /\ \A t \in Calls : Early(t) => lock[t] = None
    /\ \A t \in Calls : lock[t] # None => lock[lock[t]] = lock[t] /\ Same(lock[t], t)
    /\ \A r \in Replicas, k \in Tokens : locks[r][k] # None =>
         LET l == locks[r][k] IN lock[l] = l /\ Home(l) = r /\ Tok(l) = k

\* Only a call under a lock holds it, or one that died there; and nobody alive, or yet to
\* arrive, gets a lock that a dead call had.
LeftBehind ==
    /\ \A l \in Calls : holder[l] # None =>
         lock[holder[l]] = l /\ (Holding(holder[l]) \/ Dead(holder[l]))
    /\ \A t, u \in Calls : Dead(u) /\ lock[u] # None /\ Locked(t) => lock[u] # lock[t]
    /\ \A u \in Calls, r \in Replicas, k \in Tokens :
         Dead(u) /\ lock[u] # None => lock[u] # locks[r][k]

\* Whoever waits for a lock that is held waits for a call of the same link and replica
\* that is under the lock, alive, and waits for no lock itself.
WaitsForAWorker ==
    \A t \in Calls : pc[t] = "wait" =>
        LET u == holder[lock[t]] IN u # None => Holding(u) /\ Same(u, t)

WaitInv == IInv /\ Origins /\ LeftBehind

\* A step that touches no lock.
Quiet ==
    /\ UNCHANGED <<lock, locks, holder>>
    /\ \A t \in Calls :
        /\ args'[t] = args[t] \/ pc[t] = "idle"
        /\ Early(t)' => Early(t)
        /\ Locked(t)' => Locked(t)
        /\ Holding(t) => Holding(t)'
        /\ Dead(t)' <=> Dead(t)

LEMMA LockSteps ==
    ASSUME TypeOK, Next
    PROVE  \/ Quiet
           \/ \E t \in Calls, a \in Results :
                Leave(t, a) /\ Locked(t) /\ UNCHANGED <<args, lock>>
           \/ \E t \in Calls : SetDefault(t) \/ Acquire(t)
           \/ \E r \in Replicas : Crash(r)
<1>. DEFINE Left == \E t \in Calls, a \in Results :
                      Leave(t, a) /\ Locked(t) /\ UNCHANGED <<args, lock>>
<1>. USE DEF Locked, Holding, Early, Dead, Critical, callVars, flowVars, storeVars, lockVars
<1>a. {"unknown", "verified", "pending", "failed", "error"} \subseteq Results
  BY DEF Results
\* A step that stays under the lock, or never got there.
<1>b. ASSUME NEW t \in Calls, NEW next, Goto(t, next), UNCHANGED <<args, lock>>,
             \/ Holding(t) /\ next \in Critical \union {"recheck"}
             \/ Early(t) /\ pc[t] # "idle" /\ next \in {"got", "delete", "forgetgone"}
      PROVE  Quiet
  BY <1>b DEF Quiet, Goto, TypeOK
<1>c. ASSUME NEW t \in Calls, NEW a, Return(t, a), Early(t), UNCHANGED <<args, lock>>
      PROVE  Quiet
  BY <1>c DEF Quiet, Return, TypeOK
<1>d. ASSUME NEW t \in Calls, Decided(t), Holding(t), UNCHANGED <<args, lock>>
      PROVE  Quiet \/ Left
  BY <1>a, <1>b, <1>d DEF Decided
<1>1. ASSUME NEW k \in Tokens, CreateVerification(k) PROVE Quiet
  BY <1>1 DEF Quiet, CreateVerification
<1>2. ASSUME NEW t \in Calls, NEW v \in Visits, NEW k \in Tokens, NEW r \in Replicas,
             Arrive(t, v, k, r)
      PROVE  Quiet
  BY <1>2 DEF Quiet, Arrive, TypeOK
<1>3. ASSUME NEW t \in Calls, Get(t) PROVE Quiet
  BY <1>b, <1>3 DEF Get
<1>4. ASSUME NEW t \in Calls, EarlyReturn(t) PROVE Quiet \/ Left
  <2>1. CASE pc[t] = "got"
    BY <1>b, <1>c, <1>4, <2>1 DEF EarlyReturn
  <2>2. CASE pc[t] = "recheck"
    BY <1>a, <1>b, <1>4, <2>2 DEF EarlyReturn
  <2>. QED BY <1>4, <2>1, <2>2 DEF EarlyReturn
<1>5. ASSUME NEW t \in Calls, DeleteExpired(t) PROVE Quiet
  BY <1>b, <1>5 DEF DeleteExpired
<1>6. ASSUME NEW t \in Calls, ForgetDecision(t) PROVE Quiet \/ Left
  BY <1>a, <1>b, <1>c, <1>6 DEF ForgetDecision
<1>7. ASSUME NEW t \in Calls, Recheck(t) \/ Assess(t) \/ SaveDecision(t) \/ Trust(t) PROVE Quiet
  BY <1>b, <1>7 DEF Recheck, Assess, SaveDecision, Trust
<1>8. ASSUME NEW t \in Calls, LoadDecision(t) \/ ReloadDecision(t) PROVE Quiet \/ Left
  BY <1>b, <1>d, <1>8 DEF LoadDecision, ReloadDecision
<1>9. ASSUME NEW t \in Calls, CheapChecks(t) PROVE Quiet \/ Left
  BY <1>a, <1>b, <1>9 DEF CheapChecks
<1>10. ASSUME NEW t \in Calls, LookupChallenge(t) \/ SolveChallenge(t) PROVE Quiet \/ Left
  BY <1>a, <1>b, <1>10 DEF LookupChallenge, SolveChallenge
<1>11. ASSUME NEW t \in Calls, MarkVerified(t) PROVE Quiet \/ Left
  BY <1>a, <1>b, <1>11 DEF MarkVerified
<1>12. ASSUME NEW t \in Calls, Publish(t) PROVE Left
  BY <1>a, <1>12 DEF Publish
<1>13. ASSUME NEW t \in Calls, Fault(t) PROVE Quiet \/ Left
  BY <1>a, <1>c, <1>13 DEF Fault, Outside
<1>14. CASE PurgeExpired \/ Tick
  BY <1>14 DEF Quiet, PurgeExpired, Tick
<1>. QED
  BY <1>1, <1>2, <1>3, <1>4, <1>5, <1>6, <1>7, <1>8, <1>9, <1>10, <1>11, <1>12, <1>13, <1>14
  DEF Next, Run

LEMMA WaitInit == Init => WaitInv
  BY InitInv, AdaptiveAssumption DEF Init, WaitInv, Origins, LeftBehind, Early, Dead

\* A call that has or had a lock, or created one, has arrived, and so have those that wait
\* for it: what they were made with stays.
LEMMA LockArgs ==
    ASSUME WaitInv, NEW t \in Calls, lock[t] # None
    PROVE  pc[t] # "idle" /\ lock[t] \in Calls /\ pc[lock[t]] # "idle"
<1>1. lock[t] \in Calls
  BY DEF WaitInv, IInv, TypeOK
<1>. QED BY <1>1 DEF WaitInv, Origins, Early

LEMMA QuietKeeps == ASSUME WaitInv, Quiet PROVE Origins' /\ LeftBehind'
<1>1. Origins /\ LeftBehind /\ TypeOK
  BY DEF WaitInv, IInv
<1>2. \A t \in Calls : pc[t] # "idle" => args'[t] = args[t]
  BY DEF Quiet
<1>3. UNCHANGED <<lock, locks, holder>>
  BY DEF Quiet
<1>4. \A t \in Calls : Early(t)' => lock'[t] = None
  BY <1>1, <1>3 DEF Quiet, Origins
<1>5. ASSUME NEW t \in Calls, lock'[t] # None
      PROVE  (lock[lock[t]] = lock[t] /\ Same(lock[t], t))'
  BY <1>1, <1>2, <1>3, <1>5, LockArgs DEF Origins, Same, Tok, Home
<1>6. ASSUME NEW r \in Replicas, NEW k \in Tokens, locks'[r][k] # None
      PROVE  (LET l == locks[r][k] IN lock[l] = l /\ Home(l) = r /\ Tok(l) = k)'
  <2>. DEFINE l == locks[r][k]
  <2>1. l # None /\ l \in Calls /\ lock[l] = l /\ Home(l) = r /\ Tok(l) = k
    BY <1>1, <1>3, <1>6 DEF Origins, TypeOK
  <2>2. args'[l] = args[l]
    BY <1>2, <2>1, LockArgs
  <2>. HIDE DEF l
  <2>3. lock'[l] = l /\ args'[l].home = r /\ args'[l].token = k
    BY <1>3, <2>1, <2>2 DEF Home, Tok
  <2>4. locks'[r][k] = l
    BY <1>3 DEF l
  <2>. QED BY <2>3, <2>4 DEF Home, Tok
<1>7. \A l \in Calls : holder[l] # None => holder[l] \in Calls
  BY <1>1 DEF TypeOK
<1>8. LeftBehind'
  BY <1>1, <1>3, <1>7 DEF Quiet, LeftBehind
<1>. QED BY <1>4, <1>5, <1>6, <1>8 DEF Origins

LEMMA LeaveKeeps ==
    ASSUME WaitInv, NEW t \in Calls, NEW a \in Results, Leave(t, a), Locked(t),
           UNCHANGED <<args, lock>>
    PROVE  Origins' /\ LeftBehind'
<1>1. Origins /\ LeftBehind /\ TypeOK /\ Tok(t) \in Tokens /\ Home(t) \in Replicas
  BY ArgsType DEF WaitInv, IInv, Locked, Holding, Critical
<1>2. /\ \A u \in Calls : u # t => pc'[u] = pc[u]
      /\ pc'[t] = "done"
  BY <1>1 DEF Leave, Return, TypeOK
<1>3. /\ \A l \in Calls : holder'[l] = IF holder[l] = t THEN None ELSE holder[l]
      /\ \A r \in Replicas, k \in Tokens : locks'[r][k] \in {locks[r][k], None}
  BY <1>1 DEF Leave, TypeOK
<1>4. Origins'
  BY <1>1, <1>2, <1>3 DEF Origins, Early, Same, Tok, Home
<1>5. \A l \in Calls : holder[l] # None => holder[l] \in Calls
  BY <1>1 DEF TypeOK
<1>6. ~ Dead(t)' /\ ~ Locked(t)'
  BY <1>2 DEF Dead, Locked, Holding, Critical
<1>7. LeftBehind'
  BY <1>1, <1>2, <1>3, <1>5, <1>6 DEF LeftBehind, Holding, Dead, Locked
<1>. QED BY <1>4, <1>7

LEMMA SetDefaultKeeps ==
    ASSUME WaitInv, NEW t \in Calls, SetDefault(t)
    PROVE  Origins' /\ LeftBehind'
<1>. DEFINE r == Home(t)
            k == Tok(t)
            l == IF locks[r][k] = None THEN t ELSE locks[r][k]
<1>1. Origins /\ LeftBehind /\ TypeOK /\ k \in Tokens /\ r \in Replicas
  BY ArgsType DEF WaitInv, IInv, SetDefault
<1>2. /\ pc[t] = "got"
      /\ lock' = [lock EXCEPT ![t] = l]
      /\ locks' = [locks EXCEPT ![r][k] = l]
      /\ pc' = [pc EXCEPT ![t] = "wait"]
      /\ UNCHANGED <<args, holder>>
  BY DEF SetDefault, Goto
<1>3. lock[t] = None
  BY <1>1, <1>2 DEF Origins, Early
<1>4. l \in Calls /\ l # None /\ Home(l) = r /\ Tok(l) = k /\ (l = t \/ lock[l] = l)
  BY <1>1, AdaptiveAssumption DEF Origins, TypeOK
<1>5. \A u \in Calls : lock[u] # t
  BY <1>1, <1>3, AdaptiveAssumption DEF Origins
<1>6. \A u \in Calls : Dead(u) => lock[u] # l
  <2>1. CASE l = t
    BY <1>5, <2>1
  <2>2. CASE l = locks[r][k]
    BY <1>1, <1>4, <2>2 DEF LeftBehind
  <2>. QED BY <2>1, <2>2
<1>. HIDE DEF l, r, k
<1>7. /\ lock'[t] = l
      /\ \A u \in Calls : u # t => lock'[u] = lock[u] /\ pc'[u] = pc[u]
      /\ pc'[t] = "wait"
      /\ \A q \in Replicas, j \in Tokens : locks'[q][j] = IF q = r /\ j = k THEN l ELSE locks[q][j]
  BY <1>1, <1>2 DEF TypeOK
<1>8. lock'[l] = l
  BY <1>4, <1>7
<1>9. ASSUME NEW u \in Calls, lock'[u] # None
      PROVE  (lock[lock[u]] = lock[u] /\ Same(lock[u], u))'
  <2>1. CASE u = t
    BY <1>2, <1>4, <1>7, <1>8, <2>1 DEF Same, Tok, Home, r, k
  <2>2. CASE u # t
    <3>1. /\ lock'[u] = lock[u] /\ lock[lock[u]] = lock[u] /\ Same(lock[u], u)
          /\ lock[u] # t /\ lock[u] \in Calls
      BY <1>1, <1>5, <1>7, <1>9, <2>2 DEF Origins, TypeOK
    <3>. QED BY <1>2, <1>7, <2>2, <3>1 DEF Same, Tok, Home
  <2>. QED BY <2>1, <2>2
<1>10. ASSUME NEW q \in Replicas, NEW j \in Tokens, locks'[q][j] # None
       PROVE  (LET m == locks[q][j] IN lock[m] = m /\ Home(m) = q /\ Tok(m) = j)'
  <2>1. CASE q = r /\ j = k
    BY <1>2, <1>4, <1>7, <1>8, <2>1 DEF Tok, Home
  <2>2. CASE ~ (q = r /\ j = k)
    <3>. DEFINE m == locks[q][j]
    <3>1. locks'[q][j] = m /\ m \in Calls /\ lock[m] = m /\ Home(m) = q /\ Tok(m) = j
      BY <1>1, <1>7, <1>10, <2>2 DEF Origins, TypeOK
    <3>2. m # t
      BY <1>5, <3>1
    <3>. HIDE DEF m
    <3>3. lock'[m] = m /\ args'[m].home = q /\ args'[m].token = j
      BY <1>2, <1>7, <3>1, <3>2 DEF Tok, Home
    <3>. QED BY <3>1, <3>3 DEF Tok, Home
  <2>. QED BY <2>1, <2>2
<1>11. \A u \in Calls : Early(u)' => lock'[u] = None
  BY <1>1, <1>7 DEF Origins, Early
<1>12. Origins'
  BY <1>9, <1>10, <1>11 DEF Origins
<1>13. \A m \in Calls : holder[m] # None => holder[m] \in Calls /\ holder[m] # t
  BY <1>1, <1>2 DEF TypeOK, LeftBehind, Holding, Dead, Critical
<1>14. /\ ~ Dead(t)'
       /\ \A u \in Calls : u # t =>
            (Dead(u)' <=> Dead(u)) /\ (Locked(u)' <=> Locked(u)) /\ (Holding(u)' <=> Holding(u))
  BY <1>7 DEF Dead, Locked, Holding
<1>15. LeftBehind'
  <2>1. \A m \in Calls : holder'[m] # None =>
          lock'[holder'[m]] = m /\ (Holding(holder[m]) \/ Dead(holder[m]))'
    BY <1>1, <1>2, <1>7, <1>13, <1>14 DEF LeftBehind, Holding, Dead
  <2>2. \A v, u \in Calls : Dead(u)' /\ lock'[u] # None /\ Locked(v)' => lock'[u] # lock'[v]
    BY <1>1, <1>6, <1>7, <1>14 DEF LeftBehind
  <2>3. \A u \in Calls, q \in Replicas, j \in Tokens :
          Dead(u)' /\ lock'[u] # None => lock'[u] # locks'[q][j]
    BY <1>1, <1>6, <1>7, <1>14 DEF LeftBehind
  <2>. QED BY <2>1, <2>2, <2>3 DEF LeftBehind
<1>. QED BY <1>12, <1>15

LEMMA AcquireKeeps ==
    ASSUME WaitInv, NEW t \in Calls, Acquire(t)
    PROVE  Origins' /\ LeftBehind'
<1>1. Origins /\ LeftBehind /\ TypeOK /\ pc[t] = "wait" /\ lock[t] \in Calls
  BY DEF WaitInv, IInv, HeldLock, Locked, Acquire
<1>2. /\ holder[lock[t]] = None
      /\ holder' = [holder EXCEPT ![lock[t]] = t]
      /\ pc' = [pc EXCEPT ![t] = IF Visit(t).op = "verify" THEN "reread" ELSE "load"]
      /\ UNCHANGED <<args, lock, locks>>
  BY DEF Acquire, callVars
<1>3. \A u \in Calls :
        /\ Early(u)' => Early(u)
        /\ Locked(u)' => Locked(u)
        /\ Holding(u) => Holding(u)'
        /\ Dead(u)' <=> Dead(u)
  BY <1>1, <1>2 DEF Early, Locked, Holding, Dead, Critical, TypeOK
<1>4. Origins'
  BY <1>1, <1>2, <1>3 DEF Origins, Same, Tok, Home
<1>5. Holding(t)' /\ \A l \in Calls : holder[l] # None => holder[l] \in Calls
  BY <1>1, <1>2 DEF Holding, Critical, TypeOK
<1>6. \A l \in Calls : holder'[l] = IF l = lock[t] THEN t ELSE holder[l]
  BY <1>1, <1>2 DEF TypeOK
<1>7. LeftBehind'
  BY <1>1, <1>2, <1>3, <1>5, <1>6 DEF LeftBehind
<1>. QED BY <1>4, <1>7

\* The calls of a replica die together, and the locks they had were that replica's.
LEMMA CrashKeeps ==
    ASSUME WaitInv, NEW r \in Replicas, Crash(r)
    PROVE  Origins' /\ LeftBehind'
<1>1. Origins /\ LeftBehind /\ TypeOK
  BY DEF WaitInv, IInv
<1>2. /\ \A t \in Calls : pc'[t] = IF Home(t) = r /\ pc[t] \notin {"idle", "done"}
                                    THEN "dead" ELSE pc[t]
      /\ \A q \in Replicas, k \in Tokens :
           locks'[q][k] = IF q = r THEN None ELSE locks[q][k]
      /\ UNCHANGED <<args, lock, holder>>
  BY <1>1 DEF Crash, TypeOK, callVars
<1>3. \A t \in Calls :
        /\ Early(t)' => Early(t)
        /\ Locked(t)' => Locked(t) /\ Home(t) # r
        /\ Holding(t) => Holding(t)' \/ Dead(t)'
        /\ Dead(t) => Dead(t)'
        /\ Dead(t)' => Dead(t) \/ Home(t) = r
  BY <1>2 DEF Early, Locked, Holding, Dead, Critical
<1>4. Origins'
  BY <1>1, <1>2, <1>3 DEF Origins, Same, Tok, Home
<1>5. \A l \in Calls : holder[l] # None => holder[l] \in Calls
  BY <1>1 DEF TypeOK
<1>6. \A u \in Calls : lock[u] # None => Home(lock[u]) = Home(u)
  BY <1>1 DEF Origins, Same
<1>7. ASSUME NEW u \in Calls, Dead(u)', lock[u] # None
      PROVE  /\ \A t \in Calls : Locked(t)' => lock[u] # lock[t]
             /\ \A q \in Replicas, k \in Tokens : lock[u] # locks'[q][k]
  <2>1. CASE Dead(u)
    BY <1>1, <1>2, <1>3, <1>7, <2>1 DEF LeftBehind
  <2>2. CASE Home(u) = r
    <3>1. Home(lock[u]) = r
      BY <1>6, <1>7, <2>2
    <3>2. \A t \in Calls : Locked(t)' => lock[u] # lock[t]
      BY <1>3, <1>6, <1>7, <3>1
    <3>3. \A q \in Replicas, k \in Tokens : q # r /\ locks[q][k] # None => Home(locks[q][k]) # r
      BY <1>1 DEF Origins
    <3>. QED BY <1>2, <1>7, <3>1, <3>2, <3>3
  <2>. QED BY <1>3, <1>7, <2>1, <2>2
<1>8. LeftBehind'
  BY <1>1, <1>2, <1>3, <1>5, <1>7 DEF LeftBehind
<1>. QED BY <1>4, <1>8

LEMMA WaitNext == WaitInv /\ [Next]_vars => WaitInv'
<1>. SUFFICES ASSUME WaitInv, [Next]_vars PROVE WaitInv'
  OBVIOUS
<1>1. IInv' /\ TypeOK
  BY IInvStep DEF WaitInv, IInv
<1>2. CASE Next
  BY <1>1, <1>2, LockSteps, QuietKeeps, LeaveKeeps, SetDefaultKeeps, AcquireKeeps, CrashKeeps
  DEF WaitInv
<1>3. CASE UNCHANGED vars
  <2>1. Quiet
    BY <1>3 DEF vars, callVars, flowVars, lockVars, Quiet, Early, Locked, Holding, Dead
  <2>. QED BY <1>1, <2>1, QuietKeeps DEF WaitInv
<1>. QED BY <1>2, <1>3

\* adaptive.py says of popping the lock that whoever waits "already holds its own reference
\* to that exact Lock object", and so is woken: whatever fails, is cancelled or dies, a call
\* that waits does so for a lock that is free, or is held by a call of its replica that is
\* alive and at work on the same link.
THEOREM NobodyWaitsForTheGone == Spec => []WaitsForAWorker
<1>1. WaitInv => WaitsForAWorker
  <2>. SUFFICES ASSUME WaitInv, NEW t \in Calls, pc[t] = "wait", holder[lock[t]] # None
                PROVE  Holding(holder[lock[t]]) /\ Same(holder[lock[t]], t)
    BY DEF WaitsForAWorker
  <2>. DEFINE u == holder[lock[t]]
  <2>1. lock[t] \in Calls /\ lock[t] # None /\ Locked(t)
    BY AdaptiveAssumption DEF WaitInv, IInv, HeldLock, Locked
  <2>2. u \in Calls /\ lock[u] = lock[t] /\ (Holding(u) \/ Dead(u))
    BY <2>1 DEF WaitInv, IInv, TypeOK, LeftBehind
  <2>3. Holding(u)
    BY <2>1, <2>2 DEF WaitInv, LeftBehind
  <2>4. Same(lock[t], t) /\ Same(lock[u], u)
    BY <2>1, <2>2 DEF WaitInv, Origins
  <2>. QED BY <2>2, <2>3, <2>4 DEF Same
<1>. QED BY <1>1, WaitInit, WaitNext, PTL DEF Spec
=============================================================================
