---------------------------- MODULE AdaptiveGate ----------------------------
(***************************************************************************)
(* AdaptiveCaptchaGate (adaptive.py): whether a link needs a captcha is    *)
(* decided when it is first opened, and the decision, with the challenge   *)
(* it may carry, is kept in a decision store of its own so that every page *)
(* load and the verification agree on it.  get_info and verify both take   *)
(* the token's lock, in one or several web processes ("replicas").         *)
(*                                                                         *)
(* Calls, locks and steps are as in CaptchaGate.  A challenge is named     *)
(* after the call that issued it: a call issues at most one.               *)
(***************************************************************************)
EXTENDS Naturals

CONSTANTS
    Tokens,         \* tokens of VerificationRequests, all of one account
    Calls,          \* HTTP calls of get_info() and verify()
    Visits,         \* what a call can be: see VisitType
    Replicas,       \* web processes, each with its own _token_locks
    None,           \* no lock, no holder, no decision
    NoChallenge,    \* the decision that no captcha is required
    Ttl,            \* AdaptiveCaptchaGate.ttl, in clock ticks
    Overwrites,     \* MemoryAdaptiveDecisionStore.set overwrites, SQL's does not
    MaxTime,        \* bound on the clock
    Crashes,        \* whether replicas may crash
    MaxFaults       \* bound on exceptions, cancellations and crashes

\* A call and what it brings: `risky`, no trust receipt with it is honoured, and
\* assess_risk puts its address and signals at min_level_for_challenge or above;
\* `passes`, the account check and the extra checks accept it; `solves`, its response
\* is right for the link's challenge.
VisitType == [op: {"verify", "info"}, risky: BOOLEAN, passes: BOOLEAN, solves: BOOLEAN]

ASSUME AdaptiveAssumption ==
    /\ Visits \subseteq VisitType
    /\ None \notin Calls \union Tokens
    /\ NoChallenge \notin Calls \union {None}
    /\ Ttl \in Nat \ {0}
    /\ MaxTime \in Nat
    /\ MaxFaults \in Nat
    /\ Overwrites \in BOOLEAN
    /\ Crashes \in BOOLEAN

VARIABLES
    now,        \* datetime.now(UTC)
    row,        \* the verification store: the state of the row of each token
    expires,    \* expires_at of each token, 0 until it is created
    decision,   \* the decision store: NoChallenge, a challenge, or None
    spent,      \* the challenges somebody solved
    trusted,    \* the trust store has an entry for the account
    args,       \* what each call was made with, and when
    pc,         \* where each call is
    snap,       \* the row a call read last
    mine,       \* the decision a call has in hand
    issued,     \* the calls that issued a challenge
    lock,       \* the lock object a call got from setdefault
    result,     \* what a finished call answered
    locks,      \* _token_locks of each replica
    holder,     \* which call holds each lock object
    published,  \* the calls that published captcha_verified
    faults

storeVars == <<row, expires, decision, spent, trusted>>
callVars  == <<args, snap, mine, issued, lock>>
lockVars  == <<locks, holder>>
flowVars  == <<pc, result, lockVars>>
vars == <<now, storeVars, callVars, flowVars, published, faults>>

RowStates == {"absent", "open", "verified"}
Results   == {"none", "unknown", "verified", "pending", "failed", "error"}
Decisions == Calls \union {None, NoChallenge}

\* The awaited operations of a call that is under the lock, and of one that is not.
Critical == {"reread", "redelete", "reforget", "load", "assess", "save", "reload",
             "checks", "lookup", "solve", "mark", "forget", "trust", "publish"}
Outside == {"get", "delete", "forgetgone"}
PCs == Critical \union Outside \union {"idle", "got", "wait", "recheck", "done", "dead"}

NoVisit == [op |-> "info", risky |-> FALSE, passes |-> FALSE, solves |-> FALSE]
NoArgs == [visit |-> NoVisit, token |-> None, home |-> None, escalated |-> FALSE]
Args == [visit: Visits, token: Tokens, home: Replicas, escalated: BOOLEAN]

Visit(t) == args[t].visit
Tok(t)   == args[t].token
Home(t)  == args[t].home
Same(t, u) == Tok(t) = Tok(u) /\ Home(t) = Home(u)

Init ==
    /\ now = 0
    /\ row = [k \in Tokens |-> "absent"]
    /\ expires = [k \in Tokens |-> 0]
    /\ decision = [k \in Tokens |-> None]
    /\ spent = {}
    /\ trusted = FALSE
    /\ args = [t \in Calls |-> NoArgs]
    /\ pc = [t \in Calls |-> "idle"]
    /\ snap = [t \in Calls |-> "absent"]
    /\ mine = [t \in Calls |-> None]
    /\ issued = {}
    /\ lock = [t \in Calls |-> None]
    /\ result = [t \in Calls |-> "none"]
    /\ locks = [r \in Replicas |-> [k \in Tokens |-> None]]
    /\ holder = [l \in Calls |-> None]
    /\ published = {}
    /\ faults = 0

-----------------------------------------------------------------------------
\* The definitions named ..._Mut are broken variants of the definition that follows
\* them, each a slip somebody could make in that code; the properties below are
\* checked to catch them.

\* create_verification: no challenge yet.
CreateVerification(k) ==
    /\ expires[k] = 0
    /\ row' = [row EXCEPT ![k] = "open"]
    /\ expires' = [expires EXCEPT ![k] = now + Ttl]
    /\ UNCHANGED <<now, decision, spent, trusted, callVars, flowVars, published, faults>>

\* A request reaches a replica, possibly after some visitor was shown a captcha
\* for the token (`escalated`).
Arrive(t, visit, k, r) ==
    /\ pc[t] = "idle"
    /\ expires[k] # 0
    /\ pc' = [pc EXCEPT ![t] = "get"]
    /\ args' = [args EXCEPT ![t] =
         [visit |-> visit, token |-> k, home |-> r,
          escalated |-> \E u \in Calls :
              Tok(u) = k /\ result[u] = "pending" /\ mine[u] \in Calls]]
    /\ UNCHANGED <<now, storeVars, snap, mine, issued, lock, result, lockVars, published,
                   faults>>

-----------------------------------------------------------------------------
\* A call goes on to its next operation, returns before it took the lock, or
\* leaves the try: `async with` releases the lock if this call holds it, and
\* `finally` pops whatever lock is registered.
Goto(t, next) ==
    /\ pc' = [pc EXCEPT ![t] = next]
    /\ UNCHANGED <<result, lockVars>>

Return(t, answered) ==
    /\ pc' = [pc EXCEPT ![t] = "done"]
    /\ result' = [result EXCEPT ![t] = answered]
    /\ UNCHANGED lockVars

Leave_MutKeepsLock(t, answered) == Return(t, answered)

Leave(t, answered) ==
    /\ pc' = [pc EXCEPT ![t] = "done"]
    /\ result' = [result EXCEPT ![t] = answered]
    /\ locks' = [locks EXCEPT ![Home(t)][Tok(t)] = None]
    /\ holder' = [l \in Calls |-> IF holder[l] = t THEN None ELSE holder[l]]

Expired(k) == now > expires[k]

\* _get_live, the read: store.get(token).
Get(t) ==
    /\ \/ pc[t] = "get"    /\ Goto(t, "got")
       \/ pc[t] = "reread" /\ Goto(t, "recheck")
    /\ snap' = [snap EXCEPT ![t] = row[Tok(t)]]
    /\ UNCHANGED <<now, storeVars, args, mine, issued, lock, published, faults>>

\* _get_live's early returns: the row is gone, lapsed or verified.
EarlyReturn(t) ==
    /\ \/ /\ pc[t] = "got"
          /\ \/ snap[t] = "absent" /\ Return(t, "unknown")
             \/ snap[t] # "absent" /\ Expired(Tok(t)) /\ Goto(t, "delete")
             \/ snap[t] = "verified" /\ ~ Expired(Tok(t)) /\ Return(t, "verified")
       \/ /\ pc[t] = "recheck"
          /\ \/ snap[t] = "absent" /\ Leave(t, "unknown")
             \/ snap[t] # "absent" /\ Expired(Tok(t)) /\ Goto(t, "redelete")
             \/ snap[t] = "verified" /\ ~ Expired(Tok(t)) /\ Leave(t, "verified")
    /\ UNCHANGED <<now, storeVars, callVars, published, faults>>

\* _get_live, the lazy expiry: store.delete(token), then the decision.
DeleteExpired(t) ==
    /\ \/ pc[t] = "delete"   /\ Goto(t, "forgetgone")
       \/ pc[t] = "redelete" /\ Goto(t, "reforget")
    /\ row' = [row EXCEPT ![Tok(t)] = "absent"]
    /\ UNCHANGED <<now, expires, decision, spent, trusted, callVars, published, faults>>

\* decision_store.delete(token): for a lapsed link, or a verified one.
ForgetDecision(t) ==
    /\ \/ pc[t] = "forgetgone" /\ Return(t, "unknown")
       \/ pc[t] = "reforget" /\ Leave(t, "unknown")
       \/ pc[t] = "forget" /\ Goto(t, "trust")
    /\ decision' = [decision EXCEPT ![Tok(t)] = None]
    /\ UNCHANGED <<now, row, expires, spent, trusted, callVars, published, faults>>

-----------------------------------------------------------------------------
SetDefault_MutInfoUnlocked(t) ==
    LET r == Home(t)
        k == Tok(t)
        l == IF locks[r][k] = None THEN t ELSE locks[r][k]
    IN  /\ pc[t] = "got"
        /\ snap[t] = "open"
        /\ ~ Expired(k)
        /\ IF Visit(t).op = "info"
           THEN Goto(t, "load") /\ UNCHANGED lock
           ELSE /\ lock' = [lock EXCEPT ![t] = l]
                /\ locks' = [locks EXCEPT ![r][k] = l]
                /\ pc' = [pc EXCEPT ![t] = "wait"]
                /\ UNCHANGED <<result, holder>>
        /\ UNCHANGED <<now, storeVars, args, snap, mine, issued, published, faults>>

\* self._token_locks.setdefault(token, asyncio.Lock()), then `async with`: in
\* verify, and for get_info in _resolve_decision.
SetDefault(t) ==
    LET r == Home(t)
        k == Tok(t)
        l == IF locks[r][k] = None THEN t ELSE locks[r][k]
    IN  /\ pc[t] = "got"
        /\ snap[t] = "open"
        /\ ~ Expired(k)
        /\ lock' = [lock EXCEPT ![t] = l]
        /\ locks' = [locks EXCEPT ![r][k] = l]
        /\ pc' = [pc EXCEPT ![t] = "wait"]
        /\ UNCHANGED <<now, storeVars, args, snap, mine, issued, result, holder, published,
                       faults>>

Acquire_MutNoReread(t) ==
    /\ pc[t] = "wait"
    /\ holder[lock[t]] = None
    /\ holder' = [holder EXCEPT ![lock[t]] = t]
    /\ pc' = [pc EXCEPT ![t] = "load"]
    /\ UNCHANGED <<now, storeVars, callVars, result, locks, published, faults>>

\* Only verify reads the row again under the lock; get_info goes on with the one
\* it read before.
Acquire(t) ==
    /\ pc[t] = "wait"
    /\ holder[lock[t]] = None
    /\ holder' = [holder EXCEPT ![lock[t]] = t]
    /\ pc' = [pc EXCEPT ![t] = IF Visit(t).op = "verify" THEN "reread" ELSE "load"]
    /\ UNCHANGED <<now, storeVars, callVars, result, locks, published, faults>>

Recheck(t) ==
    /\ pc[t] = "recheck"
    /\ snap[t] = "open"
    /\ ~ Expired(Tok(t))
    /\ Goto(t, "load")
    /\ UNCHANGED <<now, storeVars, callVars, published, faults>>

-----------------------------------------------------------------------------
\* What a call does with its decision: get_info answers, verify runs the checks.
Decided(t) == IF Visit(t).op = "info" THEN Leave(t, "pending") ELSE Goto(t, "checks")

\* _resolve_decision_locked: the stored decision if there is one ...
LoadDecision(t) ==
    /\ pc[t] = "load"
    /\ mine' = [mine EXCEPT ![t] = decision[Tok(t)]]
    /\ IF decision[Tok(t)] = None THEN Goto(t, "assess") ELSE Decided(t)
    /\ UNCHANGED <<now, storeVars, args, snap, issued, lock, published, faults>>

\* ... else a new one from is_currently_trusted and assess_risk, with a challenge
\* issued if need be.  A trust entry may not count any more: it can lapse, be
\* bound to another address, or fail revalidation.
Assess(t) ==
    /\ pc[t] = "assess"
    /\ \E trust \in BOOLEAN :
        LET needed == ~ trust /\ Visit(t).risky
        IN  /\ trust => trusted
            /\ mine' = [mine EXCEPT ![t] = IF needed THEN t ELSE NoChallenge]
            /\ issued' = IF needed THEN issued \union {t} ELSE issued
    /\ Goto(t, "save")
    /\ UNCHANGED <<now, storeVars, args, snap, lock, published, faults>>

SaveDecision_MutLastWins(t) ==
    /\ pc[t] = "save"
    /\ decision' = [decision EXCEPT ![Tok(t)] = mine[t]]
    /\ Goto(t, "reload")
    /\ UNCHANGED <<now, row, expires, spent, trusted, callVars, published, faults>>

SaveDecision(t) ==
    LET k == Tok(t)
    IN  /\ pc[t] = "save"
        /\ decision' = [decision EXCEPT ![k] = IF @ = None \/ Overwrites THEN mine[t] ELSE @]
        /\ Goto(t, "reload")
        /\ UNCHANGED <<now, row, expires, spent, trusted, callVars, published, faults>>

ReloadDecision_MutTrustsOwn(t) ==
    /\ pc[t] = "reload"
    /\ Decided(t)
    /\ UNCHANGED <<now, storeVars, callVars, published, faults>>

\* The re-read: `await get(token) or decision`.
ReloadDecision(t) ==
    /\ pc[t] = "reload"
    /\ mine' = [mine EXCEPT ![t] = IF decision[Tok(t)] = None THEN @ ELSE decision[Tok(t)]]
    /\ Decided(t)
    /\ UNCHANGED <<now, storeVars, args, snap, issued, lock, published, faults>>

-----------------------------------------------------------------------------
\* verify's checks up to the captcha, which runs if the decision asks for it.
CheapChecks(t) ==
    /\ pc[t] = "checks"
    /\ \/ ~ Visit(t).passes /\ Leave(t, "failed")
       \/ Visit(t).passes /\ Goto(t, IF mine[t] \in Calls THEN "lookup" ELSE "mark")
    /\ UNCHANGED <<now, storeVars, callVars, published, faults>>

\* CaptchaCheck looks its challenge up, which may have lapsed ...
LookupChallenge(t) ==
    /\ pc[t] = "lookup"
    /\ \/ Leave(t, "failed")
       \/ mine[t] \notin spent /\ Goto(t, "solve")
    /\ UNCHANGED <<now, storeVars, callVars, published, faults>>

\* ... and judges the response; it may be one attempt too many.
SolveChallenge(t) ==
    /\ pc[t] = "solve"
    /\ \/ /\ Visit(t).solves
          /\ spent' = spent \union {mine[t]}
          /\ Goto(t, "mark")
       \/ Leave(t, "failed") /\ UNCHANGED spent
    /\ UNCHANGED <<now, row, expires, decision, trusted, callVars, published, faults>>

MarkVerified_MutUpserts(t) ==
    /\ pc[t] = "mark"
    /\ row' = [row EXCEPT ![Tok(t)] = "verified"]
    /\ Goto(t, "forget")
    /\ UNCHANGED <<now, expires, decision, spent, trusted, callVars, published, faults>>

MarkVerified_MutAfterForget(t) ==
    /\ pc[t] = "mark"
    /\ decision' = [decision EXCEPT ![Tok(t)] = None]
    /\ Goto(t, "trust")
    /\ UNCHANGED <<now, row, expires, spent, trusted, callVars, published, faults>>

\* store.mark_verified: see CaptchaGate.
MarkVerified(t) ==
    LET k == Tok(t)
    IN  /\ pc[t] = "mark"
        /\ \/ /\ row' = [row EXCEPT ![k] = IF @ = "absent" THEN @ ELSE "verified"]
              /\ Goto(t, "forget")
           \/ row[k] = "absent" /\ Leave(t, "error") /\ UNCHANGED row
        /\ UNCHANGED <<now, expires, decision, spent, trusted, callVars, published, faults>>

\* trust_store.trust.
Trust(t) ==
    /\ pc[t] = "trust"
    /\ trusted' = TRUE
    /\ Goto(t, "publish")
    /\ UNCHANGED <<now, row, expires, decision, spent, callVars, published, faults>>

Publish(t) ==
    /\ pc[t] = "publish"
    /\ published' = published \union {t}
    /\ Leave(t, "verified")
    /\ UNCHANGED <<now, storeVars, callVars, faults>>

-----------------------------------------------------------------------------
\* An awaited operation raises or the task is cancelled.
Fault(t) ==
    /\ faults < MaxFaults
    /\ faults' = faults + 1
    /\ \/ pc[t] \in Outside /\ Return(t, "error")
       \/ pc[t] \in Critical \union {"wait"} /\ Leave(t, "error")
    /\ UNCHANGED <<now, storeVars, callVars, published>>

\* A replica dies with its calls, its locks and an in-memory decision store; the
\* SQL stores survive.
Crash(r) ==
    /\ Crashes
    /\ faults < MaxFaults
    /\ faults' = faults + 1
    /\ pc' = [t \in Calls |->
                IF Home(t) = r /\ pc[t] \notin {"idle", "done"} THEN "dead" ELSE pc[t]]
    /\ locks' = [locks EXCEPT ![r] = [k \in Tokens |-> None]]
    /\ decision' = IF Overwrites THEN [k \in Tokens |-> None] ELSE decision
    /\ UNCHANGED <<now, row, expires, spent, trusted, callVars, result, holder, published>>

\* SQLVerificationStore.purge_expired; nothing purges the decision store.
PurgeExpired ==
    /\ \E k \in Tokens : row[k] # "absent" /\ expires[k] <= now
    /\ row' = [k \in Tokens |-> IF expires[k] <= now THEN "absent" ELSE row[k]]
    /\ UNCHANGED <<now, expires, decision, spent, trusted, callVars, flowVars, published,
                   faults>>

Tick ==
    /\ now < MaxTime
    /\ now' = now + 1
    /\ UNCHANGED <<storeVars, callVars, flowVars, published, faults>>

Run(t) ==
    \/ Get(t) \/ EarlyReturn(t) \/ DeleteExpired(t) \/ ForgetDecision(t)
    \/ SetDefault(t) \/ Acquire(t) \/ Recheck(t)
    \/ LoadDecision(t) \/ Assess(t) \/ SaveDecision(t) \/ ReloadDecision(t)
    \/ CheapChecks(t) \/ LookupChallenge(t) \/ SolveChallenge(t)
    \/ MarkVerified(t) \/ Trust(t) \/ Publish(t)

Next ==
    \/ \E k \in Tokens : CreateVerification(k)
    \/ \E t \in Calls, v \in Visits, k \in Tokens, r \in Replicas : Arrive(t, v, k, r)
    \/ \E t \in Calls : Run(t)
    \/ \E t \in Calls : Fault(t)
    \/ \E r \in Replicas : Crash(r)
    \/ PurgeExpired
    \/ Tick

Spec == Init /\ [][Next]_vars

\* As in CaptchaGate: the event loop runs every task that can run.
FairSpec == Spec /\ \A t \in Calls : WF_vars(Run(t))

-----------------------------------------------------------------------------
(* Properties *)

TypeOK ==
    /\ now \in 0..MaxTime
    /\ row \in [Tokens -> RowStates]
    /\ expires \in [Tokens -> Nat]
    /\ decision \in [Tokens -> Decisions]
    /\ spent \in SUBSET Calls
    /\ trusted \in BOOLEAN
    /\ args \in [Calls -> Args \union {NoArgs}]
    /\ \A t \in Calls : pc[t] # "idle" => args[t] \in Args
    /\ pc \in [Calls -> PCs]
    /\ snap \in [Calls -> RowStates]
    /\ mine \in [Calls -> Decisions]
    /\ issued \in SUBSET Calls
    /\ lock \in [Calls -> Calls \union {None}]
    /\ result \in [Calls -> Results]
    /\ locks \in [Replicas -> [Tokens -> Calls \union {None}]]
    /\ holder \in [Calls -> Calls \union {None}]
    /\ published \in SUBSET Calls
    /\ faults \in 0..MaxFaults

Shown(t) == pc[t] = "done" /\ result[t] = "pending"

\* verify()'s docstring: two concurrent calls for a token must not both publish
\* captcha_verified.  (The code does not keep this: see the README.)
PublishedAtMostOnce ==
    \A t, u \in published : Tok(t) = Tok(u) => t = u

\* verify()'s docstring: "the decision, once made, never changes for a given token".
\* (The code does not keep this: see the README.)
DecisionNeverChanges ==
    \A t, u \in Calls : Shown(t) /\ Shown(u) /\ Tok(t) = Tok(u) => mine[t] = mine[u]

\* What the decision store is for: while the link is open, what a visitor was
\* shown is what verify will go by, whichever replica runs it; a visitor who
\* solves the captcha on their screen is never judged on another one.
ShownIsCurrent ==
    \A t \in Calls : Shown(t) /\ row[Tok(t)] = "open" => decision[Tok(t)] = mine[t]

\* The lock's part in it: the calls of one replica issue no second challenge for
\* a link that is still open, unless one of them raised or died.
IssuedOncePerReplica ==
    \A t, u \in issued : Same(t, u) /\ row[Tok(t)] = "open" =>
        \/ t = u
        \/ \E w \in Calls : Same(w, t) /\ (result[w] = "error" \/ pc[w] = "dead")

\* Of two calls of one replica that both published for a link, neither was to
\* blame alone: a third popped the lock they should have shared.
TwoCallsPublishOnce ==
    \A t, u \in published : Same(t, u) /\ t # u =>
        \E w \in Calls \ {t, u} : Same(w, t) /\ result[w] \in {"pending", "failed", "error"}

\* Once a visitor has been shown a captcha, no later call gets the link verified
\* before somebody solved it, however clean its own address or signals look and
\* wherever it runs.  Only a link that lapses under the call is decided again: the
\* decision goes with the row, and mark_verified says nothing of a row that is gone.
EscalationIsFinal ==
    \A t \in published : args[t].escalated =>
        \/ \E u \in Calls : Shown(u) /\ Tok(u) = Tok(t) /\ mine[u] \in spent
        \/ expires[Tok(t)] <= now

\* The gate keeps the promise of VerificationLink.
LinkState == [k \in Tokens |->
    IF row[k] # "absent" THEN row[k] ELSE IF expires[k] = 0 THEN "none" ELSE "gone"]
Link == INSTANCE VerificationLink WITH
    link <- LinkState, asked <- [t \in Calls |-> Tok(t)],
    answered <- result, announced <- published
KeepsLinkPromise == Link!Spec

\* Every page load and every verification is answered or dies with its replica,
\* though they wait for each other's locks.
EveryCallReturns ==
    \A t \in Calls : pc[t] = "get" ~> pc[t] \in {"done", "dead"}
=============================================================================
