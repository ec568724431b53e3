---------------------------- MODULE CaptchaGate ----------------------------
(***************************************************************************)
(* CaptchaGate (gate.py): links that are created once, looked at with      *)
(* get_info and verified with verify, by calls that run concurrently in    *)
(* one or several web processes ("replicas") over one shared               *)
(* VerificationStore.                                                      *)
(*                                                                         *)
(* A call is one-shot: a retry or a second click is another member of      *)
(* Calls.  Each await of the code is a step of its own, since another task *)
(* may run there; the code between two awaits is part of the step that     *)
(* ends it.  asyncio.Lock objects are named after the call whose           *)
(* setdefault argument created them: a call creates at most one.  Which    *)
(* waiter a released lock wakes is left open.                              *)
(***************************************************************************)
EXTENDS Naturals

CONSTANTS
    Tokens,         \* tokens of VerificationRequests
    Calls,          \* HTTP calls of verify() and get_info()
    Visits,         \* what a call can be: see VisitType
    Replicas,       \* web processes, each with its own _token_locks
    None,           \* no lock, no holder
    Ttl,            \* CaptchaGate.ttl, in clock ticks
    RequireCaptcha, \* the gate has a CaptchaCheck
    MaxTime,        \* bound on the clock
    MaxFaults       \* bound on exceptions, cancellations and crashes

\* A call of get_info, or one of verify with what it brings: `passes`, the account
\* check and the extra checks will accept it; `solves`, its captcha response is
\* the right one.
VisitType == [op: {"verify", "info"}, passes: BOOLEAN, solves: BOOLEAN]

ASSUME GateAssumption ==
    /\ Visits \subseteq VisitType
    /\ None \notin Calls \union Tokens
    /\ Ttl \in Nat \ {0}
    /\ MaxTime \in Nat
    /\ MaxFaults \in Nat
    /\ RequireCaptcha \in BOOLEAN

VARIABLES
    now,        \* datetime.now(UTC)
    row,        \* the store: the state of the row of each token
    expires,    \* expires_at of each token, 0 until it is created
    answer,     \* the provider's record of the token's challenge
    args,       \* what each call was made with, and when
    pc,         \* where each call is
    snap,       \* the row a call read last
    lock,       \* the lock object a call got from setdefault
    result,     \* what a finished call answered
    locks,      \* _token_locks of each replica
    holder,     \* which call holds each lock object
    published,  \* the calls that published captcha_verified
    faults

storeVars == <<row, expires, answer>>
callVars  == <<args, pc, snap, lock, result>>
lockVars  == <<locks, holder>>
vars == <<now, storeVars, callVars, lockVars, published, faults>>

RowStates == {"absent", "open", "verified"}
Answers   == {"none", "live", "solved", "exhausted"}
Results   == {"none", "unknown", "verified", "pending", "failed", "error"}

\* The steps of verify() under the lock.
Critical == {"reread", "recheck", "redelete", "checks", "lookup", "solve",
             "mark", "publish"}
PCs == Critical \union {"idle", "get", "got", "delete", "wait", "done", "dead"}

NoVisit == [op |-> "info", passes |-> FALSE, solves |-> FALSE]
NoArgs == [visit |-> NoVisit, token |-> None, home |-> None, at |-> 0, acked |-> FALSE]
Args == [visit: Visits, token: Tokens, home: Replicas, at: 0..MaxTime, acked: BOOLEAN]

Visit(t) == args[t].visit
Tok(t)   == args[t].token
Home(t)  == args[t].home
Same(t, u) == Tok(t) = Tok(u) /\ Home(t) = Home(u)

Init ==
    /\ now = 0
    /\ row = [k \in Tokens |-> "absent"]
    /\ expires = [k \in Tokens |-> 0]
    /\ answer = [k \in Tokens |-> "none"]
    /\ args = [t \in Calls |-> NoArgs]
    /\ pc = [t \in Calls |-> "idle"]
    /\ snap = [t \in Calls |-> "absent"]
    /\ lock = [t \in Calls |-> None]
    /\ result = [t \in Calls |-> "none"]
    /\ locks = [r \in Replicas |-> [k \in Tokens |-> None]]
    /\ holder = [l \in Calls |-> None]
    /\ published = {}
    /\ faults = 0

-----------------------------------------------------------------------------
\* The definitions named ..._Mut are broken variants of the definition that follows
\* them, each a slip somebody could make in that code; the properties below are
\* checked to catch them.

CreateVerification_MutSign(k) ==
    /\ expires[k] = 0
    /\ row' = [row EXCEPT ![k] = "open"]
    /\ expires' = [expires EXCEPT ![k] = now - Ttl]
    /\ UNCHANGED <<now, answer, callVars, lockVars, published, faults>>

\* create_verification: the challenge is issued, then the row is stored.  The
\* token is random and known to nobody before the call returns.
CreateVerification(k) ==
    /\ expires[k] = 0
    /\ row' = [row EXCEPT ![k] = "open"]
    /\ expires' = [expires EXCEPT ![k] = now + Ttl]
    /\ answer' = [answer EXCEPT ![k] = IF RequireCaptcha THEN "live" ELSE "none"]
    /\ UNCHANGED <<now, callVars, lockVars, published, faults>>

\* A request for the token reaches a replica, possibly after some call for the
\* token was answered "verified" (`acked`).
Arrive(t, visit, k, r) ==
    /\ pc[t] = "idle"
    /\ expires[k] # 0
    /\ pc' = [pc EXCEPT ![t] = "get"]
    /\ args' = [args EXCEPT ![t] =
         [visit |-> visit, token |-> k, home |-> r, at |-> now,
          acked |-> \E u \in Calls : result[u] = "verified" /\ Tok(u) = k]]
    /\ UNCHANGED <<now, storeVars, snap, lock, result, lockVars, published, faults>>

-----------------------------------------------------------------------------
\* A return before the lock is taken.
Return(t, answered) ==
    /\ pc' = [pc EXCEPT ![t] = "done"]
    /\ result' = [result EXCEPT ![t] = answered]

Leave_MutKeepsLock(t, answered) ==
    /\ Return(t, answered)
    /\ UNCHANGED lockVars

\* A return or an exception from inside the try: `async with` releases the lock
\* if this call holds it, and `finally` pops whatever lock is registered.
Leave(t, answered) ==
    /\ Return(t, answered)
    /\ locks' = [locks EXCEPT ![Home(t)][Tok(t)] = None]
    /\ holder' = [l \in Calls |-> IF holder[l] = t THEN None ELSE holder[l]]

Goto(t, next) == pc' = [pc EXCEPT ![t] = next]

Get_MutNoReread(t) ==
    /\ \/ pc[t] = "get"    /\ Goto(t, "got") /\ snap' = [snap EXCEPT ![t] = row[Tok(t)]]
       \/ pc[t] = "reread" /\ Goto(t, "recheck") /\ UNCHANGED snap
    /\ UNCHANGED <<now, storeVars, args, lock, result, lockVars, published, faults>>

\* _get_live, the read: store.get(token).
Get(t) ==
    /\ \/ pc[t] = "get"    /\ Goto(t, "got")
       \/ pc[t] = "reread" /\ Goto(t, "recheck")
    /\ snap' = [snap EXCEPT ![t] = row[Tok(t)]]
    /\ UNCHANGED <<now, storeVars, args, lock, result, lockVars, published, faults>>

Expired_MutOffByOne(k) == now > expires[k] + 1

Expired(k) == now > expires[k]

\* The rest of _get_live and the early returns before the lock.
EarlyReturn(t) ==
    /\ pc[t] = "got"
    /\ \/ snap[t] = "absent" /\ Return(t, "unknown")
       \/ /\ snap[t] # "absent"
          /\ Expired(Tok(t))
          /\ Goto(t, "delete")
          /\ UNCHANGED result
       \/ /\ snap[t] # "absent"
          /\ ~ Expired(Tok(t))
          /\ \/ snap[t] = "verified" /\ Return(t, "verified")
             \/ snap[t] = "open" /\ Visit(t).op = "info" /\ Return(t, "pending")
    /\ UNCHANGED <<now, storeVars, args, snap, lock, lockVars, published, faults>>

\* self._token_locks.setdefault(token, asyncio.Lock()), then `async with`.
SetDefault(t) ==
    LET r == Home(t)
        k == Tok(t)
        l == IF locks[r][k] = None THEN t ELSE locks[r][k]
    IN  /\ pc[t] = "got"
        /\ Visit(t).op = "verify"
        /\ snap[t] = "open"
        /\ ~ Expired(k)
        /\ lock' = [lock EXCEPT ![t] = l]
        /\ locks' = [locks EXCEPT ![r][k] = l]
        /\ Goto(t, "wait")
        /\ UNCHANGED <<now, storeVars, args, snap, result, holder, published, faults>>

\* _get_live, the lazy expiry: store.delete(token), before or under the lock.
DeleteExpired(t) ==
    /\ \/ pc[t] = "delete" /\ Return(t, "unknown") /\ UNCHANGED lockVars
       \/ pc[t] = "redelete" /\ Leave(t, "unknown")
    /\ row' = [row EXCEPT ![Tok(t)] = "absent"]
    /\ UNCHANGED <<now, expires, answer, args, snap, lock, published, faults>>

Acquire(t) ==
    /\ pc[t] = "wait"
    /\ holder[lock[t]] = None
    /\ holder' = [holder EXCEPT ![lock[t]] = t]
    /\ Goto(t, "reread")
    /\ UNCHANGED <<now, storeVars, args, snap, lock, result, locks, published, faults>>

\* After the re-read under the lock: return, expire, or run the checks.
Recheck(t) ==
    /\ pc[t] = "recheck"
    /\ \/ snap[t] = "absent" /\ Leave(t, "unknown")
       \/ /\ snap[t] # "absent"
          /\ Expired(Tok(t))
          /\ Goto(t, "redelete")
          /\ UNCHANGED <<result, lockVars>>
       \/ snap[t] = "verified" /\ ~ Expired(Tok(t)) /\ Leave(t, "verified")
       \/ /\ snap[t] = "open"
          /\ ~ Expired(Tok(t))
          /\ Goto(t, "checks")
          /\ UNCHANGED <<result, lockVars>>
    /\ UNCHANGED <<now, storeVars, args, snap, lock, published, faults>>

-----------------------------------------------------------------------------
CheapChecks_MutCaptchaFirst(t) ==
    /\ pc[t] = "checks"
    /\ Goto(t, "lookup")
    /\ UNCHANGED <<now, storeVars, args, snap, lock, result, lockVars, published, faults>>

\* The checks loop up to the captcha: AccountMatchCheck and the extra checks.
CheapChecks(t) ==
    /\ pc[t] = "checks"
    /\ \/ ~ Visit(t).passes /\ Leave(t, "failed")
       \/ /\ Visit(t).passes
          /\ Goto(t, IF RequireCaptcha THEN "lookup" ELSE "mark")
          /\ UNCHANGED <<result, lockVars>>
    /\ UNCHANGED <<now, storeVars, args, snap, lock, published, faults>>

\* CaptchaCheck, put last: the provider looks up its pending challenge (which
\* it may also have let expire, sooner than the link) ...
LookupChallenge(t) ==
    /\ pc[t] = "lookup"
    /\ \/ Leave(t, "failed")
       \/ /\ answer[Tok(t)] = "live"
          /\ Goto(t, "solve")
          /\ UNCHANGED <<result, lockVars>>
    /\ UNCHANGED <<now, storeVars, args, snap, lock, published, faults>>

\* ... and judges the response: a right one consumes the challenge, a wrong one
\* fails, and any may turn out to be one attempt too many.
SolveChallenge(t) ==
    LET k == Tok(t)
    IN  /\ pc[t] = "solve"
        /\ \/ /\ Visit(t).solves
              /\ answer' = [answer EXCEPT ![k] = "solved"]
              /\ Goto(t, "mark")
              /\ UNCHANGED <<result, lockVars>>
           \/ ~ Visit(t).solves /\ Leave(t, "failed") /\ UNCHANGED answer
           \/ /\ answer[k] = "live"
              /\ answer' = [answer EXCEPT ![k] = "exhausted"]
              /\ Leave(t, "failed")
        /\ UNCHANGED <<now, row, expires, args, snap, lock, published, faults>>

MarkVerified_MutForgets(t) ==
    /\ pc[t] = "mark"
    /\ Goto(t, "publish")
    /\ UNCHANGED <<now, storeVars, args, snap, lock, result, lockVars, published, faults>>

MarkVerified_MutUpserts(t) ==
    /\ pc[t] = "mark"
    /\ row' = [row EXCEPT ![Tok(t)] = "verified"]
    /\ Goto(t, "publish")
    /\ UNCHANGED <<now, expires, answer, args, snap, lock, result, lockVars, published,
                   faults>>

\* store.mark_verified: a row deleted meanwhile is silently left alone, unless
\* it went between the store's own read and its UPDATE (StaleDataError).
MarkVerified(t) ==
    LET k == Tok(t)
    IN  /\ pc[t] = "mark"
        /\ \/ /\ row' = [row EXCEPT ![k] = IF @ = "absent" THEN @ ELSE "verified"]
              /\ Goto(t, "publish")
              /\ UNCHANGED <<result, lockVars>>
           \/ row[k] = "absent" /\ Leave(t, "error") /\ UNCHANGED row
        /\ UNCHANGED <<now, expires, answer, args, snap, lock, published, faults>>

Publish_MutIfPresent(t) ==
    /\ pc[t] = "publish"
    /\ published' = IF row[Tok(t)] = "verified" THEN published \union {t} ELSE published
    /\ Leave(t, "verified")
    /\ UNCHANGED <<now, storeVars, args, snap, lock, faults>>

\* transport.publish, and the return that follows it.
Publish(t) ==
    /\ pc[t] = "publish"
    /\ published' = published \union {t}
    /\ Leave(t, "verified")
    /\ UNCHANGED <<now, storeVars, args, snap, lock, faults>>

-----------------------------------------------------------------------------
Fault_MutNoFinally(t) ==
    /\ faults < MaxFaults
    /\ faults' = faults + 1
    /\ pc[t] \in (Critical \ {"recheck"}) \union {"get", "delete", "wait"}
    /\ Return(t, "error")
    /\ UNCHANGED <<now, storeVars, args, snap, lock, lockVars, published>>

\* An awaited operation raises (a store, provider or transport error) or the
\* task is cancelled: `finally` still pops, even for a call that only waits.
Fault(t) ==
    /\ faults < MaxFaults
    /\ faults' = faults + 1
    /\ \/ pc[t] \in {"get", "delete"} /\ Return(t, "error") /\ UNCHANGED lockVars
       \/ pc[t] \in (Critical \ {"recheck"}) \union {"wait"} /\ Leave(t, "error")
    /\ UNCHANGED <<now, storeVars, args, snap, lock, published>>

\* A replica dies with its calls and its locks; the SQL store survives.
Crash(r) ==
    /\ faults < MaxFaults
    /\ faults' = faults + 1
    /\ pc' = [t \in Calls |->
                IF Home(t) = r /\ pc[t] \notin {"idle", "done"} THEN "dead" ELSE pc[t]]
    /\ locks' = [locks EXCEPT ![r] = [k \in Tokens |-> None]]
    /\ UNCHANGED <<now, storeVars, args, snap, lock, result, holder, published>>

\* SQLVerificationStore.purge_expired, run by the deployment's own scheduler.
PurgeExpired ==
    /\ \E k \in Tokens : row[k] # "absent" /\ expires[k] <= now
    /\ row' = [k \in Tokens |-> IF expires[k] <= now THEN "absent" ELSE row[k]]
    /\ UNCHANGED <<now, expires, answer, callVars, lockVars, published, faults>>

Tick ==
    /\ now < MaxTime
    /\ now' = now + 1
    /\ UNCHANGED <<storeVars, callVars, lockVars, published, faults>>

\* What a started call does next, faults aside.
Run(t) ==
    \/ Get(t)
    \/ EarlyReturn(t)
    \/ SetDefault(t)
    \/ DeleteExpired(t)
    \/ Acquire(t)
    \/ Recheck(t)
    \/ CheapChecks(t)
    \/ LookupChallenge(t)
    \/ SolveChallenge(t)
    \/ MarkVerified(t)
    \/ Publish(t)

Next ==
    \/ \E k \in Tokens : CreateVerification(k)
    \/ \E t \in Calls, v \in Visits, k \in Tokens, r \in Replicas : Arrive(t, v, k, r)
    \/ \E t \in Calls : Run(t)
    \/ \E t \in Calls : Fault(t)
    \/ \E r \in Replicas : Crash(r)
    \/ PurgeExpired
    \/ Tick

Spec == Init /\ [][Next]_vars

\* The event loop keeps running every task that can run; nobody is obliged to
\* open a link, and time and faults are not obliged to happen.
FairSpec == Spec /\ \A t \in Calls : WF_vars(Run(t))

-----------------------------------------------------------------------------
(* Properties *)

TypeOK ==
    /\ now \in 0..MaxTime
    /\ row \in [Tokens -> RowStates]
    /\ expires \in [Tokens -> Nat]
    /\ answer \in [Tokens -> Answers]
    /\ args \in [Calls -> Args \union {NoArgs}]
    /\ \A t \in Calls : pc[t] # "idle" => args[t] \in Args
    /\ pc \in [Calls -> PCs]
    /\ snap \in [Calls -> RowStates]
    /\ lock \in [Calls -> Calls \union {None}]
    /\ result \in [Calls -> Results]
    /\ locks \in [Replicas -> [Tokens -> Calls \union {None}]]
    /\ holder \in [Calls -> Calls \union {None}]
    /\ published \in SUBSET Calls
    /\ faults \in 0..MaxFaults

\* verify()'s docstring: two concurrent calls for a token must not both publish
\* captcha_verified.  (The code does not keep this: see the README.)
PublishedAtMostOnce ==
    \A t, u \in published : Tok(t) = Tok(u) => t = u

\* What the per-token lock does guarantee.  Calls of one replica publish at most
\* once for a token as long as none of its calls there has failed its checks
\* or raised: only such a call pops the lock while the link is still open and
\* others may be waiting on the popped object.
Disturbed(t) ==
    \E u \in Calls : Same(u, t) /\ result[u] \in {"failed", "error"}
PublishOncePerReplica ==
    \A t, u \in published : Same(t, u) /\ ~ Disturbed(t) => t = u

\* "Verifying an already-verified token returns success without re-running the
\* checks", read from outside: once any replica has answered "verified" for a
\* token, a call that starts later is never sent to the checks, never told the
\* link is still pending, and never publishes again.
AckedStaysVerified ==
    \A t \in Calls : args[t].acked =>
        /\ t \notin published
        /\ result[t] \notin {"pending", "failed"}

\* A call that starts after the link expired is never told "verified", even if
\* nobody has deleted the row yet; one that was already under way may be.
LateCallNeverVerifies ==
    \A t \in Calls : result[t] = "verified" => args[t].at <= expires[Tok(t)]

\* The captcha check is put last so that a challenge is spent by nobody whom the cheaper
\* checks reject: such a call never gets to the provider, where it would use up a guess
\* even with a wrong answer, and whatever became of a challenge, solved or out of guesses,
\* is the doing of a call that passed them.
RejectedCallSparesAnswer ==
    /\ \A t \in Calls : pc[t] \in {"lookup", "solve"} => Visit(t).passes
    /\ \A k \in Tokens : answer[k] \in {"solved", "exhausted"} =>
          \E t \in Calls :
              /\ Tok(t) = k
              /\ Visit(t).passes
              /\ answer[k] = "solved" => Visit(t).solves

\* The gate keeps the promise of VerificationLink.
LinkState == [k \in Tokens |->
    IF row[k] # "absent" THEN row[k] ELSE IF expires[k] = 0 THEN "none" ELSE "gone"]
Link == INSTANCE VerificationLink WITH
    link <- LinkState, asked <- [t \in Calls |-> Tok(t)],
    answered <- result, announced <- published
KeepsLinkPromise == Link!Spec

\* Every call is answered (or dies with its replica): no call waits for ever on
\* a lock whose holder is gone or that nobody will release.
EveryCallReturns ==
    \A t \in Calls : pc[t] = "get" ~> pc[t] \in {"done", "dead"}

\* "On success, marks it verified and publishes captcha_verified": a link some
\* call was told is verified is eventually announced.  (The code does not keep this
\* if a call raises, is cancelled or dies between the two.)
SuccessIsAlwaysAnnounced ==
    \A t \in Calls : result[t] = "verified" ~> \E u \in published : Tok(u) = Tok(t)

\* The same unless a call that got past the checks was broken off, whatever else raises or
\* dies, and whatever overlaps.
BrokenOff(t) == pc[t] = "dead" \/ result[t] = "error"

SuccessIsAnnounced ==
    \A t \in Calls :
        result[t] = "verified" ~>
            \/ \E u \in published : Tok(u) = Tok(t)
            \/ \E u \in Calls : Tok(u) = Tok(t) /\ Visit(u).passes /\ BrokenOff(u)

\* A correctly solved captcha is not wasted: its link gets verified, or lapses, unless the
\* call that solved it was itself broken off (checks.py:100 has consumed the answer by
\* then), whichever other calls raise, are cancelled or overlap.
SolvedAnswerCounts ==
    \A t \in Calls, k \in Tokens :
        pc[t] = "mark" /\ Tok(t) = k ~> row[k] # "open" \/ BrokenOff(t)
=============================================================================
