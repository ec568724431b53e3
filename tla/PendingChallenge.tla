-------------------------- MODULE PendingChallenge --------------------------
(***************************************************************************)
(* The life of a self-hosted captcha challenge: _shared.py's               *)
(* check_pending_challenge over sql.py's SQLCaptchaStore, with any number  *)
(* of guesses at the same challenge under way at once (two tabs, a retry,  *)
(* several web processes).  Every database transaction is one step.  Over  *)
(* MemoryCaptchaStore a check never suspends, so its behaviours are those  *)
(* below in which no two guesses overlap.                                  *)
(***************************************************************************)
EXTENDS Naturals, FiniteSets

CONSTANTS
    Challenges,     \* challenge ids, each issued once
    Guesses,        \* calls of provider.verify()
    None,           \* nothing read
    Ttl,            \* the provider's ttl, in clock ticks
    MaxAttempts,    \* the provider's max_attempts
    MaxTime,        \* bound on the clock
    MaxFaults       \* bound on failed store operations

ASSUME ChallengeAssumption ==
    /\ IsFiniteSet(Guesses)
    /\ None \notin Challenges \union Nat
    /\ Ttl \in Nat \ {0}
    /\ MaxAttempts \in Nat
    /\ MaxTime \in Nat
    /\ MaxFaults \in Nat

VARIABLES
    now,        \* datetime.now(UTC)
    present,    \* the challenges that have a row
    attempts,   \* the attempts column of each row
    expires,    \* expires_at of each challenge, 0 until it is issued
    guess,      \* what each guess is: its challenge, whether it is right, when made
    pc,         \* where each guess is
    pending,    \* the attempts in the row a guess looked up, or None
    count,      \* what increment_attempts returned to each guess
    counted,    \* the guesses whose UPDATE found a row
    judged,     \* the guesses the verifier was run on
    verdict,    \* what each guess was answered
    faults

storeVars == <<present, attempts, expires>>
guessVars == <<guess, pc, pending, count, counted, judged, verdict>>
vars == <<now, storeVars, guessVars, faults>>

PCs == {"idle", "get", "expiry", "expire", "update", "readback", "exhaust", "consume",
        "done"}
Verdicts == {"none", "pass", "fail", "error"}
NoGuess == [challenge |-> None, right |-> FALSE, at |-> 0, late |-> FALSE]
GuessType == [challenge: Challenges, right: BOOLEAN, at: Nat, late: BOOLEAN]

Of(g) == guess[g].challenge

Init ==
    /\ now = 0
    /\ present = {}
    /\ attempts = [c \in Challenges |-> 0]
    /\ expires = [c \in Challenges |-> 0]
    /\ guess = [g \in Guesses |-> NoGuess]
    /\ pc = [g \in Guesses |-> "idle"]
    /\ pending = [g \in Guesses |-> None]
    /\ count = [g \in Guesses |-> 0]
    /\ counted = {}
    /\ judged = {}
    /\ verdict = [g \in Guesses |-> "none"]
    /\ faults = 0

-----------------------------------------------------------------------------
\* The definitions named ..._Mut are broken variants of the definition that follows
\* them, each a slip somebody could make in that code; the properties below are
\* checked to catch them.

Issue_MutSign(c) ==
    /\ expires[c] = 0
    /\ present' = present \union {c}
    /\ expires' = [expires EXCEPT ![c] = now - Ttl]
    /\ UNCHANGED <<now, attempts, guessVars, faults>>

\* provider.issue(): store.create with attempts = 0.
Issue(c) ==
    /\ expires[c] = 0
    /\ present' = present \union {c}
    /\ expires' = [expires EXCEPT ![c] = now + Ttl]
    /\ UNCHANGED <<now, attempts, guessVars, faults>>

\* provider.verify(challenge_id, response): `late` if the challenge is gone.
Submit(g, c, right) ==
    /\ pc[g] = "idle"
    /\ expires[c] # 0
    /\ guess' = [guess EXCEPT ![g] =
         [challenge |-> c, right |-> right, at |-> now, late |-> c \notin present]]
    /\ pc' = [pc EXCEPT ![g] = "get"]
    /\ UNCHANGED <<now, storeVars, pending, count, counted, judged, verdict, faults>>

Goto(g, next) == pc' = [pc EXCEPT ![g] = next]

Finish(g, answer) ==
    /\ Goto(g, "done")
    /\ verdict' = [verdict EXCEPT ![g] = answer]

Get(g) ==
    /\ pc[g] = "get"
    /\ pending' = [pending EXCEPT ![g] =
                     IF Of(g) \in present THEN attempts[Of(g)] ELSE None]
    /\ Goto(g, "expiry")
    /\ UNCHANGED <<now, storeVars, guess, count, counted, judged, verdict, faults>>

CheckExpiry_MutNoMissing(g) ==
    /\ pc[g] = "expiry"
    /\ Goto(g, IF now > expires[Of(g)] THEN "expire" ELSE "update")
    /\ UNCHANGED <<now, storeVars, guess, pending, count, counted, judged, verdict, faults>>

CheckExpiry_MutNoExpiry(g) ==
    /\ pc[g] = "expiry"
    /\ \/ pending[g] = None /\ Finish(g, "fail")
       \/ pending[g] # None /\ Goto(g, "update") /\ UNCHANGED verdict
    /\ UNCHANGED <<now, storeVars, guess, pending, count, counted, judged, faults>>

CheckExpiry(g) ==
    /\ pc[g] = "expiry"
    /\ \/ pending[g] = None /\ Finish(g, "fail")
       \/ /\ pending[g] # None
          /\ Goto(g, IF now > expires[Of(g)] THEN "expire" ELSE "update")
          /\ UNCHANGED verdict
    /\ UNCHANGED <<now, storeVars, guess, pending, count, counted, judged, faults>>

\* increment_attempts, first transaction: UPDATE ... SET attempts = attempts + 1,
\* which touches nothing when the row is gone.
Update_MutReadModifyWrite(g) ==
    /\ pc[g] = "update"
    /\ IF Of(g) \in present
       THEN /\ attempts' = [attempts EXCEPT ![Of(g)] = pending[g] + 1]
            /\ counted' = counted \union {g}
       ELSE UNCHANGED <<attempts, counted>>
    /\ Goto(g, "readback")
    /\ UNCHANGED <<now, present, expires, guess, pending, count, judged, verdict, faults>>

Update(g) ==
    /\ pc[g] = "update"
    /\ IF Of(g) \in present
       THEN /\ attempts' = [attempts EXCEPT ![Of(g)] = @ + 1]
            /\ counted' = counted \union {g}
       ELSE UNCHANGED <<attempts, counted>>
    /\ Goto(g, "readback")
    /\ UNCHANGED <<now, present, expires, guess, pending, count, judged, verdict, faults>>

\* increment_attempts, second transaction: the read-back, 0 when the row is gone;
\* then the limit, and the verifier on the challenge looked up at the start.
Exceeded_MutOffByOne(n) == n >= MaxAttempts

Exceeded(n) == n > MaxAttempts

ReadBack(g) ==
    LET n == IF Of(g) \in present THEN attempts[Of(g)] ELSE 0
    IN  /\ pc[g] = "readback"
        /\ count' = [count EXCEPT ![g] = n]
        /\ judged' = IF Exceeded(n) THEN judged ELSE judged \union {g}
        /\ \/ Exceeded(n) /\ Goto(g, "exhaust") /\ UNCHANGED verdict
           \/ ~ Exceeded(n) /\ guess[g].right /\ Goto(g, "consume") /\ UNCHANGED verdict
           \/ ~ Exceeded(n) /\ ~ guess[g].right /\ Finish(g, "fail")
        /\ UNCHANGED <<now, storeVars, guess, pending, counted, faults>>

\* store.delete: because the challenge expired, is exhausted, or was answered.
Delete(g) ==
    /\ \/ pc[g] \in {"expire", "exhaust"} /\ Finish(g, "fail")
       \/ pc[g] = "consume" /\ Finish(g, "pass")
    /\ present' = present \ {Of(g)}
    /\ UNCHANGED <<now, attempts, expires, guess, pending, count, counted, judged, faults>>

-----------------------------------------------------------------------------
\* A store operation raises, or the request is cancelled.
Fault(g) ==
    /\ faults < MaxFaults
    /\ faults' = faults + 1
    /\ pc[g] \notin {"idle", "expiry", "done"}
    /\ Finish(g, "error")
    /\ UNCHANGED <<now, storeVars, guess, pending, count, counted, judged>>

\* SQLCaptchaStore.purge_expired, run by the deployment's own scheduler.
PurgeExpired ==
    /\ \E c \in present : expires[c] <= now
    /\ present' = {c \in present : expires[c] > now}
    /\ UNCHANGED <<now, attempts, expires, guessVars, faults>>

Tick ==
    /\ now < MaxTime
    /\ now' = now + 1
    /\ UNCHANGED <<storeVars, guessVars, faults>>

Run(g) == Get(g) \/ CheckExpiry(g) \/ Update(g) \/ ReadBack(g) \/ Delete(g)

Next ==
    \/ \E c \in Challenges : Issue(c)
    \/ \E g \in Guesses, c \in Challenges, right \in BOOLEAN : Submit(g, c, right)
    \/ \E g \in Guesses : Run(g)
    \/ \E g \in Guesses : Fault(g)
    \/ PurgeExpired
    \/ Tick

Spec == Init /\ [][Next]_vars

-----------------------------------------------------------------------------
(* Properties *)

TypeOK ==
    /\ now \in Nat
    /\ present \in SUBSET Challenges
    /\ attempts \in [Challenges -> Nat]
    /\ expires \in [Challenges -> Nat]
    /\ guess \in [Guesses -> GuessType \union {NoGuess}]
    /\ \A g \in Guesses : pc[g] # "idle" => guess[g] \in GuessType
    /\ pc \in [Guesses -> PCs]
    /\ pending \in [Guesses -> Nat \union {None}]
    /\ count \in [Guesses -> Nat]
    /\ counted \in SUBSET Guesses
    /\ judged \in SUBSET Guesses
    /\ verdict \in [Guesses -> Verdicts]
    /\ faults \in Nat

JudgedOn(c) == {g \in judged : Of(g) = c}

\* check_pending_challenge's docstring: "a bounded number of guesses (so a short
\* answer can't be brute-forced ...)".  (The code does not keep this.)
WrongGuessesBounded ==
    \A c \in Challenges : Cardinality({g \in JudgedOn(c) : ~ guess[g].right}) <= MaxAttempts

\* Its docstring again: "one-time use, no replay".  (The code does not keep this.)
OneTimeUse ==
    \A g, h \in Guesses :
        verdict[g] = "pass" /\ verdict[h] = "pass" /\ Of(g) = Of(h) => g = h

\* What the atomic UPDATE does buy: of the guesses whose read-back still found the
\* row, no more than max_attempts are judged, however they overlap.
LiveGuessesBounded ==
    \A c \in Challenges :
        Cardinality({g \in JudgedOn(c) : count[g] # 0}) <= MaxAttempts

\* A guess made after the challenge was answered, exhausted or purged is never
\* judged: only guesses already under way at that moment can slip through.
GoneStaysGone ==
    \A g \in Guesses : guess[g].late => g \notin judged /\ verdict[g] # "pass"

\* A pass needs a right answer, submitted before the challenge expired, and
\* leaves no row behind for anybody who looks later.
PassIsEarned ==
    \A g \in Guesses : verdict[g] = "pass" =>
        guess[g].right /\ guess[g].at <= expires[Of(g)] /\ Of(g) \notin present

\* What can have become of a challenge: its time is over, more than max_attempts guesses
\* were counted in its row, or a guess was found right.
CountedOn(c) == {g \in counted : Of(g) = c}
Spent(c) ==
    \/ expires[c] <= now
    \/ Cardinality(CountedOn(c)) > MaxAttempts
    \/ \E g \in JudgedOn(c) : guess[g].right

\* A right answer is refused for one of these causes only, and never once it was judged:
\* neither the limit, compared after the increment, nor a guess that overlaps, raises or is
\* wrong costs it an attempt that was left.  (The challenge may have been spent while the
\* guess was under way.)
RightAnswerRefusedOnlyWhenSpent ==
    \A g \in Guesses : verdict[g] = "fail" /\ guess[g].right =>
        g \notin judged /\ Spent(Of(g))
=============================================================================
