# Verification of webapi-captcha

TLA+ models of the concurrent and persistent parts of `webapi_captcha`, from the
browser widget to the database, the TLC configurations that check them, and TLAPS
proofs of the safety properties those runs check. Paths below are relative to `src/webapi_captcha/` unless they start with `tests/` or `docs/`.

The library is asyncio code: inside one process two requests interleave at every
`await` and nowhere else, and a deployment runs several processes over one
database. Unit tests run one schedule; the questions here are about the others.

## 1. The system

| Component | State | Operations | Talks to |
|---|---|---|---|
| `CaptchaGate` (`gate.py`) | `_token_locks` of the process | `create_verification`, `get_info`, `verify` | verification store, checks, captcha provider, transport |
| `AdaptiveCaptchaGate` (`adaptive.py`) | `_token_locks` | the same, plus `assess_risk`, `is_currently_trusted` | those, plus decision store, risk engine, trust store, running-risk store, reputation |
| Verification store (`sql.py`, `memory.py`) | a row per link: verified, `expires_at` | `create`, `get`, `mark_verified`, `delete`, `purge_expired` | database |
| Captcha store and `_shared.py` | a row per challenge: answer, attempts, `expires_at` | `create`, `get`, `increment_attempts`, `delete`, `purge_expired`; `check_pending_challenge` | database |
| Decision store (`adaptive.py`, `sql.py`) | a decision, with its challenge, per link | `get`, `set`, `delete` | database |
| Running-risk stores (`sql.py`, `redis_store.py`, `tiered.py`) | a level per visitor, with a ttl, in one or two tiers | `get`, `bump`, `purge_expired` | database, Redis |
| Replay detection (`replay_guard.py`, `risk.py`, `sql.py`) | a row per movement fingerprint | `RepeatedMovementCheck.run`, `ReplayRiskSignal.assess`, `seen_recently`, `record` | database |
| `PageGuard` (`pageguard.py`) | the visitor cookie (in the browser) | `require_human`, the passive-signal endpoint | adaptive gate, receipts, trust store, running risk |
| `RiskEngine` (`risk.py`) | the list of signals | `assess`, `add_signal`, `remove_signal`, `enabled` | signals |
| Trust stores | an entry per visitor, with address and ttl | `trust`, `is_trusted` | database, Redis |
| `TokenBucketLimiter` (`ratelimit.py`) | a bucket per key, LRU-bounded | `check` | - |
| `FallbackCaptchaProvider` (`providers/fallback.py`) | - | `issue`, `verify` | its children |
| Transport (`transport.py`) | subscribers | `publish`, `subscribe` | application handlers |
| Receipts (`receipts.py`) | - | `issue`, `verify` | - |
| Widget and beacon (`widget.js`, `beacon.js`) | the browser's samples, timers, busy flag | collect, post, retry | `api.py` |
| Scoring, signals, presets, rendering | - | pure | - |

**What is hard here.** Per-token locks that are popped from their table while
others wait on the popped object; a lock table per process over a shared
database; `get`, decide, then write in separate transactions, everywhere; lazy
deletes by primary key of a row read earlier; an atomic counter followed by a
read-back; two tiers of which one swallows errors and expires sooner; a failure
between the commit and the event; a cookie minted by whichever tab came first;
a list edited while it is walked; an index into a list that the next deployment may
change; a page that keeps its samples, timers and busy flag while answers are slow or
lost.

**What makes each part right.**

- *Gates*: one event per link, an answered link stays answered, an expired one
  is never verified, no call waits for ever, a success is announced, a captcha
  answer is not spent in vain; for the adaptive gate, the challenge on the screen
  is the one `verify` goes by, and an escalation cannot be dodged.
- *Challenges*: bounded guesses, one-time use, no mistaken refusal.
- *Running risk, replay*: what was recorded is found again until its ttl is over.
- *PageGuard*: a visitor who proved to be human, here or to a trusted site, is let in,
  and of those under suspicion nobody else.
- *Trust stores*: a yes is owed to the latest verification, at its address, within
  its ttl; who was trusted last is found trusted.
- *RiskEngine*: the documented level, whoever edits the list meanwhile; a child of a
  corroborated signal does not escalate alone.
- *Limiter, fallback, API*: a request is refused exactly if its budget is spent; the
  table is bounded; a right answer to a live challenge counts.
- *Widget, transport*: green means verified and stays; checking ends; every
  subscribed handler hears of a success.

## 2. The modules

| Module | Models | Steps |
|---|---|---|
| `VerificationLink` | the promise of a link, abstractly: opened once, perhaps verified once, perhaps lapsed, never back; answers and announcements that fit | - |
| `CaptchaGate` | `gate.py` over the SQL verification store, several replicas | each `await` |
| `CaptchaGateProofs` | theorems about it | |
| `PendingChallenge` | `check_pending_challenge` over `SQLCaptchaStore` | each transaction; the `UPDATE` and the read-back of `increment_attempts` apart |
| `PendingChallengeProofs` | theorems about it | |
| `AdaptiveGate` | `get_info` and `verify` of `adaptive.py`, the decision store (`Overwrites` picks the in-memory one) | each `await` |
| `AdaptiveGateProofs` | theorems about it | |
| `RunningRisk` | the SQL, Redis and tiered running-risk stores (`Tiered`) | each database or Redis operation |
| `ReplayGuard` | the check, the signal and the SQL fingerprint store | each transaction |
| `TrustStore` | the SQL, Redis and tiered trust stores (`Tiered`) | each transaction or Redis command |
| `VisitorStores` | those three side by side: what is remembered of a visitor | theirs |
| `VisitorStoresProofs` | theorems about the three | |
| `TrustReceipts` | issuing and verifying a receipt; a signature is the name of the site whose key made it | - |
| `PageGuard` | page loads of one browser, its cookie, receipt, trust, running risk | each `await` of `require_human`; one step for `get_info` and for `verify` of a link, which `AdaptiveGate` opens up |
| `PageGuardProofs` | theorems about it | |
| `CompositeSignals` | the corroborated and the conditional signal as functions of their children's answers | - |
| `RiskEngine` | one assessment over a list others edit, composite signals among it | each awaited signal |
| `RiskEngineProofs` | theorems about it | |
| `TokenBucket` | `TokenBucketLimiter.check`, and a limiter by itself | each call |
| `ChallengeApi` | `GET /challenge` and `POST /verify` over `FallbackCaptchaProvider` and two `TokenBucket`s, with a redeployment | each awaited child; one step for judging, which `PendingChallenge` opens up |
| `ChallengeApiProofs` | theorems about it and its two `TokenBucket`s | |
| `Widget` | `widget.js` on its pages | each event, timer and answer |
| `Transport` | `InProcessTransport` | `publish`, and each handler's task |
| `Session` | one link end to end: `Widget`, the gate endpoints with a `RepeatedMovementCheck`, `Transport` | each message; a `verify` is two steps, which `CaptchaGate` opens up |
| `SessionProofs` | theorems about it | |

`MC*` modules hold the small instances; a configuration that needs none names its values
itself. A definition called `X_Mut...` stands
before the `X` it breaks: it is a slip somebody could make in that code, and the
property it is paired with is checked to notice it.

Correspondence, for all of them:

- **Calls are one-shot**: a retry or another click is another member of `Calls`.
  `pc[t]` names the `await` a call is at; the code up to the next `await` belongs
  to the step that ends it. `snap`, `pending`, `seen`, `want` are the locals that
  survive an `await`.
- **`asyncio.Lock`** objects are named after the call whose `setdefault` argument
  they were; `locks` is `_token_locks`, `holder` says who is inside. `Leave` is
  the end of `async with` together with the `finally` that pops whatever lock is
  registered. Which waiter a released lock wakes is left open, which includes
  asyncio's FIFO.
- **Faults** are an exception or a cancellation at an `await`, bounded by
  `MaxFaults`; a **crash** takes the calls and locks of one replica, and what is
  in its memory, while the database survives.
- **Time** is `now`, ticking up to `MaxTime`; `Ttl` is in ticks. The gates and
  `check_pending_challenge` expire *after* `expires_at`; the purges, fingerprints,
  running risk and trust *at* it, as in the code.
- **Several components in one module**: `Session` and `ChallengeApi` instantiate
  `Widget`, `Transport` and `TokenBucket` and conjoin their actions with the rest of
  the step. `VisitorStores` puts three stores that share no row and no key into one
  specification: steps of different stores commute, so a behaviour moves one of them
  and leaves the others at rest.
- **Data** is reduced to what decides: whether a visit passes the cheap checks,
  solves the captcha, looks risky (which a good trust receipt prevents); a challenge is
  the call that issued it. Pointer samples are numbered, and a fingerprint is which page, which first sample and how
  many: two movements that differ in one of them are taken to differ. Tokens of a
  bucket are exact multiples of 1/`Period` where the code has floats.
- **Reductions of `Widget`**: moves during a verification are taken after it, since
  nothing reads the buffer in between; a click that does nothing is a move, or
  nothing; answers to a page that was reloaded are dropped; `showFatalError` changes a
  label only, because the listener it removes was never added. A click by pointer comes
  with a sample (`pointerdown`, `widget.js:175`); one from the keyboard or an assistive
  tool comes without, so that a retry may post the very movement of the attempt before.

## 3. The runs

Each passing run answers one question; each of its properties fails when the slip
listed for it in `PROJECT.json` is put into the model.

| Run | Instance | Shows |
|---|---|---|
| `gate_promises` | 2 calls (right, wrong answer, wrong account), captcha, 1 replica, `Ttl` 1, `MaxTime` 2, 1 fault | late calls never verify; a rejected call never reaches the captcha provider; `VerificationLink` is implemented; calls return; successes are announced unless a call that passed the checks is broken off; a solved captcha counts unless the call that solved it is |
| `gate_clicks` | 3 calls (clicks, failing clicks, page loads), 2 replicas, no captcha, `MaxTime` 1, 1 fault; symmetric | an acknowledged link stays so on every replica; a replica publishes once unless a failed call popped the lock |
| `challenge_safety` | 3 guesses at one challenge, `MaxAttempts` 1, `MaxTime` 2, 1 fault | guesses judged on a live row are bounded; a gone challenge stays gone; passes are earned; a right answer is refused only for a challenge that is expired, has had more than its guesses, or was answered |
| `adaptive_decision` | 3 calls, 2 replicas, risky and clean addresses, 1 fault or crash; symmetric | what is shown is what counts, escalation is final while the link lasts, one challenge per replica, two calls alone publish once |
| `adaptive_promises` | 2 calls, 2 replicas, `MaxTime` 2, 1 fault or crash | `VerificationLink` again; every call is answered |
| `guard_promises` | one tab, 2 addresses, `MaxTime` 1, 2 changes of the world, receipts that are good, forged, of a foreign site, about somebody else or for another purpose | a verified visitor is not asked again; a flagged address is served only on proof from there or a trusted site's word; who solves gets in |
| `visitor_stores` | 3 calls or runs per store, levels 1 and 2, 2 addresses, one fingerprint, slow ttl 2, fast ttl 1, `MaxTime` 2, 1 fault, perhaps a row left expired; symmetric | a returned bump is remembered, and a yes to `is_trusted` is owed to the latest verification, unless calls overlapped, a fast write was lost or a lazy delete was late; replays after the recording are caught unless a lazy delete or a late `UPDATE` undid it; no refusal without a cause |
| `engine_safety` | lists of up to 3 signals, a corroborated and a conditional one over 2 children among them, 4 opinions and exceptions, both modes, 1 edit | the documented level; nobody is skipped or asked twice without a removal, or a `before`; no lone child escalates |
| `challenge_api` | 2 browsers, children `math`, `text` then `text` alone, 3 gets, 2 answers, `MaxAttempts` 1, 2 and 1 calls per 2 ticks, 1 tracked key | limiters accept exactly what the budget allows; tables hold the recent keys; a right answer counts whichever child issued |
| `session` | 1 page, a panel or a proof of work, 3 samples or clicks, one of which may be a click without a sample, fingerprints of 1 to 2, 1 wrong guess, 1 reload, 1 fault (a lost request, a crash, a callback that throws), a standing handler and one that comes and goes | green means verified and stays; a retry after a pointer sample is refused as a repeat only if its fingerprint is full; checking ends; the bot is told |

**Why these bounds are enough.** The races in this code need few actors: a holder,
a waiter and a newcomer of one lock (three calls); two replicas, since a third
shares nothing more; one link, challenge or fingerprint, since nothing is keyed by
two. `Ttl` 1 with `MaxTime` 2 reaches before, at and after `expires_at`, the three
cases the comparisons tell apart. One fault is enough to break any single pair of
steps. `MaxAttempts` 1 is the tightest limit. `visitor_stores` has the slow ttl
above the fast one, so that a fast entry expires first; three calls are two that race
over a row (one left expired, for the lazy delete) and one that looks. One tracked key
makes every call of the other browser an eviction; two of 2 calls a window and a half
reach empty, partly refilled and full buckets. Three inputs,
and fingerprints of 1 to 2 samples, reach movements that are too short, shorter than the
cap, at it and beyond, grown by a sample or by none between two attempts, and a buffer that
a reload has emptied; that the buffer slides when it is full, which they do not reach, is
covered by the proof. One page is enough for `Session`, because
pages meet at the gate only, whose races `CaptchaGate` has. Where a property is also proved, the bounds of
its run do not matter. `CHECK_DEADLOCK FALSE` is set throughout because every
instance ends: its calls are finite, and a system with no call left stops.

**Fairness.** `WF_vars(Run(t))` for each call: the event loop resumes every task
whose awaited operation is done, and operations end or raise. Nothing is assumed
of lock queues beyond that, and nobody is obliged to open a link, to fail, to
crash, or to let time pass. `Session` assumes, for each page, that its timers fire and its
GET is answered (`PageStep`), and that its POSTs, which are few, get on (`PostStep`): they
are served, and what is not lost arrives; and for each standing handler that the event loop
runs its task. It assumes nothing of the
visitor, so a page at rest may stay so, and nothing of the handlers that come and go. `PageGuard` adds that a visitor who did what a link
asked goes back to the page (`at = "back"`) or gives up, since `SolverGetsIn` is
about that visitor. `EveryCallReturns` counts a call that died with its replica as
over.

## 4. What is proved

Every invariant and every action property that a passing run checks is a theorem, for
all values of the constants. The proofs assume
what the `ASSUME`s of the modules say (a positive ttl; the fast tier's ttl is no longer
than the slow one's; `None` is no call, token, row or number; limits are positive; an
override is one of the levels; a fallback has a provider) and,
where a theorem has an `ASSUME` of its own, that. Each was first checked by TLC, and so
was the inductive invariant where it could be evaluated.

**`CaptchaGateProofs`.** `PublishOncePerReplica`
says nothing of the locks, so `IInv` needs: `HeldLock` (whoever is inside holds the
object it got), `RegisteredLock` (while a link is open and no call of the replica
has failed or raised, everyone inside or waiting is on the *registered* object:
this is what a failing call's pop destroys, hence the `Disturbed` exception), and
`OneCandidate` (so at most one call gets past the re-read). `Settled` says that
what a call has read of a closed link stays true, as no step reopens one;
`AckedStopsEarly` and `InTime` carry that to later and to late calls;
`RejectedCallSparesAnswer` is inductive as it stands; `Finished` and `Created` are
bookkeeping.

- `TypeCorrect`, `PublishesOnce`, `AckedIsFinal`, `LateCallsFail`, `AnswersAreSpared`:
  the invariants of the runs.
- `ImplementsLink`: the gate implements `VerificationLink`. The map reads a row as
  open or verified, and its absence as "not yet" or "gone" by whether the link was
  ever created; most steps stutter. `Settled` is what makes every "verified" or
  "unknown" answer a legal one.
- `NobodyWaitsForTheGone`: a call that waits does so for a lock that is free, or is
  held by a live call of its replica at work on the same link. This is the safety half of
  `EveryCallReturns`: the woken task and the holder that never gives up its lock are
  where an answer could get lost. Its invariant `WaitInv` adds to `IInv` where locks come
  from (`Origins`: whoever has a lock shares link and replica with its creator, so that
  locks never mix calls of two links) and `LeftBehind`: what a dead replica's calls held
  is in nobody else's hands.

**`AdaptiveGateProofs`.** The lock alone does not make the decision unique, since
`get_info` pops it for whoever waits, and neither does the store, since two replicas may
both find nothing. `IInv` joins the two: `RegisteredLock` holds until a decision is
stored, `Kept` says that a stored decision stays while the link is open and that
everyone who goes by one goes by that one, `OneIssuer` and `OneCandidate` count what
gets through, and `Earned` and `Escalated` follow an escalation from the screen to the
solved captcha.

- `ShowsWhatCounts`, `EscalationHolds`: under `~ Overwrites`, the SQL store. The
  in-memory one breaks both (section 5).
- `IssuesOnce`: with either store, but `Overwrites => ~ Crashes`, because a crash takes
  the in-memory decisions along.
- `PublishesTwiceOnlyWithHelp`, `TypeCorrect`; `ImplementsLink` and
  `NobodyWaitsForTheGone`, as for the other gate, with the page loads that wait for
  the same lock and pop it.
- *What the proof found.* `EscalationIsFinal` used to promise more: never again. The
  induction failed at `mark_verified`, with good reason. A `verify` passes its re-read
  (`adaptive.py:546`); the link lapses; another call deletes row and decision; the first
  one finds no decision, assesses a clean address, asks for no captcha, and
  `mark_verified` says nothing of a row that is gone (`sql.py:311`), so the event is
  published. `adaptive_decision` stops the clock, so TLC had not met it; with 3 calls on
  one replica and `MaxTime = 2` it does. The property now excepts a link that has lapsed.

**`PendingChallengeProofs`.** `ColumnCounts`: the attempts column of a live row is
the number of guesses whose `UPDATE` found it. Hence `LiveAreFew`: those that read
back a real number at most `max_attempts` are at most that many. `Witnessed`,
`LateStopsEarly` and `Earned` say what a guess knows at each step, and `Caused` that a row
goes only for one of the causes in `Spent`, as does a guess that is about to delete it or to
be refused. `GuessesBounded`,
`GoneIsGone`, `PassesAreEarned`, `RightAnswersCount` and `TypeCorrect` follow.

**`VisitorStoresProofs`.** One invariant per store, each of the form "types, roles, and,
as long as no excuse has occurred, what is kept". For running risk, `RiskAlone` (without
an overlap, bumps run one after the other), `RiskStored` (what was written is in the
database until its ttl is over), `RiskDecided` (what a bump wants to write, and what it
writes over) and `RiskFast` (the fast tier lags only while a bump is between the two).
For trust, `TrustLast` and `TrustFront` name the call that wrote each tier last, and
`NewestStands` gives remembering an argument of its own that tolerates overlaps which the
newest call is no part of. For movements, `RecordedBySomeRun` and `RecordsStay`.

- `RemembersLevels`, `HidesNoLevel`, `TrustsOnlyTheCurrent`, `RemembersTrust`,
  `RefusesOnlyTheRecent`, `CatchesReplays` (an action property), and `TypeCorrect` for
  the three. So the three named excuses are all there are.

**`ChallengeApiProofs`.** `BucketOK`: a bucket holds what the tightest of the windows
that begin with an accepted call leaves, or is full. This is preserved by time, by a
refusal and by an accepted call, and `LimitersAreExact` is a reading of it.
`QueueOK`: for each tracked key, those checked since it was are exactly those behind it
in the queue, and each untracked key either was never checked or has been followed by at
least `max_tracked_keys` others; hence `TablesStayRecent`. That a refused key is tracked
needs `BucketOK` again: an untracked one is full. `RoutingInv` ties the prefix of every
shown challenge to the record its id has; hence `AnswersAreRouted`, for the child that
keeps its place. `AnswersAreAlwaysRouted` is the docstring itself, under `OnlyAppended`:
redeployments add children at the end. `Listed` then says that an issuer never loses its
place; without the assumption it does (section 5).
`MovedToEnd` was rewritten for this with the library's `RemoveFirst`, which says what
`pop(key)` does without a test as a parameter.

**`RiskEngineProofs`.** `WalkInv` places what was asked and what was there all along
relative to the iterator's index: without a removal nothing moves back under it, without
an insertion before another signal nothing is pushed ahead. `WalksFairly` follows.
`VoiceInv` adds that, with one voice, the override and both sums are that voice's or
empty; `LoneFlagsStayBelowHigh` then is arithmetic about one child in several. It assumes
that the highest threshold is above one half (it is 0.75 by default,
`risk.py`): with two children, one that flags is half of them.
`LevelIsMapped` says that the code's scan of the thresholds finds the level whose
threshold is met while no higher one's is: `AssessedAsDocumented` names the level that way,
without the scan. For `AssessesAsDocumented`, `TallyInv` says of an assessment without an edit that those
asked so far are a prefix of the list, and that the override and both sums are what that
prefix amounts to. The documented average is a fold over a set. That it grows by the
weight of the signal just asked is shown on a smallest set for which it would not, by
the well-founded order of strict subsets, since the induction theorems of the library
cannot be instantiated here.

- `WalksFairly`, `LoneFlagsStayBelowHigh`, `AssessesAsDocumented`, `TypeCorrect`.
- `OverridesWinUnlessRemoved` and `SharesStayBelowAgreement` say where two sentences of
  the docstrings that section 5 refutes are true: an override wins unless a signal was
  removed meanwhile; a fraction below agreement is below 1.0 unless more children must
  agree than are enabled.

**`PageGuardProofs`.** `GuardInv`: the cookie, and the id every step of a page load goes
by, are one visitor's, and the trust store has that visitor's last verification. `Held`
adds that a load whose reputation is looked up got there on a receipt or on trust earned
at its address.

- `TypeCorrect` holds for any number of tabs and visitors. `Minted` keeps the ids of
  cookies apart from those of accounts.
- `VerifiedVisitorsPass` assumes a trust store, and `OneVisitor`: a signed-in visitor
  or a single tab. Two tabs of a first visit mint two cookies (section 5).
- `FlaggedPassOnProof` assumes a single tab. A signed-in visitor's other tab may verify
  at another address while the first revalidates its trust, and the page is then served
  on a verification that is no longer the latest.

**`SessionProofs`.** `Truthful`: green pages and good answers under way mean a verified
link. `Waiting`: a page waits for at most one request of its present load. `Behind`: no
short movement that was posted reaches past the samples its page has frozen, so that by
`Fresh` a request that is still to be judged has a movement nobody has recorded, unless it
is full or the page is `still` (no sample came between the last two attempts). `Judged`
keeps that for the answers. For the action
property, `PagesInv`: a page that is green, and had its info in time, is busy, knows it is
verified, and has no request or timer under way that could turn it.

- `GreenTellsTheTruth`, `MovedRetriesAreJudged`, `GreenForGood`.
- The theorem on retries used to say that no short movement is ever taken for a repeat.
  That rests on every attempt having a sample of its own, which the panel's button does not
  give: Enter on it posts the movement of the attempt before once more.

**Only model-checked**: the liveness properties (`EveryCallReturns`,
`SuccessIsAnnounced`, `SolvedAnswerCounts`, `SolverGetsIn`, `CheckingEnds`,
`BotIsTold`), since the provers have no fairness or `ENABLED` reasoning. Of
`EveryCallReturns`, `NobodyWaitsForTheGone` is proved: what is left to TLC is that a call
which can go on does, and does so finitely often.

## 5. Where the code and its documentation disagree

Two runs are expected to find a violation, and are listed as findings:

- `adaptive_publish_twice`. `verify`'s docstring has two concurrent calls not "both
  publish `captcha_verified`" (`adaptive.py:529`), and the pop is called "safe under
  real concurrency" (`adaptive.py:273`). A page load takes the same lock, and pops it
  when done (`adaptive.py:668`): a verification that waits on the popped lock and one
  that makes a new lock overlap, without any failure, and both publish.
- `challenge_extra_guess`. "A bounded number of guesses" (`_shared.py:30`): the
  read-back returns 0 once another guess has deleted the row (`sql.py:247`), and the
  guess over the limit is judged.

The other configurations in this directory reproduce more of them; run
`tlc -config X.cfg M` to see the trace, with the `MC` module of the component, or the
component's own for `replay_conflict` (`ReplayGuard`), `risk_*` (`RunningRisk`),
`trust_*` (`TrustStore`) and `session` (`Session`). Where several properties stand in a row of
the table, the later ones are to be put in the place of the configuration's own. They
are kept beside the code as reminders rather than run as a matter of course.

| Configuration, property | What happens |
|---|---|
| `gate_publish_twice`, `PublishedAtMostOnce` | As above for `CaptchaGate`: a call that fails its checks pops the lock others wait on (`gate.py:271`), though `gate.py:99-105` calls that safe. |
| `gate_lost_event`, `SuccessIsAlwaysAnnounced` | A failure between `mark_verified` and `publish` (`gate.py:255`): later calls return early and nobody publishes. |
| `challenge_used_twice`, `OneTimeUse` | Two overlapping right answers both pass; "one-time use, no replay" (`_shared.py:33`). |
| `adaptive_stale_info`, `DecisionNeverChanges` | `get_info` goes on with a row read before it waited (`adaptive.py:494`) and decides again after the decision was deleted. |
| `adaptive_memory_clobber`, `ShownIsCurrent` | The default in-memory decision store overwrites (`adaptive.py:102`): with two locks, the challenge on a screen is replaced. |
| `risk_lost_bump`, `NeverLowered` | "Never lower it" (`risk.py:620`): overlapping bumps read, take the maximum and write an absolute value (`sql.py:620`). |
| `risk_stale_fast`, `FastTierIsDisposable` | A swallowed fast write leaves a lower level in front (`tiered.py:137`); "never a correctness problem" (`tiered.py:17`). |
| the same, `LazyDeleteIsHarmless` | A reader's lazy delete removes a row a bump renewed (`sql.py:603`). |
| `trust_stale_fast`, `FastTierIsDisposable` | The same swallowed write of a trust entry (`tiered.py:90`): the address trusted before stays trusted. |
| the same, `OverlapIsHarmless` | "Multi-process-safe" (`sql.py:507`): the `UPDATE`s of two overlapping `trust()` calls leave one's address with the other's time. |
| the same, `TrustIsRemembered` | The lazy delete again (`sql.py:524`). |
| `replay_conflict`, `ConflictMeansRow` | "IntegrityError implies the row now exists" (`sql.py:72`): a lazy delete comes between, and the assertion raises inside a verification. |
| the same, `CaughtDespiteStaleDelete` | The lazy delete of a fingerprint (`sql.py:369`). |
| `guard_asked_twice`, `VerifiedNotAskedAgain` | Two tabs of a first visit mint two cookies (`pageguard.py:172`). |
| `guard_no_captcha`, `RedirectMeansCaptcha` | `extra_suspicious` or `min_level` redirects to a link that asks for no captcha (`pageguard.py:212`). |
| `guard_ignores_risk`, `RiskReachesEveryLoad` | A trusted visitor's running risk is not looked at (`pageguard.py:177`); the package's README, lines 243-249, says "every subsequent" call. |
| `guard_never_in`, `SolverGetsIn` | Without a trust store, the default, a visitor of a flagged address is redirected after every completed link (`adaptive.py:595`). |
| `engine_skips_override`, `OverrideWins` | `remove_signal` of a signal already passed shifts the list under the iterator (`risk.py:210`); the next one, an override, is never asked. Proved for assessments without a removal. |
| `engine_safety` with `MinAgreements = 2`, `ShareStaysBelowAgreement` | The fraction is "always strictly below" 1.0 without agreement (`risk.py:384-388`): with one child enabled of two required, it is 1.0. Proved for all other agreements. |
| `challenge_api`, `AlwaysRoutedBack` | "`verify()` always routes back to the right one" (`providers/fallback.py:21-22`): after a redeployment the index names another child. Proved where redeployments only append. |
| `challenge_api`, `FallbackIsInvisible` | "Invisible past the moment of choosing" (`providers/fallback.py:45`): a page that posts the kind its challenge carries is not answered by the composite. |
| `session`, `GreenStaysGreenLate` | "Once it's green, it stays green" (`widget.js:460`): a GET slower than the POST calls the page back a second time, and the timer of a failure clears a box that the GET turned green. |
| `session`, `GenuineRetryIsJudged` | Re-armed "so a genuine retry" is possible (`widget.js:481`): samples are kept across the failure, and the first 200 are those `RepeatedMovementCheck` has recorded; a retry by keyboard adds none at all (`widget.js:174-175`, `272-277`), and posts the same movement however short it is. |

Also met while reading: `bind_trust_to_ip` does not bind a receipt, which speaks for
the browser at any address until it lapses; the HTTP API passes no receipt to the
gate (`api.py:247`, `267`), so that only `require_human` and direct callers honour one;
the passive-signal endpoint bumps the level that
`assess_risk` returns, which includes the running floor itself
(`pageguard.py:329-338`), so that harmless beacon posts renew a raised level;
`CorroboratedRiskSignal`'s docstring leaves abstainers out of the denominator
(`risk.py:346-352`), the code counts them, and `NoLoneEscalation` depends on that;
`ConditionalRiskSignal` does not look at the `enabled` of its two children; a lost
`fetch`, or a page callback that throws on a failure before the timer is set
(`widget.js:479`), leaves the widget busy for good, which `CheckingEnds` excuses.

A property that excuses a failure says what holds without it, and its hazard in
`PROJECT.json` has a note that says so and names the configuration that shows the failure.

## 6. What is not modelled, and why

- The rate limit of the passive-signal endpoint: a refused report is one that does not
  happen. The bytes of a receipt and its `issued_at`, which nothing looks at.
- Trust is atomic in `PageGuard`: `TrustStore` has its inside. What an in-memory store
  loses at a restart is modelled only for decisions.
- A decision row that outlives its link (`sql.py:478`) is deleted by nobody: storage, of
  which the code promises nothing.
- Third-party providers: one HTTP request each. Image drawing, path geometry, proof
  of work, signal heuristics and scoring are data: the models see "right", "risky".
- `fingerprint_trajectory` and encryption of answers: data.
- FastAPI routing, presets and exports: no state of their own. The gate's endpoints
  appear as the arrival of calls (`Arrive`, `Submit`), and in `Session` with a limiter
  that may refuse any request: the models of the gates start past it.
- `max_calls = 0` of a limiter (refuses everything, evicts nothing), and the default
  verify limiter's one table for addresses and tokens.
- `check_pending_challenge` does not look at the kind of a challenge; `ChallengeApi`
  lets a verifier of another kind do anything with it.
- Touch and pen input, drawing and labels of the widget; the beacon's timers; a click by
  assistive tool on a box that a proof of work has locked for the pointer.
- In `Session`: other events than `captcha_verified`, and how often handlers that come and
  go are run (`handled` counts the standing ones). That handlers fail and are logged is part
  of `RunHandler`.
- A ttl of less than a second in Redis, where the code deletes the key instead
  of storing it (`redis_store.py:66`, `98-100`): ttls are at least one tick.

## 7. The plan

Order of work, the most important first:

1. *(done)* `VerificationLink`, `CaptchaGate`, `PendingChallenge`, with proofs;
   `AdaptiveGate`, `RunningRisk`, `ReplayGuard`, `PageGuard`, `RiskEngine`.
2. *(done)* `TrustStore` and `VisitorStores`; `CompositeSignals` in `RiskEngine`;
   `TokenBucket` and `ChallengeApi`; `Widget`, `Transport` and `Session`.
   `TrustReceipts` in `PageGuard`.
3. *(done)* Proofs of the safety and action properties of all runs: `AdaptiveGate`,
   `VisitorStores`, `ChallengeApi`, `RiskEngine`, `PageGuard`, `Session`.
4. *(done)* Proofs of `AssessedAsDocumented`, of `TypeOK` in `RiskEngine` and
   `PageGuard`, of the safety half of `EveryCallReturns` in both gates, and of the
   conditions under which three refuted sentences of the docstrings hold.
