---------------------------- MODULE RunningRisk ----------------------------
(***************************************************************************)
(* The running risk level of one visitor: sql.py's SQLRunningRiskStore,    *)
(* alone or as the slow tier of tiered.py's TieredRunningRiskStore with    *)
(* redis_store.py's RedisRunningRiskStore in front.  Any number of web     *)
(* processes bump and read it at once.  Each database transaction and each *)
(* Redis command is a step.  The SQL rows are read and written at READ     *)
(* COMMITTED, and the ORM's UPDATE names only the columns whose value      *)
(* differs from the one it read.                                           *)
(***************************************************************************)
EXTENDS Naturals

CONSTANTS
    Calls,      \* calls of bump() and get()
    Levels,     \* the RiskLevels that are reported
    None,       \* no row, no key, no level
    Tiered,     \* a TieredRunningRiskStore, or the SQL store alone
    Ttl,        \* running_risk_ttl, in clock ticks
    FastTtl,    \* min(running_risk_ttl, fast_ttl_cap)
    MaxTime,    \* bound on the clock
    MaxFaults   \* bound on failed operations

RiskAssumption ==
    /\ Levels \subseteq Nat
    /\ None \notin Nat \union [level: Nat, until: Nat]
    /\ Tiered \in BOOLEAN
    /\ Ttl \in Nat \ {0}
    /\ FastTtl \in 1..Ttl
    /\ MaxTime \in Nat
    /\ MaxFaults \in Nat

VARIABLES
    now,        \* datetime.now(UTC), and the clock of Redis
    slow,       \* the visitor's row in wac_captcha_running_risk
    fast,       \* the visitor's key in Redis
    args,       \* what each call is: a bump of a level, or a get; and what came before
    pc,         \* where each call is
    want,       \* the level each bump was given, merged with get's in a tiered one
    put,        \* the level its SQL or Redis bump is about to write
    seen,       \* the level of the row it is about to update
    until,      \* expires_at as computed by each bump
    result,     \* what a finished call returned
    faults,
    excuses     \* what happened so far that can make the stores forget

callVars == <<args, pc, want, put, seen, until, result>>
vars == <<now, slow, fast, callVars, faults, excuses>>

Entry == [level: Levels, until: Nat]
PCs == {"idle", "fastget", "slowget", "slowdel", "slowread", "slowclear", "slowinsert",
        "slowreget", "slowupdate", "fastread", "fastset", "done", "error"}
Causes == {"overlap", "fast write", "stale delete"}

NoArgs == [bump |-> None, known |-> {}]
IsBump(c) == args[c].bump # None
UnderWay(c) == pc[c] \notin {"idle", "done", "error"}

Higher(a, b) == IF a = None \/ a < b THEN b ELSE a
Alive(entry) == entry # None /\ entry.until > now

\* There may be an expired row, left by a visit of long ago.
Init ==
    /\ now = 0
    /\ slow \in {None} \union [level: Levels, until: {0}]
    /\ fast = None
    /\ args = [c \in Calls |-> NoArgs]
    /\ pc = [c \in Calls |-> "idle"]
    /\ want = [c \in Calls |-> None]
    /\ put = [c \in Calls |-> None]
    /\ seen = [c \in Calls |-> None]
    /\ until = [c \in Calls |-> 0]
    /\ result = [c \in Calls |-> None]
    /\ faults = 0
    /\ excuses = {}

-----------------------------------------------------------------------------
\* The definitions named ..._Mut are broken variants of the definition that follows
\* them, each a slip somebody could make in that code; the properties below are
\* checked to catch them.

Goto(c, next) == pc' = [pc EXCEPT ![c] = next]

Finish(c, level) ==
    /\ Goto(c, "done")
    /\ result' = [result EXCEPT ![c] = level]

\* get() or bump(level): `known`, the bumps that have returned by now.
Start(c, level) ==
    /\ pc[c] = "idle"
    /\ args' = [args EXCEPT ![c] =
         [bump |-> level, known |-> {b \in Calls : IsBump(b) /\ pc[b] = "done"}]]
    /\ want' = [want EXCEPT ![c] = level]
    /\ Goto(c, IF Tiered THEN "fastget" ELSE IF level = None THEN "slowget" ELSE "slowread")
    /\ excuses' = IF level # None /\ \E b \in Calls : IsBump(b) /\ UnderWay(b)
                  THEN excuses \union {"overlap"} ELSE excuses
    /\ UNCHANGED <<now, slow, fast, put, seen, until, result, faults>>

Known_MutVerbatim(c, level) ==
    IF IsBump(c)
    THEN /\ Goto(c, "slowread")
         /\ UNCHANGED <<want, result>>
    ELSE Finish(c, level) /\ UNCHANGED want

\* The level a get has found: a get returns it, a tiered bump merges it with its own.
Known(c, level) ==
    IF IsBump(c)
    THEN /\ want' = [want EXCEPT ![c] = Higher(level, @)]
         /\ Goto(c, "slowread")
         /\ UNCHANGED result
    ELSE Finish(c, level) /\ UNCHANGED want

\* TieredRunningRiskStore.get: fast.get, then slow.get on a miss.
FastGet(c) ==
    /\ pc[c] = "fastget"
    /\ IF Alive(fast)
       THEN Known(c, fast.level)
       ELSE Goto(c, "slowget") /\ UNCHANGED <<want, result>>
    /\ UNCHANGED <<now, slow, fast, args, put, seen, until, faults, excuses>>

\* SQLRunningRiskStore.get.
SlowGet(c) ==
    /\ pc[c] = "slowget"
    /\ \/ slow = None /\ Known(c, None)
       \/ Alive(slow) /\ Known(c, slow.level)
       \/ slow # None /\ ~ Alive(slow) /\ Goto(c, "slowdel") /\ UNCHANGED <<want, result>>
    /\ UNCHANGED <<now, slow, fast, args, put, seen, until, faults, excuses>>

\* The lazy DELETE of the row found expired, by primary key: in get, and in bump.
SlowDelete(c) ==
    /\ \/ pc[c] = "slowdel" /\ Known(c, None)
       \/ pc[c] = "slowclear" /\ Goto(c, "slowinsert") /\ UNCHANGED <<want, result>>
    /\ slow' = None
    /\ excuses' = IF Alive(slow) THEN excuses \union {"stale delete"} ELSE excuses
    /\ UNCHANGED <<now, fast, args, put, seen, until, faults>>

-----------------------------------------------------------------------------
\* SQLRunningRiskStore.bump: read the row, then merge the level with it.
SlowRead(c) ==
    /\ pc[c] = "slowread"
    /\ until' = [until EXCEPT ![c] = now + Ttl]
    /\ put' = [put EXCEPT ![c] = IF Alive(slow) THEN Higher(slow.level, want[c]) ELSE want[c]]
    /\ \/ slow = None /\ Goto(c, "slowinsert") /\ UNCHANGED seen
       \/ slow # None /\ ~ Alive(slow) /\ Goto(c, "slowclear") /\ UNCHANGED seen
       \/ Alive(slow) /\ Goto(c, "slowupdate") /\ seen' = [seen EXCEPT ![c] = slow.level]
    /\ UNCHANGED <<now, slow, fast, args, want, result, faults, excuses>>

\* What follows a committed write to the slow tier.
Written(c) ==
    IF Tiered THEN Goto(c, "fastread") /\ UNCHANGED result ELSE Finish(c, put[c])

SlowUpdate_MutNoMerge(c) ==
    /\ pc[c] = "slowupdate"
    /\ slow # None
    /\ slow' = [level |-> args[c].bump, until |-> until[c]]
    /\ Written(c)
    /\ UNCHANGED <<now, fast, args, want, put, seen, until, faults, excuses>>

\* The UPDATE of the row read before: the level only if it differs from the one
\* read; an error if the row is gone (StaleDataError).
SlowUpdate(c) ==
    /\ pc[c] = "slowupdate"
    /\ \/ slow = None /\ Goto(c, "error") /\ UNCHANGED <<slow, result>>
       \/ /\ slow # None
          /\ slow' = [level |-> IF put[c] = seen[c] THEN slow.level ELSE put[c],
                      until |-> until[c]]
          /\ Written(c)
    /\ UNCHANGED <<now, fast, args, want, put, seen, until, faults, excuses>>

\* _commit_upsert of a new row: the INSERT, or a rollback if there is one by now.
SlowInsert(c) ==
    /\ pc[c] = "slowinsert"
    /\ IF slow = None
       THEN slow' = [level |-> put[c], until |-> until[c]] /\ Written(c)
       ELSE Goto(c, "slowreget") /\ UNCHANGED <<slow, result>>
    /\ UNCHANGED <<now, fast, args, want, put, seen, until, faults, excuses>>

\* ... after which apply_fields writes this bump's level over the existing row.
SlowReget(c) ==
    /\ pc[c] = "slowreget"
    /\ IF slow = None
       THEN Goto(c, "error") /\ UNCHANGED seen
       ELSE Goto(c, "slowupdate") /\ seen' = [seen EXCEPT ![c] = slow.level]
    /\ UNCHANGED <<now, slow, fast, args, want, put, until, result, faults, excuses>>

-----------------------------------------------------------------------------
\* RedisRunningRiskStore.bump: GET, then SET ... EX.  A tiered bump returns the
\* level it computed itself, not what either store made of it.
FastRead(c) ==
    /\ pc[c] = "fastread"
    /\ put' = [put EXCEPT ![c] = IF Alive(fast) THEN Higher(fast.level, want[c]) ELSE want[c]]
    /\ Goto(c, "fastset")
    /\ UNCHANGED <<now, slow, fast, args, want, seen, until, result, faults, excuses>>

FastSet_MutOwnLevel(c) ==
    /\ pc[c] = "fastset"
    /\ fast' = [level |-> args[c].bump, until |-> now + FastTtl]
    /\ Finish(c, want[c])
    /\ UNCHANGED <<now, slow, args, want, put, seen, until, faults, excuses>>

FastSet(c) ==
    /\ pc[c] = "fastset"
    /\ fast' = [level |-> put[c], until |-> now + FastTtl]
    /\ Finish(c, want[c])
    /\ UNCHANGED <<now, slow, args, want, put, seen, until, faults, excuses>>

\* A Redis command fails: a read counts as a miss, a failed write is swallowed and
\* the bump returns as if it had been done.
FastFault(c) ==
    /\ faults < MaxFaults
    /\ faults' = faults + 1
    /\ \/ pc[c] = "fastget" /\ Goto(c, "slowget") /\ UNCHANGED <<result, excuses>>
       \/ /\ pc[c] \in {"fastread", "fastset"}
          /\ Finish(c, want[c])
          /\ excuses' = excuses \union {"fast write"}
    /\ UNCHANGED <<now, slow, fast, args, want, put, seen, until>>

\* A database operation fails: the call raises.
SlowFault(c) ==
    /\ faults < MaxFaults
    /\ faults' = faults + 1
    /\ pc[c] \in {"slowget", "slowdel", "slowread", "slowclear", "slowinsert", "slowreget",
                  "slowupdate"}
    /\ Goto(c, "error")
    /\ UNCHANGED <<now, slow, fast, args, want, put, seen, until, result, excuses>>

\* SQLRunningRiskStore.purge_expired, run by the deployment's own scheduler.
PurgeExpired ==
    /\ slow # None
    /\ ~ Alive(slow)
    /\ slow' = None
    /\ UNCHANGED <<now, fast, callVars, faults, excuses>>

Tick ==
    /\ now < MaxTime
    /\ now' = now + 1
    /\ UNCHANGED <<slow, fast, callVars, faults, excuses>>

Run(c) ==
    \/ FastGet(c) \/ SlowGet(c) \/ SlowDelete(c)
    \/ SlowRead(c) \/ SlowUpdate(c) \/ SlowInsert(c) \/ SlowReget(c)
    \/ FastRead(c) \/ FastSet(c)

Next ==
    \/ \E c \in Calls, level \in Levels \union {None} : Start(c, level)
    \/ \E c \in Calls : Run(c)
    \/ \E c \in Calls : FastFault(c) \/ SlowFault(c)
    \/ PurgeExpired
    \/ Tick

Spec == Init /\ [][Next]_vars

-----------------------------------------------------------------------------
(* Properties *)

MaybeLevel == Levels \union {None}

TypeOK ==
    /\ now \in Nat
    /\ slow \in Entry \union {None}
    /\ fast \in Entry \union {None}
    /\ args \in [Calls -> [bump: MaybeLevel, known: SUBSET Calls]]
    /\ pc \in [Calls -> PCs]
    /\ want \in [Calls -> MaybeLevel]
    /\ put \in [Calls -> MaybeLevel]
    /\ seen \in [Calls -> MaybeLevel]
    /\ until \in [Calls -> Nat]
    /\ result \in [Calls -> MaybeLevel]
    /\ faults \in Nat
    /\ excuses \in SUBSET Causes

\* RunningRiskStore's docstring: "bump() can only ever raise a visitor's remembered
\* level within ttl of the last update, never lower it".  (The code does not keep
\* this under concurrent bumps.)
NeverLowered ==
    [][Alive(slow) /\ slow' # None => slow'.level >= slow.level]_vars

\* Seen by the callers: a call that returns after starting later than the return
\* of a bump is told at least that bump's level, until the bump's ttl is over.
Remembered ==
    \A c \in Calls : pc[c] = "done" =>
        \A b \in args[c].known : until[b] > now =>
            result[c] # None /\ result[c] >= args[b].bump

\* The stores remember what they should, unless bumps overlapped, a write to the
\* fast tier was lost, or a lazy delete hit a row that had just been renewed; each
\* of the three can make them forget, and nothing else can.
RememberedUnlessExcused == excuses = {} => Remembered

\* tiered.py: losing a fast-tier operation is "never a correctness problem".  (The
\* code does not keep this: a stale lower level stays in front.)
FastTierIsDisposable == excuses \subseteq {"fast write"} => Remembered

\* RunningRiskStore's docstring again, with bumps that never overlap.  (The code
\* does not keep this: a reader's lazy delete can remove the level of a later bump.)
LazyDeleteIsHarmless == excuses \subseteq {"stale delete"} => Remembered

\* Without those mishaps the fast tier hides nothing: between bumps it holds no
\* lower level than the slow tier.
FastHidesNothing ==
    excuses = {} /\ (\A c \in Calls : IsBump(c) => pc[c] = "done") =>
        (Alive(slow) /\ Alive(fast) => fast.level >= slow.level)
=============================================================================
