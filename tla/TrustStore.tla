---------------------------- MODULE TrustStore ----------------------------
(***************************************************************************)
(* Whether one visitor is trusted: sql.py's SQLTrustStore, alone or as the *)
(* slow tier of tiered.py's TieredTrustStore with redis_store.py's         *)
(* RedisTrustStore in front.  Verifications on any number of web processes *)
(* trust the visitor while page loads ask.  Each database transaction and  *)
(* each Redis command is a step; rows are read and written at READ         *)
(* COMMITTED, and the ORM's UPDATE names only the columns whose value      *)
(* differs from the one it read.                                           *)
(***************************************************************************)
EXTENDS Naturals

CONSTANTS
    Calls,      \* calls of trust() and is_trusted()
    Ips,        \* the values of ip= that callers pass: addresses, and perhaps None
    None,       \* no address, no row, no key
    Tiered,     \* a TieredTrustStore, or the SQL store alone
    Ttl,        \* trust_ttl, in clock ticks
    FastTtl,    \* _expire_seconds(min(trust_ttl, fast_ttl_cap)), 0 for its None
    MaxTime,    \* bound on the clock
    MaxFaults   \* bound on failed operations

TrustAssumption ==
    /\ None \notin [ip: Ips, until: Nat]
    /\ Tiered \in BOOLEAN
    /\ Ttl \in Nat \ {0}
    /\ FastTtl \in 0..Ttl
    /\ MaxTime \in Nat
    /\ MaxFaults \in Nat

VARIABLES
    now,        \* datetime.now(UTC), and the clock of Redis
    slow,       \* the visitor's row in wac_captcha_trust
    fast,       \* the visitor's key in Redis
    args,       \* what each call is: its kind, its ip=, and the trust() calls returned before
    pc,         \* where each call is
    seen,       \* the bound_ip of the row a trust() is about to update
    span,       \* the clock when each call started, and when it ended
    answer,     \* what a finished is_trusted() returned
    faults,
    excuses     \* what happened so far that can make the stores wrong

callVars == <<args, pc, seen, span, answer>>
vars == <<now, slow, fast, callVars, faults, excuses>>

Entry == [ip: Ips, until: Nat]
PCs == {"idle", "fastask", "slowask", "slowdel", "slowread", "slowinsert", "slowreget",
        "slowupdate", "fastset", "done", "error"}
Causes == {"overlap", "fast write", "stale delete"}

NoArgs == [kind |-> "none", ip |-> None, known |-> {}]
Trusts == {c \in Calls : args[c].kind = "trust"}
\* trusted_until of a trust(), computed when it starts.
Until(c) == span[c].start + Ttl

UnderWay(c) == pc[c] \notin {"idle", "done", "error"}

\* There may be an expired row, left by a verification of long ago.
Init ==
    /\ now = 0
    /\ slow \in {None} \union [ip: Ips, until: {0}]
    /\ fast = None
    /\ args = [c \in Calls |-> NoArgs]
    /\ pc = [c \in Calls |-> "idle"]
    /\ seen = [c \in Calls |-> None]
    /\ span = [c \in Calls |-> [start |-> 0, end |-> 0]]
    /\ answer = [c \in Calls |-> FALSE]
    /\ faults = 0
    /\ excuses = {}

-----------------------------------------------------------------------------
\* The definitions named ..._Mut are broken variants of the definition that follows
\* them, each a slip somebody could make in that code; the properties below are
\* checked to catch them.

Goto(c, next) == pc' = [pc EXCEPT ![c] = next]

Alive(entry) == entry # None /\ entry.until > now

\* A caller, or a trust() of any address, that does not bind passes for every address.
Matches(ip, bound) == ip = None \/ bound = None \/ ip = bound

\* The call ends, as "done" or as "error".
End(c, how) ==
    /\ Goto(c, how)
    /\ span' = [span EXCEPT ![c].end = now]

Answer(c, trusted) ==
    /\ End(c, "done")
    /\ answer' = [answer EXCEPT ![c] = trusted]

\* trust() or is_trusted(): `known`, the trust() calls that have returned by now.
Start(c, kind, ip) ==
    /\ pc[c] = "idle"
    /\ args' = [args EXCEPT ![c] =
         [kind |-> kind, ip |-> ip, known |-> {b \in Trusts : pc[b] = "done"}]]
    /\ span' = [span EXCEPT ![c].start = now]
    /\ Goto(c, IF kind = "trust" THEN "slowread" ELSE IF Tiered THEN "fastask" ELSE "slowask")
    /\ excuses' = IF kind = "trust" /\ \E b \in Trusts : UnderWay(b)
                  THEN excuses \union {"overlap"} ELSE excuses
    /\ UNCHANGED <<now, slow, fast, seen, answer, faults>>

-----------------------------------------------------------------------------
\* TieredTrustStore.is_trusted: a yes of the fast tier is final, a no is not.
FastAsk(c) ==
    /\ pc[c] = "fastask"
    /\ IF Alive(fast) /\ Matches(args[c].ip, fast.ip)
       THEN Answer(c, TRUE)
       ELSE Goto(c, "slowask") /\ UNCHANGED <<span, answer>>
    /\ UNCHANGED <<now, slow, fast, args, seen, faults, excuses>>

\* SQLTrustStore.is_trusted.
SlowAsk(c) ==
    /\ pc[c] = "slowask"
    /\ IF slow # None /\ ~ Alive(slow)
       THEN Goto(c, "slowdel") /\ UNCHANGED <<span, answer>>
       ELSE Answer(c, slow # None /\ Matches(args[c].ip, slow.ip))
    /\ UNCHANGED <<now, slow, fast, args, seen, faults, excuses>>

\* The lazy DELETE of the row found expired, by primary key.
SlowDelete(c) ==
    /\ pc[c] = "slowdel"
    /\ slow' = None
    /\ Answer(c, FALSE)
    /\ excuses' = IF Alive(slow) THEN excuses \union {"stale delete"} ELSE excuses
    /\ UNCHANGED <<now, fast, args, seen, faults>>

-----------------------------------------------------------------------------
\* SQLTrustStore.trust: read the row ...
SlowRead(c) ==
    /\ pc[c] = "slowread"
    /\ IF slow = None
       THEN Goto(c, "slowinsert") /\ UNCHANGED seen
       ELSE Goto(c, "slowupdate") /\ seen' = [seen EXCEPT ![c] = slow.ip]
    /\ UNCHANGED <<now, slow, fast, args, span, answer, faults, excuses>>

\* What follows a committed write to the slow tier.
Written(c) ==
    IF Tiered THEN Goto(c, "fastset") /\ UNCHANGED span ELSE End(c, "done")

SlowUpdate_MutFirstWins(c) ==
    /\ pc[c] = "slowupdate"
    /\ Written(c)
    /\ UNCHANGED <<now, slow, fast, args, seen, answer, faults, excuses>>

SlowUpdate_MutKeepsAddress(c) ==
    /\ pc[c] = "slowupdate"
    /\ slow # None
    /\ slow' = [slow EXCEPT !.until = Until(c)]
    /\ Written(c)
    /\ UNCHANGED <<now, fast, args, seen, answer, faults, excuses>>

\* ... and the UPDATE of it: bound_ip only if it differs from the one read; an error if
\* the row is gone (StaleDataError).
SlowUpdate(c) ==
    /\ pc[c] = "slowupdate"
    /\ \/ slow = None /\ End(c, "error") /\ UNCHANGED slow
       \/ /\ slow # None
          /\ slow' = [ip |-> IF args[c].ip = seen[c] THEN slow.ip ELSE args[c].ip,
                      until |-> Until(c)]
          /\ Written(c)
    /\ UNCHANGED <<now, fast, args, seen, answer, faults, excuses>>

\* _commit_upsert of a new row: the INSERT, or a rollback if there is one by now ...
SlowInsert(c) ==
    /\ pc[c] = "slowinsert"
    /\ IF slow = None
       THEN slow' = [ip |-> args[c].ip, until |-> Until(c)] /\ Written(c)
       ELSE Goto(c, "slowreget") /\ UNCHANGED <<slow, span>>
    /\ UNCHANGED <<now, fast, args, seen, answer, faults, excuses>>

\* ... after which the row is read again and updated; the assertion fails if it is gone.
SlowReget(c) ==
    /\ pc[c] = "slowreget"
    /\ IF slow = None
       THEN End(c, "error") /\ UNCHANGED seen
       ELSE /\ Goto(c, "slowupdate")
            /\ seen' = [seen EXCEPT ![c] = slow.ip]
            /\ UNCHANGED span
    /\ UNCHANGED <<now, slow, fast, args, answer, faults, excuses>>

\* RedisTrustStore.trust: SET ... EX, or a delete when the ttl is below a second.
FastSet(c) ==
    /\ pc[c] = "fastset"
    /\ fast' = IF FastTtl = 0 THEN None ELSE [ip |-> args[c].ip, until |-> now + FastTtl]
    /\ End(c, "done")
    /\ UNCHANGED <<now, slow, args, seen, answer, faults, excuses>>

-----------------------------------------------------------------------------
\* A Redis command fails: a read counts as a no, a failed write is swallowed and
\* trust() returns as if it had been done.
FastFault(c) ==
    /\ faults < MaxFaults
    /\ faults' = faults + 1
    /\ \/ pc[c] = "fastask" /\ Goto(c, "slowask") /\ UNCHANGED <<span, excuses>>
       \/ /\ pc[c] = "fastset"
          /\ End(c, "done")
          /\ excuses' = excuses \union {"fast write"}
    /\ UNCHANGED <<now, slow, fast, args, seen, answer>>

\* A database operation fails: the call raises.
SlowFault(c) ==
    /\ faults < MaxFaults
    /\ faults' = faults + 1
    /\ pc[c] \in {"slowask", "slowdel", "slowread", "slowinsert", "slowreget", "slowupdate"}
    /\ End(c, "error")
    /\ UNCHANGED <<now, slow, fast, args, seen, answer, excuses>>

\* SQLTrustStore.purge_expired, run by the deployment's own scheduler.
PurgeExpired ==
    /\ slow # None
    /\ ~ Alive(slow)
    /\ slow' = None
    /\ UNCHANGED <<now, fast, callVars, faults, excuses>>

Tick ==
    /\ now < MaxTime
    /\ now' = now + 1
    /\ UNCHANGED <<slow, fast, callVars, faults, excuses>>

Run(c) ==
    \/ FastAsk(c) \/ SlowAsk(c) \/ SlowDelete(c)
    \/ SlowRead(c) \/ SlowUpdate(c) \/ SlowInsert(c) \/ SlowReget(c)
    \/ FastSet(c)

Next ==
    \/ \E c \in Calls, kind \in {"trust", "ask"}, ip \in Ips : Start(c, kind, ip)
    \/ \E c \in Calls : Run(c)
    \/ \E c \in Calls : FastFault(c) \/ SlowFault(c)
    \/ PurgeExpired
    \/ Tick

Spec == Init /\ [][Next]_vars

-----------------------------------------------------------------------------
(* Properties *)

TypeOK ==
    /\ now \in Nat
    /\ slow \in Entry \union {None}
    /\ fast \in Entry \union {None}
    /\ args \in [Calls -> [kind: {"none", "trust", "ask"}, ip: Ips \union {None},
                           known: SUBSET Calls]]
    /\ pc \in [Calls -> PCs]
    /\ seen \in [Calls -> Ips \union {None}]
    /\ span \in [Calls -> [start: Nat, end: Nat]]
    /\ answer \in [Calls -> BOOLEAN]
    /\ faults \in Nat
    /\ excuses \in SUBSET Causes

Asked == {c \in Calls : args[c].kind = "ask" /\ pc[c] = "done"}

\* A trust() call nothing has come after: every other one had returned when it began.
Newest(b, others) == \A a \in others \ {b} : a \in args[b].known

\* A trust() call that accounts for the answer TRUE of c: it may have run while c did,
\* or was the last to return before c began, and it is for c's address.  Its trust
\* lasts Ttl from its own end at the latest.
Accounts(b, c) ==
    /\ b \in args[c].known => Newest(b, args[c].known)
    /\ Matches(args[c].ip, args[b].ip)
    /\ ~ UnderWay(b) => span[b].end + Ttl > span[c].start

\* TrustStore's docstring: a visitor is trusted "until ttl passes", at the address
\* that earned it; a later verification elsewhere moves the trust there.
TrustIsCurrent == \A c \in Asked : answer[c] => \E b \in Trusts : Accounts(b, c)

\* A yes is owed to the latest verification and its time, unless two trust() calls
\* overlapped or a write to the fast tier was lost; each of the two can break it, and
\* nothing else can: not expiry, lazy deletes, the purge, or failures of the database.
CurrentUnlessExcused == excuses \intersect {"overlap", "fast write"} = {} => TrustIsCurrent

\* A visitor verified after whose trust() nothing else trusted or began to is still
\* trusted at that address until its ttl is over.
TrustIsRemembered ==
    \A c \in Asked, b \in Trusts :
        /\ b \in args[c].known
        /\ Newest(b, Trusts)
        /\ Matches(args[c].ip, args[b].ip)
        /\ Until(b) > now
        => answer[c]

\* That holds unless an is_trusted() that found the row expired removed the renewed one.
RememberedUnlessExcused == "stale delete" \notin excuses => TrustIsRemembered

\* tiered.py: losing a fast-tier operation is "never a correctness problem".  (The code
\* does not keep this: the address trusted before stays trusted in front.)
FastTierIsDisposable == excuses \subseteq {"fast write"} => TrustIsCurrent

\* SQLTrustStore's docstring: "the multi-process-safe version of MemoryTrustStore".
\* (The code does not keep this: two overlapping trust() calls leave one's address with
\* the other's time.)
OverlapIsHarmless == excuses \subseteq {"overlap"} => TrustIsCurrent
=============================================================================
