---------------------------- MODULE TokenBucket ----------------------------
(***************************************************************************)
(* ratelimit.py's TokenBucketLimiter, which api.py asks before it issues a *)
(* challenge or judges an answer.  Tokens are counted in units of 1/Period *)
(* of a call, so that a clock tick refills MaxCalls units and a call costs *)
(* Period; the code's floating-point tokens are taken as exact.  A key     *)
(* that is not tracked has what the code gives it, a full bucket.          *)
(***************************************************************************)
EXTENDS Integers, SequencesExt

CONSTANTS
    Keys,           \* client addresses, verification tokens
    MaxCalls,       \* max_calls
    Period,         \* per_seconds, in clock ticks
    MaxTrackedKeys  \* max_tracked_keys

\* What a limiter is constructed with.  (max_calls = 0 would refuse every call and evict
\* no key.)
LimiterAssumption ==
    /\ MaxCalls \in Nat \ {0}
    /\ Period \in Nat \ {0}
    /\ MaxTrackedKeys \in Nat

VARIABLES
    now,    \* time.monotonic()
    table   \* _buckets, and what the properties say about it:
            \*   buckets  tokens and last_refill of each key
            \*   order    the tracked keys, the least recently checked first
            \*   hits     when each key's calls were accepted since it was last evicted
            \*   others   the keys checked since each key was, and itself if it never was

Full == MaxCalls * Period
FullBucket == [tokens |-> Full, last |-> 0]

EmptyTable ==
    [buckets |-> [k \in Keys |-> FullBucket],
     order   |-> << >>,
     hits    |-> [k \in Keys |-> << >>],
     others  |-> [k \in Keys |-> {k}]]

-----------------------------------------------------------------------------
\* The definitions named ..._Mut are broken variants of the definition that follows
\* them, each a slip somebody could make in that code; the properties below are
\* checked to catch them.

Refilled(k) ==
    LET tokens == table.buckets[k].tokens + (now - table.buckets[k].last) * MaxCalls
    IN  IF tokens < Full THEN tokens ELSE Full

Allowed(k) == Refilled(k) >= Period

\* pop(key), then an insertion: the key becomes the most recently used.
MovedToEnd(queue, k) == Append(RemoveFirst(queue, k), k)

Overflows_MutOffByOne(queue) == Len(queue) >= MaxTrackedKeys

Overflows(queue) == Len(queue) > MaxTrackedKeys

OthersAfter(k) == [j \in Keys |-> IF j = k THEN {} ELSE table.others[j] \union {k}]

\* check() lets a call pass, and evicts the least recently used key if there are more
\* than max_tracked_keys now.
Accept(k) ==
    /\ Allowed(k)
    /\ LET queue == MovedToEnd(table.order, k)
           evict == Overflows(queue)
           gone == {j \in Keys : evict /\ j = Head(queue)}
           spent == [tokens |-> Refilled(k) - Period, last |-> now]
       IN  table' =
             [buckets |-> [j \in Keys |-> IF j \in gone THEN FullBucket
                                          ELSE IF j = k THEN spent ELSE table.buckets[j]],
              order   |-> IF evict THEN Tail(queue) ELSE queue,
              hits    |-> [j \in Keys |-> IF j \in gone THEN << >>
                                          ELSE IF j = k THEN Append(table.hits[j], now)
                                          ELSE table.hits[j]],
              others  |-> OthersAfter(k)]

Refuse_MutKeepsTime(k) ==
    /\ ~ Allowed(k)
    /\ table' = [table EXCEPT !.buckets[k].tokens = Refilled(k),
                              !.order = MovedToEnd(@, k),
                              !.others = OthersAfter(k)]

\* check() raises HTTPException(429); the time of the refusal becomes last_refill.
Refuse(k) ==
    /\ ~ Allowed(k)
    /\ table' = [table EXCEPT !.buckets[k] = [tokens |-> Refilled(k), last |-> now],
                              !.order = MovedToEnd(@, k),
                              !.others = OthersAfter(k)]

Check(k) == Accept(k) \/ Refuse(k)

\* The limiter by itself: calls at any time.
Init ==
    /\ now = 0
    /\ table = EmptyTable

Next ==
    \/ \E k \in Keys : Check(k) /\ UNCHANGED now
    \/ now' \in Nat /\ now' > now /\ UNCHANGED table

Spec == Init /\ [][Next]_<<now, table>>

-----------------------------------------------------------------------------
(* Properties *)

\* What the calls accepted since hits[k][i], that one included, leave of max_calls and of
\* what the time since then has refilled.
LeftSince(k, i) ==
    Full + (now - table.hits[k][i]) * MaxCalls - (Len(table.hits[k]) - i + 1) * Period

\* A call would be accepted exactly if max_calls plus the refill allow it in every
\* window that begins with an accepted call: the limiter lets no burst through that is
\* too long, and refuses none that is not.
AllowedIffWithinBudget ==
    \A k \in Keys :
        Allowed(k) <=> \A i \in DOMAIN table.hits[k] : LeftSince(k, i) >= Period

\* No window of accepted calls exceeds max_calls and its refill.
NeverOverBudget ==
    \A k \in Keys : \A i \in DOMAIN table.hits[k] : LeftSince(k, i) >= 0

\* The keys the limiter has a bucket for are those after whose last check fewer than
\* max_tracked_keys others were checked: the table never outgrows that number, and no
\* key starts afresh before that many others have been seen.
TrackedAreRecent ==
    \A k \in Keys :
        (\E i \in DOMAIN table.order : table.order[i] = k) <=>
            k \notin table.others[k] /\ Cardinality(table.others[k]) < MaxTrackedKeys
=============================================================================
