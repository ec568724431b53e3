--------------------------- MODULE ChallengeApi ---------------------------
(***************************************************************************)
(* The plain-web endpoints of api.py, GET /challenge and POST /verify, in  *)
(* front of the providers registered in app.state: a FallbackCaptchaProvi- *)
(* der (providers/fallback.py) registered as "fallback", whose children    *)
(* may fail to issue, and perhaps some of the children's kinds directly.   *)
(* Each endpoint asks a TokenBucketLimiter first.  The service may be      *)
(* redeployed with another list of children while challenges are out.      *)
(* Issuing awaits one child after the other, a step each; judging an       *)
(* answer is one step here, PendingChallenge models what happens inside.   *)
(***************************************************************************)
EXTENDS Naturals, Functions, Sequences

CONSTANTS
    Clients,        \* browsers, each at an address of its own
    Deployments,    \* the list of children of each deployment, one after the other
    Direct,         \* the kinds registered directly as well
    Fallback,       \* the kind "fallback"
    None,           \* no challenge
    SharedStore,    \* the providers share one CaptchaStore
    MaxAttempts,    \* max_attempts of the providers
    IssueCalls,     \* max_calls of challenge_rate_limiter ...
    VerifyCalls,    \* ... and of verify_rate_limiter
    Period,         \* their per_seconds, in clock ticks
    MaxTrackedKeys, \* their max_tracked_keys
    MaxIds,         \* bound on the challenges issued
    MaxGets,        \* bound on the requests for a challenge ...
    MaxPosts,       \* ... and on the answers
    MaxTime         \* bound on the clock

ASSUME ApiAssumption ==
    /\ Deployments \in Seq(Range(Deployments)) \ {<< >>}
    /\ \A list \in Range(Deployments) : list \in Seq(Range(list)) \ {<< >>}
    /\ SharedStore \in BOOLEAN
    /\ MaxAttempts \in Nat \ {0}
    /\ {MaxIds, MaxGets, MaxPosts, MaxTime} \subseteq Nat

VARIABLES
    now,            \* time.monotonic()
    issueTable,     \* the table of challenge_rate_limiter
    verifyTable,    \* the table of verify_rate_limiter
    deploy,         \* the deployment that is running
    pending,        \* the challenges in the stores: [id, by, attempts]
    client,         \* each browser and its request
    ids, gets, posts

vars == <<now, issueTable, verifyTable, deploy, pending, client, ids, gets, posts>>

Issuing == INSTANCE TokenBucket WITH
    Keys <- Clients, MaxCalls <- IssueCalls, table <- issueTable
Verifying == INSTANCE TokenBucket WITH
    Keys <- Clients, MaxCalls <- VerifyCalls, table <- verifyTable

ASSUME LimitersAssumption == Issuing!LimiterAssumption /\ Verifying!LimiterAssumption

\* A browser: the child that is to issue next (0: none is), the kind it asked for, the
\* challenge it shows, and the outcome of its last request.
Outcomes == {"none", "issued", "throttled", "unknown", "failed", "verified", "refused",
             "raised"}
Kinds == {Fallback} \union UNION {Range(Deployments[i]) : i \in DOMAIN Deployments}
NewClient == [next |-> 0, asked |-> Fallback, got |-> None, outcome |-> "none"]

\* FallbackCaptchaProvider.providers.
children == Deployments[deploy]

Init ==
    /\ now = 0
    /\ issueTable = Issuing!EmptyTable
    /\ verifyTable = Verifying!EmptyTable
    /\ deploy = 1
    /\ pending = {}
    /\ client = [c \in Clients |-> NewClient]
    /\ ids = 0
    /\ gets = 0
    /\ posts = 0

-----------------------------------------------------------------------------
\* The definitions named ..._Mut are broken variants of the definition that follows
\* them, each a slip somebody could make in that code; the properties below are
\* checked to catch them.

Conclude(c, outcome) == client' = [client EXCEPT ![c].next = 0, ![c].outcome = outcome]

\* The providers a request can name, and the children that one tries in turn.
Registered(kind) == kind = Fallback \/ kind \in Direct
ChildrenOf(kind) == IF kind = Fallback THEN children ELSE <<kind>>

\* GET /challenge: the limiter, then the registry.
GetChallenge(c, kind) ==
    /\ client[c].next = 0
    /\ gets < MaxGets
    /\ gets' = gets + 1
    /\ \/ Issuing!Refuse(c) /\ Conclude(c, "throttled")
       \/ Issuing!Accept(c) /\ ~ Registered(kind) /\ Conclude(c, "unknown")
       \/ /\ Issuing!Accept(c)
          /\ Registered(kind)
          /\ client' = [client EXCEPT ![c].next = 1, ![c].asked = kind]
    /\ UNCHANGED <<now, verifyTable, deploy, pending, ids, posts>>

\* FallbackCaptchaProvider.issue: the next child issues, and its challenge id gets its
\* index as a prefix; a provider registered directly adds none (0).
Issue(c) ==
    LET turn == client[c].next
        kind == ChildrenOf(client[c].asked)[turn]
    IN  /\ turn # 0
        /\ ids < MaxIds
        /\ ids' = ids + 1
        /\ pending' = pending \union {[id |-> ids + 1, by |-> kind, attempts |-> 0]}
        /\ client' = [client EXCEPT
             ![c].next = 0, ![c].outcome = "issued",
             ![c].got = [id |-> ids + 1, kind |-> kind, asked |-> client[c].asked,
                         index |-> IF client[c].asked = Fallback THEN turn ELSE 0]]
        /\ UNCHANGED <<now, issueTable, verifyTable, deploy, gets, posts>>

\* ... or raises, and the next one is tried; the last one's exception is the request's.
IssueRaises(c) ==
    /\ client[c].next # 0
    /\ IF client[c].next < Len(ChildrenOf(client[c].asked))
       THEN client' = [client EXCEPT ![c].next = @ + 1]
       ELSE Conclude(c, "failed")
    /\ UNCHANGED <<now, issueTable, verifyTable, deploy, pending, ids, gets, posts>>

-----------------------------------------------------------------------------
Judge_MutNextChild(kind, challenge) ==
    IF kind = Fallback
    THEN IF challenge.index \in DOMAIN children
         THEN {children[(challenge.index % Len(children)) + 1]} ELSE {}
    ELSE IF challenge.index = 0 THEN {kind} ELSE {}

\* FallbackCaptchaProvider.verify goes by the prefix, and refuses an id without one or
\* one beyond its list; another provider knows no id with a prefix.
Judge(kind, challenge) ==
    IF kind = Fallback
    THEN {children[i] : i \in {challenge.index} \intersect DOMAIN children}
    ELSE IF challenge.index = 0 THEN {kind} ELSE {}

\* The records that the judge finds in its store.
Found(judge, challenge) ==
    {p \in pending : p.id = challenge.id /\ (SharedStore \/ p.by = judge)}

\* check_pending_challenge with the judge's own verifier.  The record's kind is not
\* looked at: a verifier of another kind may agree, refuse, or choke on the answer it
\* finds there.
Verdict(c, p, judge, right) ==
    LET spent == pending \ {p}
        tried == spent \union {[p EXCEPT !.attempts = @ + 1]}
    IN  \/ p.attempts >= MaxAttempts /\ pending' = spent /\ Conclude(c, "refused")
        \/ /\ p.attempts < MaxAttempts
           /\ \/ right /\ pending' = spent /\ Conclude(c, "verified")
              \/ ~ right /\ pending' = tried /\ Conclude(c, "refused")
              \/ p.by # judge /\ pending' = tried /\ Conclude(c, "refused")
              \/ p.by # judge /\ pending' = tried /\ Conclude(c, "raised")

Answer(c, kind, right) ==
    LET judges == Judge(kind, client[c].got)
    IN  \/ ~ Registered(kind) /\ Conclude(c, "unknown") /\ UNCHANGED pending
        \/ /\ Registered(kind)
           /\ \A judge \in judges : Found(judge, client[c].got) = {}
           /\ Conclude(c, "refused") /\ UNCHANGED pending
        \/ \E judge \in judges : \E p \in Found(judge, client[c].got) :
               Registered(kind) /\ Verdict(c, p, judge, right)

\* POST /verify: the limiter, the registry, the provider.  A page posts the kind it asked
\* for, or the one its challenge carries.
PostVerify(c, kind, right) ==
    /\ client[c].next = 0
    /\ client[c].got # None
    /\ kind \in {client[c].got.asked, client[c].got.kind}
    /\ posts < MaxPosts
    /\ posts' = posts + 1
    /\ \/ Verifying!Refuse(c) /\ Conclude(c, "throttled") /\ UNCHANGED pending
       \/ Verifying!Accept(c) /\ Answer(c, kind, right)
    /\ UNCHANGED <<now, issueTable, deploy, ids, gets>>

\* The service restarts with another list: requests under way are lost, the limiters
\* start empty, the stores stay.
Redeploy ==
    /\ deploy < Len(Deployments)
    /\ deploy' = deploy + 1
    /\ issueTable' = Issuing!EmptyTable
    /\ verifyTable' = Verifying!EmptyTable
    /\ client' = [c \in Clients |-> [client[c] EXCEPT
         !.next = 0, !.outcome = IF client[c].next # 0 THEN "failed" ELSE @]]
    /\ UNCHANGED <<now, pending, ids, gets, posts>>

Tick ==
    /\ now < MaxTime
    /\ now' = now + 1
    /\ UNCHANGED <<issueTable, verifyTable, deploy, pending, client, ids, gets, posts>>

Next ==
    \/ \E c \in Clients, kind \in Kinds : GetChallenge(c, kind)
    \/ \E c \in Clients : Issue(c) \/ IssueRaises(c)
    \/ \E c \in Clients, kind \in Kinds, right \in BOOLEAN : PostVerify(c, kind, right)
    \/ Redeploy
    \/ Tick

Spec == Init /\ [][Next]_vars

-----------------------------------------------------------------------------
(* Properties *)

\* What ratelimit.py's docstring promises of both limiters: a request is turned away
\* exactly if its address has spent max_calls and what time has refilled, in some window
\* since the limiter began to track it.
BudgetsAreExact == Issuing!AllowedIffWithinBudget /\ Verifying!AllowedIffWithinBudget

\* Both tables: "LRU-evicted", "bounded by max_tracked_keys".
TablesForgetTheIdle == Issuing!TrackedAreRecent /\ Verifying!TrackedAreRecent

\* The right answer to a challenge that is still pending, with a guess left, is accepted
\* if the request is not throttled.
Counts(c, kind) ==
    /\ PostVerify(c, kind, TRUE)
    /\ \E p \in pending : p.id = client[c].got.id /\ p.attempts < MaxAttempts
    => client'[c].outcome \in {"verified", "throttled"}

\* The child that issued c's challenge is still at its index.
StillListed(c) ==
    client[c].got.index # 0 =>
        /\ client[c].got.index \in DOMAIN children
        /\ children[client[c].got.index] = client[c].got.kind

\* fallback.py: "`verify()` always routes back to the right one", whichever children
\* failed before it and whatever other pages asked for and guessed; as long as the
\* redeployments since have left that child in its place.
RightAnswerCounts ==
    [][\A c \in Clients : client[c].got # None /\ StillListed(c) =>
           Counts(c, client[c].got.asked)]_vars

\* The same without that condition.  (The code does not keep this: the prefix is an index
\* into the current list.  It does if redeployments only add children at the end.)
AlwaysRoutedBack ==
    [][\A c \in Clients : client[c].got # None => Counts(c, client[c].got.asked)]_vars

\* fallback.py: "this class is invisible past the moment of choosing which child to use".
\* (The code does not keep this: a page that posts the kind its challenge carries is not
\* answered by the composite.)
FallbackIsInvisible ==
    [][\A c \in Clients : client[c].got # None /\ StillListed(c) =>
           Counts(c, client[c].got.kind)]_vars
=============================================================================
