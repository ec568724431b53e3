----------------------------- MODULE PageGuard -----------------------------
(***************************************************************************)
(* PageGuard (pageguard.py) in front of a page, for one browser with       *)
(* several tabs: a page load is let through, or redirected to a fresh      *)
(* verification link of the AdaptiveCaptchaGate behind it; completing the  *)
(* link makes the visitor trusted, and the tab comes back to the page.     *)
(* Meanwhile the browser's address and its reputation may change, passive  *)
(* signals may raise the visitor's running risk, trust lapses, and another *)
(* site may have given the browser a trust receipt.                        *)
(*                                                                         *)
(* The await of each store or signal inside require_human is a step.       *)
(* get_info and verify of a link are one step each: a link is known to one *)
(* tab only, and AdaptiveGate models what happens inside them.  RiskLevels *)
(* matter only as being below min_level_for_challenge or not.              *)
(***************************************************************************)
EXTENDS TrustReceipts

CONSTANTS
    Tabs,           \* tabs of the browser; also names the cookie each one mints
    Addresses,      \* client addresses
    Account,        \* the id of the signed-in account
    None,           \* no cookie, no trust entry, no verification, no receipt
    SignedIn,       \* the app passes authenticated_user_id
    HasTrustStore,  \* the gate has a trust_store
    BindTrust,      \* bind_trust_to_ip
    Strict,         \* default_min_level or min_level reaches the threshold
    StrictPurpose,  \* min_level_by_purpose does
    TrustTtl,       \* trust_ttl, in clock ticks
    MaxTime,        \* bound on the clock
    MaxChanges      \* bound on what changes around the browser

ASSUME GuardAssumption ==
    /\ Account \notin Tabs
    /\ None \notin Tabs \union {Account}
    /\ {SignedIn, HasTrustStore, BindTrust, Strict, StrictPurpose} \subseteq BOOLEAN
    /\ TrustTtl \in Nat \ {0}
    /\ MaxTime \in Nat
    /\ MaxChanges \in Nat

VARIABLES
    now,        \* datetime.now(UTC)
    address,    \* the browser's current address
    flagged,    \* the addresses reputation.is_suspicious holds for
    odd,        \* extra_suspicious(request) holds for this browser
    revalidates, \* trusted_revalidation is the reputation signal
    cookie,     \* the wac_visitor_id cookie
    receipt,    \* the trust receipt the app finds in the browser's requests
    trust,      \* the trust store: [until, ip] of each visitor id
    running,    \* the visitor ids whose running risk reaches the threshold
    at,         \* where each tab is
    who,        \* the visitor id of each tab's page load
    from,       \* the address it came from
    fresh,      \* it minted a new cookie value
    vouched,    \* the receipt its is_currently_trusted found valid
    raised,     \* its floor reaches the threshold
    link,       \* the decision of the tab's verification link
    last,       \* the browser's last completed verification: [until, ip]
    changes

storeVars == <<cookie, trust, running>>
tabVars == <<at, who, from, fresh, vouched, raised, link>>
worldVars == <<now, address, flagged, odd, revalidates, receipt, changes>>
vars == <<worldVars, storeVars, tabVars, last>>

Ids == Tabs \union {Account}
Places == {"away", "load", "revalidate", "floor", "reputation", "redirect", "link",
           "open", "back", "served"}
Decisions == {"none", "clear", "captcha"}

Init ==
    /\ now = 0
    /\ address \in Addresses
    /\ flagged \in SUBSET Addresses
    /\ odd \in BOOLEAN
    /\ revalidates \in BOOLEAN
    /\ cookie = None
    /\ receipt = None
    /\ trust = [v \in Ids |-> None]
    /\ running = {}
    /\ at = [b \in Tabs |-> "away"]
    /\ who = [b \in Tabs |-> Account]
    /\ from = [b \in Tabs |-> address]
    /\ fresh = [b \in Tabs |-> FALSE]
    /\ vouched = [b \in Tabs |-> None]
    /\ raised = [b \in Tabs |-> FALSE]
    /\ link = [b \in Tabs |-> "none"]
    /\ last = None
    /\ changes = 0

-----------------------------------------------------------------------------
\* The definitions named ..._Mut are broken variants of the definition that follows
\* them, each a slip somebody could make in that code; the properties below are
\* checked to catch them.

Goto(b, place) == at' = [at EXCEPT ![b] = place]

\* The response reaches the browser, with Set-Cookie if the load minted one.
Respond(b, place) ==
    /\ Goto(b, place)
    /\ cookie' = IF fresh[b] THEN who[b] ELSE cookie

\* require_human up to its first await: whose page load it is, and whether a receipt
\* speaks for it, which is looked at before the trust store.  A new cookie value is
\* random, so nothing is known of it.
Load(b) ==
    LET mints == ~ SignedIn /\ cookie = None
        visitor == IF SignedIn THEN Account ELSE IF mints THEN b ELSE cookie
        valid == receipt # None /\ Verifies(receipt, now)
    IN  /\ at[b] \in {"away", "back", "served"}
        /\ from' = [from EXCEPT ![b] = address]
        /\ who' = [who EXCEPT ![b] = visitor]
        /\ fresh' = [fresh EXCEPT ![b] = mints]
        /\ vouched' = [vouched EXCEPT ![b] = IF valid THEN receipt ELSE None]
        /\ trust' = IF mints THEN [trust EXCEPT ![b] = None] ELSE trust
        /\ running' = IF mints THEN running \ {b} ELSE running
        /\ \/ valid /\ ~ revalidates /\ Goto(b, "served")
              /\ cookie' = IF mints THEN visitor ELSE cookie
           \/ valid /\ revalidates /\ Goto(b, "revalidate") /\ UNCHANGED cookie
           \/ ~ valid /\ Goto(b, "load") /\ UNCHANGED cookie
        /\ UNCHANGED <<worldVars, raised, link, last>>

Trusted_MutAnywhere(v, ip) ==
    /\ HasTrustStore
    /\ trust[v] # None
    /\ trust[v].until > now

\* trust_store.is_trusted
Trusted(v, ip) ==
    /\ HasTrustStore
    /\ trust[v] # None
    /\ trust[v].until > now
    /\ BindTrust => trust[v].ip = ip

\* is_currently_trusted: the trust store ...
CheckTrust(b) ==
    /\ at[b] = "load"
    /\ \/ ~ Trusted(who[b], from[b]) /\ Goto(b, "floor") /\ UNCHANGED cookie
       \/ Trusted(who[b], from[b]) /\ revalidates /\ Goto(b, "revalidate") /\ UNCHANGED cookie
       \/ Trusted(who[b], from[b]) /\ ~ revalidates /\ Respond(b, "served")
    /\ UNCHANGED <<worldVars, trust, running, who, from, fresh, vouched, raised, link, last>>

\* ... and trusted_revalidation, which counts as passed if it raises.
Revalidate(b) ==
    /\ at[b] = "revalidate"
    /\ \/ from[b] \in flagged /\ Goto(b, "floor") /\ UNCHANGED cookie
       \/ Respond(b, "served")
    /\ UNCHANGED <<worldVars, trust, running, who, from, fresh, vouched, raised, link, last>>

\* The floor of assess_risk: the caller's, the purpose's and the running risk's.
Raised(v) == StrictPurpose \/ v \in running

Floor(b) ==
    /\ at[b] = "floor"
    /\ raised' = [raised EXCEPT ![b] = Strict \/ odd \/ Raised(who[b])]
    /\ Goto(b, "reputation")
    /\ UNCHANGED <<worldVars, storeVars, who, from, fresh, vouched, link, last>>

\* The rest of assess_risk: reputation.is_suspicious(client_ip).
Reputation(b) ==
    /\ at[b] = "reputation"
    /\ IF raised[b] \/ from[b] \in flagged
       THEN Goto(b, "redirect") /\ UNCHANGED cookie
       ELSE Respond(b, "served")
    /\ UNCHANGED <<worldVars, trust, running, who, from, fresh, vouched, raised, link, last>>

Redirect_MutDropsCookie(b) ==
    /\ at[b] = "redirect"
    /\ link' = [link EXCEPT ![b] = "none"]
    /\ Goto(b, "link")
    /\ UNCHANGED <<worldVars, storeVars, who, from, fresh, vouched, raised, last>>

\* create_verification, then PageGuardRedirect, which carries the cookie.
Redirect(b) ==
    /\ at[b] = "redirect"
    /\ link' = [link EXCEPT ![b] = "none"]
    /\ Respond(b, "link")
    /\ UNCHANGED <<worldVars, trust, running, who, from, fresh, vouched, raised, last>>

-----------------------------------------------------------------------------
\* The gate's get_info: trusted, or assessed on the link's purpose, the running risk
\* and the address, but neither on min_level nor on extra_suspicious.
OpenLink(b) ==
    LET trusted == Trusted(who[b], address) /\ ~ (revalidates /\ address \in flagged)
        needed == ~ trusted /\ (Raised(who[b]) \/ address \in flagged)
    IN  /\ at[b] = "link"
        /\ link' = [link EXCEPT ![b] = IF needed THEN "captcha" ELSE "clear"]
        /\ Goto(b, "open")
        /\ UNCHANGED <<worldVars, storeVars, who, from, fresh, vouched, raised, last>>

VerifyLink_MutNoTrust(b) ==
    /\ at[b] = "open"
    /\ last' = [until |-> now + TrustTtl, ip |-> address]
    /\ Goto(b, "back")
    /\ UNCHANGED <<worldVars, storeVars, who, from, fresh, vouched, raised, link>>

\* The gate's verify, passed: the visitor is trusted from now on, and goes back to
\* the page.
VerifyLink(b) ==
    LET entry == [until |-> now + TrustTtl, ip |-> address]
    IN  /\ at[b] = "open"
        /\ trust' = IF HasTrustStore THEN [trust EXCEPT ![who[b]] = entry] ELSE trust
        /\ last' = entry
        /\ Goto(b, "back")
        /\ UNCHANGED <<worldVars, cookie, running, who, from, fresh, vouched, raised, link>>

\* The visitor gives up, fails for good, or lets the link lapse.
Leave(b) ==
    /\ at[b] \in {"link", "open", "back"}
    /\ Goto(b, "away")
    /\ UNCHANGED <<worldVars, storeVars, who, from, fresh, vouched, raised, link, last>>

-----------------------------------------------------------------------------
\* build_passive_risk_router: signals of the page's beacon raise the running risk of
\* the visitor behind the cookie, which this endpoint never mints.
Report ==
    /\ changes < MaxChanges
    /\ changes' = changes + 1
    /\ SignedIn \/ cookie # None
    /\ running' = running \union {IF SignedIn THEN Account ELSE cookie}
    /\ UNCHANGED <<now, address, flagged, odd, revalidates, receipt, cookie, trust, tabVars,
                   last>>

\* running_risk_ttl passes for a visitor.
Calm(v) ==
    /\ v \in running
    /\ running' = running \ {v}
    /\ UNCHANGED <<worldVars, cookie, trust, tabVars, last>>

\* block and unblock, or an outside source changing its mind; the address changing.
Reassess ==
    /\ changes < MaxChanges
    /\ changes' = changes + 1
    /\ flagged' \in SUBSET Addresses
    /\ UNCHANGED <<now, address, odd, revalidates, receipt, storeVars, tabVars, last>>

Roam ==
    /\ changes < MaxChanges
    /\ changes' = changes + 1
    /\ address' \in Addresses \ {address}
    /\ UNCHANGED <<now, flagged, odd, revalidates, receipt, storeVars, tabVars, last>>

\* Some site hands the browser a receipt: a good one, or one this site cannot use.
Vouch ==
    /\ changes < MaxChanges
    /\ changes' = changes + 1
    /\ \E c \in Claims : receipt' = Issue(c, now)
    /\ UNCHANGED <<now, address, flagged, odd, revalidates, storeVars, tabVars, last>>

Tick ==
    /\ now < MaxTime
    /\ now' = now + 1
    /\ UNCHANGED <<address, flagged, odd, revalidates, receipt, changes, storeVars, tabVars,
                   last>>

\* What a page load and a redirected visitor do next.
Run(b) ==
    \/ CheckTrust(b) \/ Revalidate(b) \/ Floor(b) \/ Reputation(b) \/ Redirect(b)
    \/ OpenLink(b) \/ VerifyLink(b)

Next ==
    \/ \E b \in Tabs : Load(b) \/ Run(b) \/ Leave(b)
    \/ Report
    \/ \E v \in Ids : Calm(v)
    \/ Reassess
    \/ Roam
    \/ Vouch
    \/ Tick

Spec == Init /\ [][Next]_vars

\* The event loop runs every request; the visitor opens the link, does what it asks
\* and goes back to the page, or gives up.
FairSpec ==
    Spec /\ \A b \in Tabs : WF_vars(Run(b)) /\ WF_vars(at[b] = "back" /\ Load(b))

-----------------------------------------------------------------------------
(* Properties *)

TrustEntry == [until: Nat, ip: Addresses]

TypeOK ==
    /\ now \in Nat
    /\ address \in Addresses
    /\ flagged \in SUBSET Addresses
    /\ odd \in BOOLEAN
    /\ revalidates \in BOOLEAN
    /\ cookie \in Tabs \union {None}
    /\ receipt \in Receipts(Nat) \union {None}
    /\ trust \in [Ids -> TrustEntry \union {None}]
    /\ running \in SUBSET Ids
    /\ at \in [Tabs -> Places]
    /\ who \in [Tabs -> Ids]
    /\ from \in [Tabs -> Addresses]
    /\ fresh \in [Tabs -> BOOLEAN]
    /\ vouched \in [Tabs -> Receipts(Nat) \union {None}]
    /\ raised \in [Tabs -> BOOLEAN]
    /\ link \in [Tabs -> Decisions]
    /\ last \in TrustEntry \union {None}
    /\ changes \in Nat

\* The browser completed a verification, not too long ago and from this address.
Proven(ip) ==
    /\ last # None
    /\ last.until > now
    /\ BindTrust => last.ip = ip

AskedAgain(b) == at[b] = "load" /\ at'[b] = "floor" /\ Proven(from[b])

\* README: "complete with a visitor cookie so a verified visitor isn't asked again".
\* It holds for a visitor who opens one tab at a time.  (Two tabs of a first visit
\* mint two cookies, and the code does not keep it.)
VerifiedNotAskedAgain == [][\A b \in Tabs : ~ AskedAgain(b)]_vars

\* The page is served to a tab.
Served(b) == at[b] # "served" /\ at'[b] = "served"

\* A site this one trusts speaks for the browser, of the subject and for the purpose
\* this one asks for, and has not let its word lapse when the load begins.
Vouched(b) ==
    LET r == vouched'[b]
    IN  /\ r # None
        /\ r.claim.signer \in TrustedIssuers
        /\ r.claim.subject = ExpectedSubject \/ ExpectedSubject = Unbound
        /\ r.claim.purpose = RequiredPurpose \/ RequiredPurpose = Unbound
        /\ at[b] = "revalidate" \/ r.until >= now

\* With bind_trust_to_ip, trust earned at one address does not carry over to another
\* one: a page load from a flagged address is served only if the browser's latest
\* verification was completed at that address, or on a site's word that counts here.
FlaggedServedOnlyOnProof ==
    [][\A b \in Tabs :
         BindTrust /\ Served(b) /\ from'[b] \in flagged =>
             \/ Vouched(b)
             \/ /\ last # None
                /\ last.ip = from[b]
                /\ at[b] = "load" => last.until > now]_vars

\* require_human's docstring: it redirects "if this visitor needs to solve a captcha
\* before proceeding".  (The code does not keep this: the link asks for none when
\* only min_level or extra_suspicious was the reason, or the reason is gone.)
RedirectMeansCaptcha == \A b \in Tabs : at[b] = "open" => link[b] = "captcha"

\* README: passive signals "can still escalate" a visitor, and "every subsequent
\* require_human() call for that visitor picks up the new floor automatically".
\* (The code does not keep this: is_currently_trusted comes first, and a trusted
\* visitor's floor is never looked at.)
RiskReachesEveryLoad ==
    [][\A b \in Tabs : at[b] = "load" /\ at'[b] = "served" => who[b] \notin running]_vars

\* A visitor who does what the links ask gets to see the page, or gives up, whatever
\* raised the suspicion; trusted_revalidation holds a flagged address back for as
\* long as it is flagged, verified or not.
SolverGetsIn ==
    \A b \in Tabs :
        at[b] = "load" ~> \/ at[b] \in {"served", "away"}
                          \/ revalidates /\ from[b] \in flagged
=============================================================================
