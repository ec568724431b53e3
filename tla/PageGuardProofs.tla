--------------------------- MODULE PageGuardProofs ---------------------------
(***************************************************************************)
(* Proofs about PageGuard, for any addresses, lifetimes, receipts and      *)
(* reputations: that a verified visitor is not asked again, that a flagged *)
(* address gets in on a proof of its own, and types.                       *)
(*                                                                         *)
(* The first two are about a browser whose page loads are those of one     *)
(* visitor id.  Two tabs of a first visit mint two, a finding of its own.  *)
(***************************************************************************)
EXTENDS PageGuard, TLAPS

OneTab == \A b, c \in Tabs : b = c
OneVisitor == SignedIn \/ OneTab

\* The visitor id of a tab's page loads.
Visitor(b) == IF SignedIn THEN Account ELSE b

Inside == {"load", "revalidate", "floor", "reputation", "redirect"}
OnLink == {"link", "open"}

Shape ==
    /\ DOMAIN at = Tabs /\ DOMAIN who = Tabs /\ DOMAIN from = Tabs /\ DOMAIN fresh = Tabs
    /\ DOMAIN vouched = Tabs
    /\ DOMAIN trust = Ids

\* Once a response has reached the browser, it keeps the cookie whose value the page load
\* was given; whoever completed a verification got it through one.
Carried ==
    \A b \in Tabs :
        /\ at[b] \in Inside \union OnLink => who[b] = Visitor(b)
        /\ ~ SignedIn =>
            /\ cookie \in {None, b}
            /\ at[b] \in Inside => fresh[b] \/ cookie # None
            /\ at[b] \in OnLink \/ last # None => cookie # None

\* What the trust store holds of the visitor is the browser's last verification.
Recorded == HasTrustStore => \A b \in Tabs : trust[Visitor(b)] = last

GuardInv == Shape /\ Carried /\ Recorded

\* A receipt that counts here, but for its expiry.
Counts(r) ==
    /\ r # None
    /\ r.claim.signer \in TrustedIssuers
    /\ r.claim.subject = ExpectedSubject \/ ExpectedSubject = Unbound
    /\ r.claim.purpose = RequiredPurpose \/ RequiredPurpose = Unbound

\* A load that trusted_revalidation is asked about got there on a receipt or on trust
\* earned at its address.
Held ==
    \A b \in Tabs :
        BindTrust /\ at[b] = "revalidate" =>
            Counts(vouched[b]) \/ (last # None /\ last.ip = from[b])

-----------------------------------------------------------------------------

LEMMA GuardInit == Init => GuardInv /\ Held
  BY GuardAssumption
  DEF Init, GuardInv, Shape, Carried, Recorded, Held, Visitor, Inside, OnLink, Ids

LEMMA GuardLoad ==
    ASSUME OneVisitor, GuardInv, NEW b \in Tabs, Load(b) PROVE GuardInv'
<1>. DEFINE mints == ~ SignedIn /\ cookie = None
            visitor == IF SignedIn THEN Account ELSE IF mints THEN b ELSE cookie
            valid == receipt # None /\ Verifies(receipt, now)
<1>. USE GuardAssumption
<1>1. /\ who' = [who EXCEPT ![b] = visitor] /\ fresh' = [fresh EXCEPT ![b] = mints]
      /\ vouched' = [vouched EXCEPT ![b] = IF valid THEN receipt ELSE None]
      /\ from' = [from EXCEPT ![b] = address]
      /\ trust' = IF mints THEN [trust EXCEPT ![b] = None] ELSE trust
      /\ last' = last
  BY DEF Load
<1>2. \/ /\ at' = [at EXCEPT ![b] = "served"]
         /\ cookie' = IF mints THEN visitor ELSE cookie
      \/ /\ at' = [at EXCEPT ![b] = "revalidate"] \/ at' = [at EXCEPT ![b] = "load"]
         /\ cookie' = cookie
  BY DEF Load, Goto
<1>3. visitor = Visitor(b)
  BY DEF GuardInv, Carried, Visitor
<1>. HIDE DEF mints, visitor, valid
<1>4. Shape'
  BY <1>1, <1>2 DEF GuardInv, Shape
<1>5. mints => ~ SignedIn /\ cookie = None /\ last = None
  BY DEF mints, GuardInv, Carried
<1>6. ~ mints => SignedIn \/ cookie # None
  BY DEF mints
<1>7. Carried'
  <2>. SUFFICES ASSUME NEW t \in Tabs
                PROVE  /\ at'[t] \in Inside \union OnLink => who'[t] = Visitor(t)
                       /\ ~ SignedIn =>
                            /\ cookie' \in {None, t}
                            /\ at'[t] \in Inside => fresh'[t] \/ cookie' # None
                            /\ at'[t] \in OnLink \/ last' # None => cookie' # None
    BY DEF Carried
  <2>1. SignedIn \/ t = b
    BY DEF OneVisitor, OneTab
  <2>2. CASE t = b
    BY <1>1, <1>2, <1>3, <1>5, <1>6, <2>2
    DEF GuardInv, Shape, Carried, Visitor, Inside, OnLink
  <2>3. CASE SignedIn /\ t # b
    BY <1>1, <1>2, <2>3 DEF GuardInv, Shape, Carried
  <2>. QED BY <2>1, <2>2, <2>3
<1>8. Recorded'
  BY <1>1, <1>5 DEF GuardInv, Shape, Recorded, OneVisitor, OneTab, Visitor, Ids
<1>. QED BY <1>4, <1>7, <1>8 DEF GuardInv

LEMMA GuardRun ==
    ASSUME OneVisitor, GuardInv, NEW b \in Tabs, Run(b) PROVE GuardInv'
<1>. USE GuardAssumption
     DEF OneVisitor, OneTab, GuardInv, Shape, Carried, Recorded, Visitor, Inside, OnLink, Ids,
         Goto, worldVars, storeVars
<1>1. CASE CheckTrust(b)
  BY <1>1 DEF CheckTrust, Respond
<1>2. CASE Revalidate(b)
  BY <1>2 DEF Revalidate, Respond
<1>3. CASE Floor(b)
  BY <1>3 DEF Floor
<1>4. CASE Reputation(b)
  BY <1>4 DEF Reputation, Respond
<1>5. CASE Redirect(b)
  BY <1>5 DEF Redirect, Respond
<1>6. CASE OpenLink(b)
  BY <1>6 DEF OpenLink
<1>7. CASE VerifyLink(b)
  BY <1>7 DEF VerifyLink
<1>. QED BY <1>1, <1>2, <1>3, <1>4, <1>5, <1>6, <1>7 DEF Run

\* What happens around the browser, and a visitor who gives up.
LEMMA GuardAround ==
    ASSUME GuardInv, UNCHANGED <<who, from, fresh, vouched, cookie, trust, last>>,
           at' = at \/ (\E b \in Tabs : at' = [at EXCEPT ![b] = "away"])
    PROVE  GuardInv'
  BY DEF GuardInv, Shape, Carried, Recorded, Visitor, Inside, OnLink

\* A step is one of those.
LEMMA GuardSteps ==
    ASSUME [Next]_vars
    PROVE  \/ \E b \in Tabs : Load(b) \/ Run(b)
           \/ /\ UNCHANGED <<who, from, fresh, vouched, cookie, trust, last>>
              /\ at' = at \/ (\E b \in Tabs : at' = [at EXCEPT ![b] = "away"])
  BY DEF Next, Leave, Report, Calm, Reassess, Roam, Vouch, Tick, Goto, vars, worldVars,
         storeVars, tabVars

LEMMA GuardNext == OneVisitor /\ GuardInv /\ [Next]_vars => GuardInv'
  BY GuardLoad, GuardRun, GuardAround, GuardSteps

LEMMA HeldNext == OneTab /\ GuardInv /\ Held /\ [Next]_vars => Held'
<1>. SUFFICES ASSUME OneTab, GuardInv, Held, [Next]_vars,
                     NEW b \in Tabs, BindTrust, at'[b] = "revalidate"
              PROVE  Counts(vouched'[b]) \/ (last' # None /\ last'.ip = from'[b])
  BY DEF Held
<1>1. CASE Load(b)
  <2>1. /\ receipt # None /\ Verifies(receipt, now)
        /\ vouched' = [vouched EXCEPT ![b] = receipt]
    BY <1>1 DEF Load, Goto, GuardInv, Shape
  <2>. QED BY <2>1 DEF Verifies, Counts, GuardInv, Shape
<1>2. CASE CheckTrust(b)
  <2>1. Trusted(who[b], from[b]) /\ UNCHANGED <<last, from>>
    BY <1>2 DEF CheckTrust, Goto, Respond, GuardInv, Shape
  <2>2. who[b] = Visitor(b)
    BY <1>2 DEF CheckTrust, GuardInv, Carried, Inside
  <2>. QED BY <2>1, <2>2 DEF Trusted, GuardInv, Recorded
<1>3. CASE Run(b) /\ ~ CheckTrust(b)
  BY <1>3 DEF Run, Revalidate, Floor, Reputation, Redirect, OpenLink, VerifyLink, Goto, Respond,
              GuardInv, Shape
<1>4. CASE UNCHANGED <<from, vouched, last>> /\ at'[b] = at[b]
  BY <1>4 DEF Held
<1>5. CASE \E t \in Tabs : at' = [at EXCEPT ![t] = "away"]
  BY <1>5 DEF OneTab, GuardInv, Shape
<1>. QED BY <1>1, <1>2, <1>3, <1>4, <1>5, GuardSteps DEF OneTab

-----------------------------------------------------------------------------

\* README: "complete with a visitor cookie so a verified visitor isn't asked again".  It is
\* so for any addresses, lifetimes and signals, whatever changes around the browser, as long
\* as its page loads are those of one visitor id.
THEOREM VerifiedVisitorsPass ==
    ASSUME OneVisitor, HasTrustStore PROVE Spec => VerifiedNotAskedAgain
<1>1. ASSUME GuardInv, [Next]_vars PROVE [\A b \in Tabs : ~ AskedAgain(b)]_vars
  <2>. SUFFICES ASSUME NEW b \in Tabs, AskedAgain(b) PROVE FALSE
    OBVIOUS
  <2>1. at[b] = "load" /\ at'[b] = "floor" /\ Proven(from[b])
    BY DEF AskedAgain
  <2>2. who[b] = Visitor(b)
    BY <1>1, <2>1 DEF GuardInv, Carried, Inside
  <2>3. Trusted(who[b], from[b])
    BY <1>1, <2>1, <2>2 DEF Trusted, Proven, GuardInv, Recorded
  <2>4. ASSUME NEW t \in Tabs, Load(t) \/ Run(t) PROVE FALSE
    <3>1. t = b
      BY <1>1, <2>1, <2>4
      DEF Load, Run, CheckTrust, Revalidate, Floor, Reputation, Redirect, OpenLink, VerifyLink,
          Goto, Respond, GuardInv, Shape
    <3>2. ~ CheckTrust(b)
      BY <1>1, <2>1, <2>3 DEF CheckTrust, Goto, Respond, GuardInv, Shape
    <3>. QED
      BY <1>1, <2>1, <2>4, <3>1, <3>2
      DEF Load, Run, Revalidate, Floor, Reputation, Redirect, OpenLink, VerifyLink, Goto,
          GuardInv, Shape
  <2>. QED BY <1>1, <2>1, <2>4, GuardSteps DEF GuardInv, Shape
<1>. QED BY <1>1, GuardInit, GuardNext, PTL DEF Spec, VerifiedNotAskedAgain

\* With bind_trust_to_ip, a page load from a flagged address is served only on a verification
\* completed at that address or on a receipt that counts here, for any receipts, lifetimes and
\* reputations, to a browser with one tab.
THEOREM FlaggedPassOnProof ==
    ASSUME OneTab PROVE Spec => FlaggedServedOnlyOnProof
<1>. DEFINE Proved(b) == BindTrust /\ Served(b) /\ from'[b] \in flagged =>
                           \/ Vouched(b)
                           \/ /\ last # None
                              /\ last.ip = from[b]
                              /\ at[b] = "load" => last.until > now
<1>1. ASSUME GuardInv, Held, [Next]_vars PROVE [\A b \in Tabs : Proved(b)]_vars
  <2>. SUFFICES ASSUME NEW b \in Tabs, BindTrust, Served(b), from'[b] \in flagged
                PROVE  \/ Vouched(b)
                       \/ /\ last # None
                          /\ last.ip = from[b]
                          /\ at[b] = "load" => last.until > now
    OBVIOUS
  <2>1. at[b] # "served" /\ at'[b] = "served"
    BY DEF Served
  <2>2. CASE Load(b)
    <3>1. /\ receipt # None /\ Verifies(receipt, now)
          /\ vouched' = [vouched EXCEPT ![b] = receipt]
      BY <1>1, <2>1, <2>2 DEF Load, Goto, GuardInv, Shape
    <3>2. vouched'[b] = receipt
      BY <1>1, <3>1 DEF GuardInv, Shape
    <3>. QED BY <3>1, <3>2 DEF Vouched, Verifies
  <2>3. CASE CheckTrust(b)
    <3>1. Trusted(who[b], from[b]) /\ at[b] = "load"
      BY <1>1, <2>1, <2>3 DEF CheckTrust, Goto, GuardInv, Shape
    <3>2. who[b] = Visitor(b)
      BY <1>1, <3>1 DEF GuardInv, Carried, Inside
    <3>. QED BY <1>1, <3>1, <3>2 DEF Trusted, GuardInv, Recorded
  <2>4. CASE Revalidate(b)
    <3>1. at[b] = "revalidate" /\ vouched' = vouched
      BY <2>4 DEF Revalidate
    <3>. QED BY <1>1, <3>1 DEF Held, Counts, Vouched
  <2>5. ~ (Run(b) /\ ~ CheckTrust(b) /\ ~ Revalidate(b))
    BY <1>1, <2>1
    DEF Run, Floor, Reputation, Redirect, OpenLink, VerifyLink, Goto, Respond, GuardInv, Shape
  <2>6. ASSUME NEW t \in Tabs, Load(t) \/ Run(t) PROVE Load(b) \/ CheckTrust(b) \/ Revalidate(b)
    BY <2>5, <2>6 DEF OneTab
  <2>7. (\E t \in Tabs : Load(t) \/ Run(t)) \/ at' = at
           \/ (\E t \in Tabs : at' = [at EXCEPT ![t] = "away"])
    BY <1>1, GuardSteps
  <2>8. ~ (at' = at \/ (\E t \in Tabs : at' = [at EXCEPT ![t] = "away"]))
    BY <1>1, <2>1 DEF GuardInv, Shape
  <2>. QED BY <2>2, <2>3, <2>4, <2>6, <2>7, <2>8
<1>. QED BY <1>1, GuardInit, GuardNext, HeldNext, PTL DEF Spec, FlaggedServedOnlyOnProof, OneVisitor

-----------------------------------------------------------------------------

\* A page load that mints a cookie is that of its own visitor, so no account's id ever
\* gets into the cookie.
Minted == \A b \in Tabs : fresh[b] => who[b] = b

TypeInv == TypeOK /\ Minted

LEMMA TypeInit == Init => TypeInv
  BY GuardAssumption DEF Init, TypeInv, TypeOK, Minted, Ids, Places, Decisions

LEMMA RespondType ==
    ASSUME TypeInv, NEW b \in Tabs, NEW place \in Places, Respond(b, place)
    PROVE  cookie' \in Tabs \union {None} /\ at' \in [Tabs -> Places]
  BY DEF TypeInv, TypeOK, Minted, Respond, Goto

LEMMA GotoType ==
    ASSUME TypeOK, NEW b \in Tabs, NEW place \in Places, Goto(b, place)
    PROVE  at' \in [Tabs -> Places]
  BY DEF TypeOK, Goto

LEMMA SomePlaces == {"away", "load", "revalidate", "floor", "reputation", "redirect", "link",
                     "open", "back", "served"} \subseteq Places
  BY DEF Places

LEMMA TypeLoad ==
    ASSUME TypeInv, NEW b \in Tabs, Load(b)
    PROVE  TypeInv'
<1>. DEFINE mints == ~ SignedIn /\ cookie = None
            visitor == IF SignedIn THEN Account ELSE IF mints THEN b ELSE cookie
            valid == receipt # None /\ Verifies(receipt, now)
            entitled == IF valid THEN receipt ELSE None
<1>1. /\ from' = [from EXCEPT ![b] = address]
      /\ who' = [who EXCEPT ![b] = visitor]
      /\ fresh' = [fresh EXCEPT ![b] = mints]
      /\ vouched' = [vouched EXCEPT ![b] = entitled]
      /\ trust' = IF mints THEN [trust EXCEPT ![b] = None] ELSE trust
      /\ running' = IF mints THEN running \ {b} ELSE running
      /\ UNCHANGED <<worldVars, raised, link, last>>
  BY DEF Load
<1>2. /\ \/ Goto(b, "served") /\ cookie' = IF mints THEN visitor ELSE cookie
         \/ Goto(b, "revalidate") /\ UNCHANGED cookie
         \/ Goto(b, "load") /\ UNCHANGED cookie
  BY DEF Load
<1>3. /\ visitor \in Ids
      /\ mints => visitor = b
      /\ mints \in BOOLEAN
      /\ entitled \in Receipts(Nat) \union {None}
  BY DEF TypeInv, TypeOK, Ids
<1>. HIDE DEF mints, visitor, entitled
<1>4. at' \in [Tabs -> Places] /\ cookie' \in Tabs \union {None}
  BY <1>2, <1>3, GotoType, SomePlaces DEF TypeInv, TypeOK
<1>5. /\ who' \in [Tabs -> Ids] /\ from' \in [Tabs -> Addresses]
      /\ fresh' \in [Tabs -> BOOLEAN]
      /\ vouched' \in [Tabs -> Receipts(Nat) \union {None}]
      /\ trust' \in [Ids -> TrustEntry \union {None}] /\ running' \in SUBSET Ids
  BY <1>1, <1>3 DEF TypeInv, TypeOK
<1>6. Minted'
  BY <1>1, <1>3 DEF TypeInv, TypeOK, Minted
<1>. QED BY <1>1, <1>4, <1>5, <1>6 DEF TypeInv, TypeOK, worldVars

LEMMA TypeRun ==
    ASSUME TypeInv, NEW b \in Tabs, Run(b)
    PROVE  TypeInv'
<1>. USE GuardAssumption DEF worldVars, storeVars
<1>1. CASE CheckTrust(b)
  BY <1>1, RespondType, GotoType, SomePlaces DEF CheckTrust, TypeInv, TypeOK, Minted
<1>2. CASE Revalidate(b)
  BY <1>2, RespondType, GotoType, SomePlaces DEF Revalidate, TypeInv, TypeOK, Minted
<1>3. CASE Floor(b)
  <2>1. (Strict \/ odd \/ Raised(who[b])) \in BOOLEAN
    BY DEF TypeInv, TypeOK, Raised
  <2>2. raised' \in [Tabs -> BOOLEAN]
    BY <1>3, <2>1 DEF Floor, TypeInv, TypeOK
  <2>. QED BY <1>3, <2>2, GotoType, SomePlaces DEF Floor, TypeInv, TypeOK, Minted
<1>4. CASE Reputation(b)
  BY <1>4, RespondType, GotoType, SomePlaces DEF Reputation, TypeInv, TypeOK, Minted
<1>5. CASE Redirect(b)
  <2>1. link' \in [Tabs -> Decisions]
    BY <1>5 DEF Redirect, TypeInv, TypeOK, Decisions
  <2>. QED BY <1>5, <2>1, RespondType, SomePlaces DEF Redirect, TypeInv, TypeOK, Minted
<1>6. CASE OpenLink(b)
  <2>1. link' \in [Tabs -> Decisions]
    BY <1>6 DEF OpenLink, TypeInv, TypeOK, Decisions
  <2>. QED BY <1>6, <2>1, GotoType, SomePlaces DEF OpenLink, TypeInv, TypeOK, Minted
<1>7. CASE VerifyLink(b)
  <2>1. [until |-> now + TrustTtl, ip |-> address] \in TrustEntry
    BY DEF TypeInv, TypeOK, TrustEntry
  <2>2. trust' \in [Ids -> TrustEntry \union {None}] /\ last' \in TrustEntry \union {None}
    BY <1>7, <2>1 DEF VerifyLink, TypeInv, TypeOK
  <2>. QED BY <1>7, <2>2, GotoType, SomePlaces DEF VerifyLink, TypeInv, TypeOK, Minted
<1>. QED BY <1>1, <1>2, <1>3, <1>4, <1>5, <1>6, <1>7 DEF Run

LEMMA TypeNext == TypeInv /\ [Next]_vars => TypeInv'
<1>. SUFFICES ASSUME TypeInv, [Next]_vars PROVE TypeInv'
  OBVIOUS
<1>. USE DEF worldVars, storeVars, tabVars
<1>1. CASE \E b \in Tabs : Load(b) \/ Run(b)
  BY <1>1, TypeLoad, TypeRun
<1>2. ASSUME NEW b \in Tabs, Leave(b) PROVE TypeInv'
  BY <1>2, GotoType, SomePlaces DEF Leave, TypeInv, TypeOK, Minted
<1>3. CASE Report \/ (\E v \in Ids : Calm(v))
  <2>1. (SignedIn \/ cookie # None) => (IF SignedIn THEN Account ELSE cookie) \in Ids
    BY DEF TypeInv, TypeOK, Ids
  <2>2. running' \in SUBSET Ids /\ changes' \in Nat
    BY <1>3, <2>1 DEF Report, Calm, TypeInv, TypeOK
  <2>. QED BY <1>3, <2>2 DEF Report, Calm, TypeInv, TypeOK, Minted
<1>4. CASE Reassess \/ Roam \/ Tick
  BY <1>4, GuardAssumption DEF Reassess, Roam, Tick, TypeInv, TypeOK, Minted
<1>5. CASE Vouch
  <2>1. PICK c \in Claims : receipt' = Issue(c, now)
    BY <1>5 DEF Vouch
  <2>2. receipt' \in Receipts(Nat) \union {None}
    BY <2>1, ReceiptAssumption DEF TypeInv, TypeOK, Issue, Receipts
  <2>. QED BY <1>5, <2>2 DEF Vouch, TypeInv, TypeOK, Minted
<1>6. CASE UNCHANGED vars
  BY <1>6 DEF vars, TypeInv, TypeOK, Minted
<1>. QED BY <1>1, <1>2, <1>3, <1>4, <1>5, <1>6 DEF Next

\* Every variable has its type: the cookie never carries an account's id, whichever tabs
\* mint one, and no lifetime is short of a number.
THEOREM TypeCorrect == Spec => []TypeOK
<1>1. TypeInv => TypeOK
  BY DEF TypeInv
<1>. QED BY <1>1, TypeInit, TypeNext, PTL DEF Spec
=============================================================================
