---------------------------- MODULE MCPageGuard ----------------------------
(* Small instances of PageGuard for TLC. *)
EXTENDS PageGuard, TLC

CONSTANTS b1, b2, home, away, me, none, siteA, siteB, any, somebody, page

OneTab == {b1}
TwoTabs == {b1, b2}
TwoAddresses == {home, away}

\* Receipts: one of a trusted site, the same claim signed by another site, one that
\* site makes in its own name, and two of the trusted site about somebody else or for
\* another purpose.
Claim(issuer, signer, subject, purpose) ==
    [issuer |-> issuer, signer |-> signer, subject |-> subject, purpose |-> purpose]
OnlySiteA == {siteA}
NoSite == {}
FiveClaims ==
    {Claim(siteA, siteA, me, page), Claim(siteA, siteB, me, page),
     Claim(siteB, siteB, me, page), Claim(siteA, siteA, somebody, page),
     Claim(siteA, siteA, me, any)}
=============================================================================
