---------------------------- MODULE TrustReceipts ----------------------------
(***************************************************************************)
(* Trust receipts (receipts.py): a site that saw a visitor clear a captcha *)
(* signs a claim about them, and a site that trusts it lets them skip its  *)
(* own.  An Ed25519 signature is the name of the site whose key made it: a *)
(* receipt may name one site and be signed by another, but verifies only   *)
(* under the key of the signer.                                            *)
(***************************************************************************)
EXTENDS Naturals

CONSTANTS
    TrustedIssuers,  \* the keys of TrustTokenVerifier.trusted_issuers
    Claims,          \* what receipts say, and under which site's key
    Unbound,         \* no expected_subject_id, no required_purpose
    ExpectedSubject, \* expected_subject_id
    RequiredPurpose, \* required_purpose
    ReceiptTtl       \* the ttl receipts are issued with, in clock ticks

ASSUME ReceiptAssumption ==
    /\ \A c \in Claims : DOMAIN c = {"issuer", "signer", "subject", "purpose"}
    /\ ReceiptTtl \in Nat

\* TrustReceipt: a claim, with its expires_at; issue(), at time t.
Receipts(times) == [claim: Claims, until: times]
Issue(c, t) == [claim |-> c, until |-> t + ReceiptTtl]

\* TrustTokenVerifier.verify: anything wrong means no receipt.  A receipt still
\* counts at the very instant it expires.
Verifies(r, t) ==
    /\ r.claim.issuer \in TrustedIssuers
    /\ r.claim.signer = r.claim.issuer
    /\ t <= r.until
    /\ ExpectedSubject # Unbound => r.claim.subject = ExpectedSubject
    /\ RequiredPurpose # Unbound => r.claim.purpose = RequiredPurpose
=============================================================================
