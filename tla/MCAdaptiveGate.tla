--------------------------- MODULE MCAdaptiveGate ---------------------------
(* Small instances of AdaptiveGate for TLC. *)
EXTENDS AdaptiveGate, TLC

CONSTANTS t1, t2, t3, k1, r1, r2, none, clear

TwoCalls   == {t1, t2}
ThreeCalls == {t1, t2, t3}
OneToken   == {k1}
OneReplica == {r1}
TwoReplicas == {r1, r2}

Look(risky) == [op |-> "info", risky |-> risky, passes |-> FALSE, solves |-> FALSE]
Try(risky, passes, solves) ==
    [op |-> "verify", risky |-> risky, passes |-> passes, solves |-> solves]

\* From a risky address: a page load, and verifications that have everything right
\* or fail the account check ...
RiskyVisits == {Look(TRUE), Try(TRUE, TRUE, TRUE), Try(TRUE, FALSE, TRUE)}
\* ... or the captcha.
RiskyOrWrong == RiskyVisits \union {Try(TRUE, TRUE, FALSE)}
\* From a risky and from a clean address.
AllVisits == RiskyVisits \union {Look(FALSE), Try(FALSE, TRUE, TRUE)}

\* Calls are interchangeable, and so are replicas.
CallSymmetry == Permutations(ThreeCalls)
AllSymmetry == CallSymmetry \union Permutations(TwoReplicas)
=============================================================================
