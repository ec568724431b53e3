--------------------------- MODULE MCCaptchaGate ---------------------------
(* Small instances of CaptchaGate for TLC. *)
EXTENDS CaptchaGate, TLC

CONSTANTS t1, t2, t3, k1, r1, r2, none

TwoCalls   == {t1, t2}
ThreeCalls == {t1, t2, t3}
OneToken   == {k1}
OneReplica == {r1}
TwoReplicas == {r1, r2}

Look    == [op |-> "info", passes |-> FALSE, solves |-> FALSE]
Try(passes, solves) == [op |-> "verify", passes |-> passes, solves |-> solves]

\* Clicks on a click-only link that pass and fail the account check, with page loads.
Tries  == {Try(TRUE, TRUE), Try(FALSE, TRUE)}
Clicks == {Look} \union Tries
\* With a captcha: everything right, the wrong account, the wrong answer.
Answered == Tries \union {Try(TRUE, FALSE)}

\* Calls are interchangeable, and so are replicas.
ClickSymmetry == Permutations(ThreeCalls) \union Permutations(TwoReplicas)
=============================================================================
