-------------------------- MODULE VerificationLink --------------------------
(***************************************************************************)
(* What a verification link promises to its users, whatever runs behind    *)
(* it: a link is opened once, may be verified once, may lapse, and never   *)
(* comes back; a call is told "verified" only of a link that has been      *)
(* settled, "unknown" only of a link that is gone, and only a settled link *)
(* is announced to the bot.  base.py's VerificationStore and gate.py's     *)
(* docstrings are the code's wording of it.                                *)
(***************************************************************************)
CONSTANTS Tokens, Calls, None

VARIABLES
    link,       \* the life of each token
    asked,      \* the token each call was made for
    answered,   \* what each call was told
    announced   \* the calls that published captcha_verified

vars == <<link, asked, answered, announced>>

Init ==
    /\ link = [k \in Tokens |-> "none"]
    /\ asked = [t \in Calls |-> None]
    /\ answered = [t \in Calls |-> "none"]
    /\ announced = {}

Settled(k) == link[k] \in {"verified", "gone"}

Open(k) ==
    /\ link[k] = "none"
    /\ link' = [link EXCEPT ![k] = "open"]
    /\ UNCHANGED <<asked, answered, announced>>

Verify(k) ==
    /\ link[k] = "open"
    /\ link' = [link EXCEPT ![k] = "verified"]
    /\ UNCHANGED <<asked, answered, announced>>

Ask(t, k) ==
    /\ asked[t] = None
    /\ link[k] # "none"
    /\ asked' = [asked EXCEPT ![t] = k]
    /\ UNCHANGED <<link, answered, announced>>

\* Links past their ttl go; the call that noticed, if one did, is told so.
Lapse(gone) ==
    /\ \A k \in gone : link[k] \in {"open", "verified"}
    /\ link' = [k \in Tokens |-> IF k \in gone THEN "gone" ELSE link[k]]
    /\ UNCHANGED <<asked, announced>>

Tell(t, what) ==
    /\ asked[t] # None
    /\ answered[t] = "none"
    /\ answered' = [answered EXCEPT ![t] = what]

Answer(t) ==
    /\ \/ Tell(t, "verified") /\ Settled(asked[t])
       \/ Tell(t, "unknown") /\ link[asked[t]] = "gone"
       \/ \E what \in {"pending", "failed", "error"} : Tell(t, what)
    /\ UNCHANGED <<link, asked, announced>>

LapseAndTell(t) ==
    /\ Tell(t, "unknown")
    /\ Lapse({asked[t]})

Announce(t) ==
    /\ Tell(t, "verified")
    /\ Settled(asked[t])
    /\ announced' = announced \union {t}
    /\ UNCHANGED <<link, asked>>

Next ==
    \/ \E k \in Tokens : Open(k) \/ Verify(k)
    \/ \E t \in Calls, k \in Tokens : Ask(t, k)
    \/ \E gone \in SUBSET Tokens : Lapse(gone) /\ UNCHANGED answered
    \/ \E t \in Calls : Answer(t) \/ LapseAndTell(t) \/ Announce(t)

Spec == Init /\ [][Next]_vars
=============================================================================
