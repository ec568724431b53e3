---------------------------- MODULE VisitorStores ----------------------------
(***************************************************************************)
(* What the web processes remember of visitors between requests: a run-    *)
(* ning risk level (RunningRisk), trust (TrustStore) and movements (Rep-   *)
(* layGuard), each in a store of its own with the same life: looked up,    *)
(* lazily deleted, inserted or updated, purged.  The stores share no row   *)
(* and no key, so steps of different stores commute and what can happen to *)
(* one is what happens to it while the others rest: a behaviour moves one. *)
(***************************************************************************)
EXTENDS Naturals

CONSTANTS
    Calls, None, MaxTime, MaxFaults,    \* of all three
    Tiered, Ttl, FastTtl,
    Levels,                             \* RunningRisk's
    Ips,                                \* TrustStore's
    Runs, Prints                        \* ReplayGuard's

VARIABLES
    moving,     \* the store that moves: "risk", "trust" or "replay"
    riskNow, riskSlow, riskFast, riskArgs, riskPc, riskWant, riskPut, riskSeen, riskUntil,
    riskResult, riskFaults, riskExcuses,
    trustNow, trustSlow, trustFast, trustArgs, trustPc, trustSeen, trustSpan, trustAnswer,
    trustFaults, trustExcuses,
    replayNow, replayEntry, replayArgs, replayPc, replayUntil, replayOutcome, replayFaults,
    replayExcuses

Risk == INSTANCE RunningRisk WITH
    now <- riskNow, slow <- riskSlow, fast <- riskFast, args <- riskArgs, pc <- riskPc,
    want <- riskWant, put <- riskPut, seen <- riskSeen, until <- riskUntil,
    result <- riskResult, faults <- riskFaults, excuses <- riskExcuses

Trust == INSTANCE TrustStore WITH
    now <- trustNow, slow <- trustSlow, fast <- trustFast, args <- trustArgs,
    pc <- trustPc, seen <- trustSeen, span <- trustSpan, answer <- trustAnswer,
    faults <- trustFaults, excuses <- trustExcuses

Replay == INSTANCE ReplayGuard WITH
    now <- replayNow, entry <- replayEntry, args <- replayArgs,
    pc <- replayPc, until <- replayUntil, outcome <- replayOutcome,
    faults <- replayFaults, excuses <- replayExcuses

ASSUME StoresAssumption ==
    Risk!RiskAssumption /\ Trust!TrustAssumption /\ Replay!ReplayAssumption

riskVars == <<riskNow, riskSlow, riskFast, riskArgs, riskPc, riskWant, riskPut, riskSeen,
              riskUntil, riskResult, riskFaults, riskExcuses>>
trustVars == <<trustNow, trustSlow, trustFast, trustArgs, trustPc, trustSeen, trustSpan,
               trustAnswer, trustFaults, trustExcuses>>
replayVars == <<replayNow, replayEntry, replayArgs, replayPc, replayUntil, replayOutcome,
                replayFaults, replayExcuses>>
vars == <<moving, riskVars, trustVars, replayVars>>

Init ==
    /\ moving \in {"risk", "trust", "replay"}
    /\ Risk!Init /\ Trust!Init /\ Replay!Init
    /\ moving # "risk" => riskSlow = None
    /\ moving # "trust" => trustSlow = None
    /\ moving # "replay" => \A f \in Prints : replayEntry[f] = None

MoveRisk == moving = "risk" /\ Risk!Next /\ UNCHANGED <<moving, trustVars, replayVars>>
MoveTrust == moving = "trust" /\ Trust!Next /\ UNCHANGED <<moving, riskVars, replayVars>>
MoveReplay == moving = "replay" /\ Replay!Next /\ UNCHANGED <<moving, riskVars, trustVars>>

Next == MoveRisk \/ MoveTrust \/ MoveReplay

Spec == Init /\ [][Next]_vars

-----------------------------------------------------------------------------
(* Properties: those of the three modules, where they are explained. *)

\* A level that bump() reported is remembered for its ttl, and a full fast tier never
\* hides it; or an overlap, a lost write or a late DELETE is to blame.
LevelRemembered == Risk!RememberedUnlessExcused

\* What the capped fast tier says of a level is never below what the database says.
FastLevelHidesNothing == Risk!FastHidesNothing

\* A visitor who is told to be trusted was trusted at that address not longer than a ttl
\* ago; or one of the three is to blame.
TrustIsCurrent == Trust!CurrentUnlessExcused

\* A visitor trusted at an address is found trusted there for the ttl; or one of the
\* three is to blame.
TrustRemembered == Trust!RememberedUnlessExcused

\* Nobody is refused for a movement that nobody has recorded within the ttl.
RefusedOnlyForRecent == Replay!RefusedOnlyIfRecent

\* A movement that is repeated after its recording is caught; or a late DELETE or a late
\* write is to blame.
ReplayCaught == Replay!CaughtUnlessExcused
=============================================================================
