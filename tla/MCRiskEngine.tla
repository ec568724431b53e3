---------------------------- MODULE MCRiskEngine ----------------------------
(* Small instances of RiskEngine for TLC. *)
EXTENDS RiskEngine, TLC

CONSTANTS corroborated, conditional, custom, reputation, behavior, none

ThreeSignals == {corroborated, conditional, custom}
TwoChildren  == {reputation, behavior}

\* The default weight of a corroborated signal, and others.
Weights == [s \in Signals |-> CASE s = corroborated -> 3 [] s = conditional -> 1 [] OTHER -> 2]

\* The default level_thresholds, 0.25, 0.5 and 0.75, in quarters.
Quarters == [l \in 1..3 |-> l]

Op(suspicion, override) == [suspicion |-> suspicion, override |-> override]

\* Nothing to say, no and nearly full suspicion, an override.
ChildRepertoire == {Op(none, none), Op(0, none), Op(3, none), Op(4, 2)}

\* No and nearly full suspicion, a low and a high override; raising is abstaining.
Repertoire == {Op(0, none), Op(3, none), Op(4, 1), Op(4, 3)}
=============================================================================
