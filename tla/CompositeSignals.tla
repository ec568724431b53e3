-------------------------- MODULE CompositeSignals --------------------------
(***************************************************************************)
(* The composite signals of risk.py, CorroboratedRiskSignal and Conditio-  *)
(* nalRiskSignal, as functions of what their children answer; a child that *)
(* raises abstains.  Suspicions are in units of 1/Unit.                    *)
(***************************************************************************)
EXTENDS Integers, FiniteSets

CONSTANTS
    Unit,               \* a suspicion of 1.0
    None,               \* abstention, no override; no min_agreements
    SuspicionThreshold, \* suspicion_threshold, threshold
    MinAgreements,      \* min_agreements
    OverrideLevel       \* override_level

Abstains == [suspicion |-> None, override |-> None]

Speaks(c) == c.suspicion # None \/ c.override # None

\* _signal_flags
Flags(c) ==
    \/ c.override # None
    \/ c.suspicion # None /\ c.suspicion >= SuspicionThreshold

Required(active) == IF MinAgreements = None THEN active ELSE MinAgreements

Share_MutOfSpeakers(flagged, active, contributed) == (flagged * Unit) \div contributed

\* The agreement fraction (Unit is a multiple of every number of children).
Share(flagged, active, contributed) == (flagged * Unit) \div active

\* CorroboratedRiskSignal.assess over the enabled children; answer is what each says.
Corroborated(answer, enabledChildren) ==
    LET active == Cardinality(enabledChildren)
        contributed == Cardinality({c \in enabledChildren : Speaks(answer[c])})
        flagged == Cardinality({c \in enabledChildren : Flags(answer[c])})
    IN  IF contributed = 0 THEN Abstains
        ELSE IF flagged >= Required(active)
        THEN [suspicion |-> Unit, override |-> OverrideLevel]
        ELSE [suspicion |-> Share(flagged, active, contributed), override |-> None]

\* ConditionalRiskSignal.assess: then's answer if when flags; neither's `enabled` is
\* looked at.
Conditional(when, then) == IF Flags(when) THEN then ELSE Abstains
=============================================================================
