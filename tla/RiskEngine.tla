---------------------------- MODULE RiskEngine -----------------------------
(***************************************************************************)
(* RiskEngine (risk.py): an assess() walks the list of signals, whatever   *)
(* it is by now, and awaits each of them, while admin code of the same     *)
(* event loop calls add_signal and remove_signal or flips a signal's       *)
(* `enabled`.  The walk is Python's list iterator, which keeps an index    *)
(* into the list.  Between two awaits nothing else runs.  Assessments      *)
(* share nothing but the list, so one is enough.                           *)
(*                                                                         *)
(* Suspicions and thresholds are in units of 1/Unit; the division by the   *)
(* total weight is kept exact by multiplying the thresholds instead.       *)
(*                                                                         *)
(* One of the signals may be a CorroboratedRiskSignal over the Children,   *)
(* and one a ConditionalRiskSignal over two of them.  Their walk over the  *)
(* children is taken as one await: children are toggled between            *)
(* assessments only.                                                       *)
(***************************************************************************)
EXTENDS CompositeSignals, Sequences, SequencesExt

CONSTANTS
    Signals,        \* names of signals; each signal has a name of its own
    Weight,         \* weight of each signal
    Thresholds,     \* level_thresholds
    Opinions,       \* the contributions a signal may answer with
    Children,       \* the children of the composite signals
    ChildOpinions,  \* the contributions a child may answer with
    Corroborating,  \* the CorroboratedRiskSignal
    Chained,        \* the ConditionalRiskSignal ...
    When, Then,     \* ... and its when and then
    MaxEdits        \* bound on the admin's edits during one assessment

Levels == 0..3      \* MINIMAL, LOW, ELEVATED, HIGH
Contribution == [suspicion: 0..Unit \union {None}, override: Levels \union {None}]

ASSUME EngineAssumption ==
    /\ Unit \in Nat \ {0}
    /\ IsFiniteSet(Signals)
    /\ None \notin Signals \union Int
    /\ Weight \in [Signals -> Nat]
    /\ Thresholds \in [Levels \ {0} -> 0..Unit]
    /\ Opinions \subseteq Contribution
    /\ ChildOpinions \subseteq Contribution
    /\ MinAgreements \in Nat \union {None}
    /\ OverrideLevel \in Levels
    /\ IsFiniteSet(Children)
    /\ {When, Then} \subseteq Children
    /\ Corroborating # Chained
    /\ MaxEdits \in Nat

VARIABLES
    signals,    \* RiskEngine.signals
    enabled,    \* the signals whose `enabled` is true
    shortCircuit, \* short_circuit_on_override
    pc,         \* where the assessment is
    index,      \* of the list iterator: how many positions it has passed
    current,    \* the signal awaited
    best,       \* best_override
    by,         \* override_signal
    sum,        \* weighted_sum
    total,      \* total_weight
    level,      \* of the RiskAssessment returned
    opinion,    \* what each signal answers in this assessment
    said,       \* what each child answers
    awake,      \* the children whose `enabled` is true
    asked,      \* the signals asked so far, in order
    raised,     \* those that raised
    steady,     \* the signals registered and enabled ever since it began
    edits       \* what admin code did since it began

engineVars == <<signals, enabled, shortCircuit>>
localVars == <<index, current, best, by, sum, total>>
ghostVars == <<opinion, said, awake, asked, raised, steady, edits>>
vars == <<engineVars, pc, localVars, level, ghostVars>>

PCs == {"idle", "next", "await", "conclude", "done"}
Edits == {"insert", "append", "remove", "toggle"}
Composites == {Corroborating, Chained}

Registered == ToSet(signals)

Init ==
    /\ signals \in UNION {SetToSeqs(S) : S \in SUBSET Signals}
    /\ enabled \in SUBSET Signals
    /\ shortCircuit \in BOOLEAN
    /\ pc = "idle"
    /\ index = 0
    /\ current = None
    /\ best = None
    /\ by = None
    /\ sum = 0
    /\ total = 0
    /\ level = 0
    /\ opinion = [s \in Signals |-> Abstains]
    /\ said = [c \in Children |-> Abstains]
    /\ awake = Children
    /\ asked = <<>>
    /\ raised = {}
    /\ steady = {}
    /\ edits = <<>>

-----------------------------------------------------------------------------
\* The definitions named ..._Mut are broken variants of the definition that follows
\* them, each a slip somebody could make in that code; the properties below are
\* checked to catch them.

\* What a signal is going to say: a composite one goes by its children.
Says(s, plain) ==
    CASE s = Corroborating -> Corroborated(said', awake')
      [] s = Chained -> Conditional(said'[When], said'[Then])
      [] OTHER -> plain[s]

\* assess starts; what everybody is going to say is settled by the visitor.
Begin ==
    /\ pc = "idle"
    /\ pc' = "next"
    /\ said' \in [Children -> ChildOpinions]
    /\ awake' \in SUBSET Children
    /\ \E plain \in [Signals \ Composites -> Opinions] :
           opinion' = [s \in Signals |-> Says(s, plain)]
    /\ steady' = Registered \intersect enabled
    /\ UNCHANGED <<engineVars, localVars, level, asked, raised, edits>>

\* The iterator's next signal: awaited if enabled, passed over if not.
Advance ==
    /\ pc = "next"
    /\ index < Len(signals)
    /\ index' = index + 1
    /\ \/ signals[index + 1] \in enabled /\ pc' = "await" /\ current' = signals[index + 1]
       \/ signals[index + 1] \notin enabled /\ UNCHANGED <<pc, current>>
    /\ UNCHANGED <<engineVars, best, by, sum, total, level, ghostVars>>

Exhausted ==
    /\ pc = "next"
    /\ index >= Len(signals)
    /\ pc' = "conclude"
    /\ UNCHANGED <<engineVars, localVars, level, ghostVars>>

Count_MutAbstains(c) ==
    /\ sum' = IF c.suspicion = None THEN sum ELSE sum + c.suspicion * Weight[current]
    /\ total' = total + Weight[current]

\* A contribution enters the average, unless it abstains.
Count(c) ==
    /\ sum' = IF c.suspicion = None THEN sum ELSE sum + c.suspicion * Weight[current]
    /\ total' = IF c.suspicion = None THEN total ELSE total + Weight[current]

\* The awaited signal answers, or raises, which is an abstention (a composite one never
\* raises).  A higher override than the best so far ends the walk under
\* short_circuit_on_override.
Answer(raises) ==
    LET c == IF raises THEN Abstains ELSE opinion[current]
        higher == c.override # None /\ (best # None => c.override > best)
    IN  /\ pc = "await"
        /\ ~ (raises /\ current \in Composites)
        /\ asked' = Append(asked, current)
        /\ raised' = IF raises THEN raised \union {current} ELSE raised
        /\ \/ /\ higher
              /\ best' = c.override
              /\ by' = current
           \/ ~ higher /\ UNCHANGED <<best, by>>
        /\ \/ higher /\ shortCircuit /\ pc' = "conclude" /\ UNCHANGED <<sum, total>>
           \/ ~ (higher /\ shortCircuit) /\ pc' = "next" /\ Count(c)
        /\ UNCHANGED <<engineVars, index, current, level, opinion, said, awake, steady, edits>>

\* The highest level whose threshold s / t reaches; no evidence is a suspicion of 0.
LevelOf(s, t) ==
    LET reached == {l \in DOMAIN Thresholds :
                      IF t = 0 THEN Thresholds[l] = 0 ELSE s >= Thresholds[l] * t}
    IN  Max(reached \union {0})

Conclude ==
    /\ pc = "conclude"
    /\ pc' = "done"
    /\ level' = IF best # None THEN best ELSE LevelOf(sum, total)
    /\ UNCHANGED <<engineVars, localVars, ghostVars>>

-----------------------------------------------------------------------------
\* Admin code runs while the assessment awaits a signal; Init covers what it has done
\* before.
Edit(kind) ==
    /\ pc = "await"
    /\ Len(edits) < MaxEdits
    /\ edits' = Append(edits, kind)

AddSignal_MutPrepends(s, before) ==
    /\ s \notin Registered
    /\ IF before \in Registered
       THEN /\ Edit("insert")
            /\ signals' = InsertAt(signals, SelectInSeq(signals, LAMBDA x : x = before), s)
       ELSE Edit("append") /\ signals' = <<s>> \o signals
    /\ UNCHANGED <<enabled, shortCircuit, pc, localVars, level, opinion,
                   said, awake, asked, raised, steady>>

\* add_signal: ahead of the signal named `before`, or at the end.
AddSignal(s, before) ==
    /\ s \notin Registered
    /\ \/ /\ before \in Registered
          /\ Edit("insert")
          /\ signals' = InsertAt(signals, SelectInSeq(signals, LAMBDA x : x = before), s)
       \/ /\ before \notin Registered
          /\ Edit("append")
          /\ signals' = Append(signals, s)
    /\ UNCHANGED <<enabled, shortCircuit, pc, localVars, level, opinion,
                   said, awake, asked, raised, steady>>

RemoveSignal(s) ==
    /\ Edit("remove")
    /\ s \in Registered
    /\ signals' = RemoveFirst(signals, s)
    /\ steady' = steady \ {s}
    /\ UNCHANGED <<enabled, shortCircuit, pc, localVars, level, opinion, said,
                   awake, asked, raised>>

\* get_signal(name).enabled = ...
Toggle(s) ==
    /\ Edit("toggle")
    /\ s \in Registered
    /\ enabled' = IF s \in enabled THEN enabled \ {s} ELSE enabled \union {s}
    /\ steady' = steady \ {s}
    /\ UNCHANGED <<signals, shortCircuit, pc, localVars, level, opinion, said,
                   awake, asked, raised>>

Next ==
    \/ Begin
    \/ Advance
    \/ Exhausted
    \/ \E raises \in BOOLEAN : Answer(raises)
    \/ Conclude
    \/ \E s \in Signals, before \in Signals \union {None} : AddSignal(s, before)
    \/ \E s \in Signals : RemoveSignal(s) \/ Toggle(s)

Spec == Init /\ [][Next]_vars

-----------------------------------------------------------------------------
(* Properties *)

TypeOK ==
    /\ signals \in Seq(Signals)
    /\ enabled \in SUBSET Signals
    /\ shortCircuit \in BOOLEAN
    /\ pc \in PCs
    /\ index \in Nat
    /\ current \in Signals \union {None}
    /\ best \in Levels \union {None}
    /\ by \in Signals \union {None}
    /\ sum \in Nat
    /\ total \in Nat
    /\ level \in Levels
    /\ opinion \in [Signals -> Contribution]
    /\ said \in [Children -> Contribution]
    /\ awake \in SUBSET Children
    /\ asked \in Seq(Signals)
    /\ raised \in SUBSET Signals
    /\ steady \in SUBSET Signals
    /\ edits \in Seq(Edits)

Edited(kind) == kind \in ToSet(edits)
Overrides(S) == {s \in S : opinion[s].override # None}

\* The level whose threshold a weighted average of s / t reaches, if any, and no higher
\* level's; a threshold that is met exactly is reached, and no evidence reaches only 0.
IsMapped(l, s, t) ==
    LET below(m) == IF t = 0 THEN Thresholds[m] > 0 ELSE s < Thresholds[m] * t
    IN  /\ l # 0 => ~ below(l)
        /\ \A m \in Levels : m > l => below(m)

\* What the class docstring says an assessment is, of the signals registered and
\* enabled, of which those in R raise.
Documented(R) ==
    LET heard == {i \in DOMAIN signals : signals[i] \in enabled \ R}
        over == {i \in heard : opinion[signals[i]].override # None}
        counted == {s \in {signals[i] : i \in heard} : opinion[s].suspicion # None}
        weighed == [s \in counted |-> opinion[s].suspicion * Weight[s]]
    IN  IF over = {}
        THEN CHOOSE l \in Levels :
                IsMapped(l, SumFunction(weighed), SumFunctionOnSet(Weight, counted))
        ELSE IF shortCircuit THEN opinion[signals[Min(over)]].override
        ELSE Max({opinion[signals[i]].override : i \in over})

\* An assessment nobody edits the engine during is what the docstring says: the
\* first or the highest override, otherwise the weighted average of the signals that
\* neither abstained nor raised, mapped onto the thresholds.
AssessedAsDocumented ==
    pc = "done" /\ edits = <<>> => level = Documented(raised)

\* Without a removal, no edit during an assessment makes it pass over a signal that
\* was registered and enabled all along: it is asked, or an override came first.
NobodySkipped ==
    pc = "done" /\ ~ Edited("remove") =>
        steady \subseteq ToSet(asked) \/ (shortCircuit /\ best # None)

\* Without a `before`, no edit during an assessment makes a signal's opinion count
\* twice: what is added goes to the end, ahead of the iterator.
NobodyAskedTwice ==
    Edited("insert") \/ Edited("remove") \/ Cardinality(ToSet(asked)) = Len(asked)

\* Both: the walk is fair to the signals while the list is edited under it.
WalkIsFair == NobodySkipped /\ NobodyAskedTwice

Flagging == {c \in awake : Flags(said[c])}

\* Nothing but the corroborating signal has anything to say.
OnlyCorroborated ==
    /\ Corroborating \in Registered \intersect enabled
    /\ \A s \in (Registered \intersect enabled) \ {Corroborating} :
          s \in raised \/ ~ Speaks(opinion[s])

\* What CorroboratedRiskSignal is for: "a bad IP on its own no longer forces an
\* escalation".  While another child is enabled, be it one that abstains, a single child
\* that flags brings an assessment neither to the override's level nor, by the agreement
\* fraction and the thresholds, to HIGH.
NoLoneEscalation ==
    /\ pc = "done" /\ edits = <<>>
    /\ OnlyCorroborated
    /\ Cardinality(Flagging) = 1 /\ Cardinality(awake) > 1
    /\ MinAgreements = None \/ MinAgreements > 1
    => level < 3

\* The same docstring: without agreement "the fraction is always strictly below `required
\* / active <= 1.0`", so that it "structurally cannot alone reach the same confidence as
\* full agreement".  (The code does not keep this: with fewer children enabled than
\* min_agreements asks for, those left make a fraction of 1.0.)
ShareStaysBelowAgreement ==
    pc = "done" /\ OnlyCorroborated /\ opinion[Corroborating].override = None
        => opinion[Corroborating].suspicion # Unit

\* The class docstring: "any hard_override wins".  (The code does not keep this while
\* signals are removed at runtime, which remove_signal is for: removing one the
\* walk has passed makes it pass over the next.)
OverrideWins ==
    pc = "done" /\ Overrides(steady) \ raised # {} => best # None
=============================================================================
