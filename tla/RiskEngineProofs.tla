--------------------------- MODULE RiskEngineProofs ---------------------------
(***************************************************************************)
(* Proofs about RiskEngine, for any signals, weights, thresholds, opinions *)
(* and edits: that the walk is fair to the signals while the list is       *)
(* edited under it; that a child of the corroborating signal that flags    *)
(* alone does not bring a visitor to the highest level; that an assessment *)
(* is what the docstring says; and where other sentences of the docstrings *)
(* hold that do not hold everywhere.                                       *)
(***************************************************************************)
EXTENDS RiskEngine, FiniteSetTheorems, SequenceTheorems, WellFoundedInduction, TLAPS

Inserted == Edited("insert")
Removed == Edited("remove")

\* add_signal takes no name twice, and only a removal moves the list back under the
\* iterator.
Listed ==
    /\ index \in Nat
    /\ edits \in Seq(Edits)
    /\ pc = "idle" => index = 0
    /\ ~ Removed =>
        /\ signals \in Seq(Signals)
        /\ IsInjective(signals)
        /\ index <= Len(signals)
        /\ steady \subseteq Registered \intersect enabled
        /\ asked \in Seq(Signals)
        /\ pc = "await" => current \in Signals

\* The iterator has passed no signal that was there all along without asking it.
Passed ==
    ~ Removed =>
        \A i \in DOMAIN signals :
            i <= index /\ signals[i] \in steady =>
                signals[i] \in ToSet(asked) \/ (pc = "await" /\ signals[i] = current)

\* The walk ends at the end of the list, or with an override.
Ended ==
    pc \in {"conclude", "done"} =>
        (shortCircuit /\ best # None) \/ (~ Removed => index >= Len(signals))

\* What was asked lies behind the iterator, once each; the signal awaited is where it is.
AskedOnce ==
    ~ Inserted /\ ~ Removed =>
        /\ IsFiniteSet(ToSet(asked)) /\ Cardinality(ToSet(asked)) = Len(asked)
        /\ \A x \in ToSet(asked) : \E i \in DOMAIN signals :
              i <= index /\ signals[i] = x /\ (pc = "await" => x # current)
        /\ pc = "await" => index \in DOMAIN signals /\ signals[index] = current

WalkInv == Listed /\ Passed /\ Ended /\ AskedOnce

\* Those that were asked and had something to say.
Voices == {s \in ToSet(asked) \ raised : Speaks(opinion[s])}

\* While nobody edits the engine: if there is no voice but the corroborating signal's, the
\* override and the average so far are its own, or nothing yet.
Voiced ==
    edits = << >> =>
        /\ ToSet(asked) \subseteq Registered \intersect enabled /\ raised \subseteq ToSet(asked)
        /\ pc = "await" => current \in Registered \intersect enabled /\ current \notin ToSet(asked)
        /\ Voices \subseteq {Corroborating} =>
            /\ best # None =>
                  Corroborating \in Voices /\ best = opinion[Corroborating].override
            /\ \/ sum = 0 /\ total = 0
               \/ /\ Corroborating \in Voices
                  /\ opinion[Corroborating].suspicion # None
                  /\ sum = opinion[Corroborating].suspicion * Weight[Corroborating]
                  /\ total = Weight[Corroborating]

\* What the corroborating signal says is settled when the assessment begins, and the level
\* when it ends.
Settled ==
    /\ awake \in SUBSET Children
    /\ pc = "idle" => asked = << >>
    /\ pc # "idle" /\ Corroborating \in Signals =>
          opinion[Corroborating] = Corroborated(said, awake)
    /\ pc = "done" => level = IF best # None THEN best ELSE LevelOf(sum, total)

VoiceInv == WalkInv /\ Voiced /\ Settled

-----------------------------------------------------------------------------
(* Sequences *)

LEMMA ToSetAppend ==
    ASSUME NEW S, NEW q \in Seq(S), NEW x \in S
    PROVE  /\ Append(q, x) \in Seq(S) /\ Len(Append(q, x)) = Len(q) + 1
           /\ ToSet(Append(q, x)) = ToSet(q) \union {x}
<1>1. /\ Append(q, x) \in Seq(S) /\ Len(Append(q, x)) = Len(q) + 1
      /\ \A i \in DOMAIN q : Append(q, x)[i] = q[i]
      /\ Append(q, x)[Len(q) + 1] = x
      /\ DOMAIN Append(q, x) = DOMAIN q \union {Len(q) + 1}
  OBVIOUS
<1>. QED BY <1>1 DEF ToSet

\* Where the one element is that equals x.
LEMMA SelectFinds ==
    ASSUME NEW S, NEW q \in Seq(S), IsInjective(q), NEW x \in ToSet(q)
    PROVE  /\ SelectInSeq(q, LAMBDA y : y = x) \in DOMAIN q
           /\ q[SelectInSeq(q, LAMBDA y : y = x)] = x
<1>. DEFINE I == {i \in 1..Len(q) : q[i] = x}
<1>1. PICK k \in DOMAIN q : q[k] = x
  BY DEF ToSet
<1>2. I = {k}
  BY <1>1 DEF IsInjective
<1>3. k \in Nat
  BY <1>1
<1>4. Min(I) = k
  BY <1>2, <1>3 DEF Min
<1>5. SelectInSeq(q, LAMBDA y : y = x) = k
  BY <1>2, <1>4 DEF SelectInSeq
<1>. QED BY <1>1, <1>5

\* What is inserted pushes the rest along.
Insertion(S, q, p, x, r) ==
    /\ r \in Seq(S) /\ Len(r) = Len(q) + 1
    /\ \A i \in DOMAIN q : i < p => r[i] = q[i]
    /\ r[p] = x
    /\ \A i \in DOMAIN q : i >= p => r[i + 1] = q[i]

LEMMA Inserts ==
    ASSUME NEW S, NEW q \in Seq(S), NEW p \in DOMAIN q, NEW x \in S
    PROVE  Insertion(S, q, p, x, InsertAt(q, p, x))
<1>. DEFINE r == InsertAt(q, p, x)
            front == SubSeq(q, 1, p - 1)
            back == SubSeq(q, p, Len(q))
            head == front \o <<x>>
<1>0. p \in Nat /\ Len(q) \in Nat /\ 1 <= p /\ p <= Len(q)
  OBVIOUS
<1>1. front \in Seq(S) /\ Len(front) = p - 1 /\ \A i \in 1..p-1 : front[i] = q[i]
  BY <1>0, SubSeqProperties
<1>2. back \in Seq(S) /\ Len(back) = Len(q) - p + 1
      /\ \A i \in 1..Len(q)-p+1 : back[i] = q[p + i - 1]
  BY <1>0, SubSeqProperties
<1>3. <<x>> \in Seq(S) /\ Len(<<x>>) = 1 /\ <<x>>[1] = x
  OBVIOUS
<1>. HIDE DEF r, front, back
<1>4. /\ head \in Seq(S) /\ Len(head) = p
      /\ \A i \in 1..p : head[i] = IF i < p THEN q[i] ELSE x
  BY <1>0, <1>1, <1>3, ConcatProperties
<1>5. r = head \o back
  BY DEF InsertAt, r, front, back
<1>. HIDE DEF head
<1>6. /\ r \in Seq(S) /\ Len(r) = p + (Len(q) - p + 1)
      /\ \A i \in 1..p + (Len(q) - p + 1) :
           r[i] = IF i <= p THEN head[i] ELSE back[i - p]
  <2>1. Len(back) = Len(q) - p + 1 /\ Len(back) \in Nat
    BY <1>0, <1>2
  <2>2. /\ head \o back \in Seq(S) /\ Len(head \o back) = Len(head) + Len(back)
        /\ \A i \in 1..Len(head)+Len(back) :
             (head \o back)[i] = IF i <= Len(head) THEN head[i] ELSE back[i - Len(head)]
    BY <1>2, <1>4, ConcatProperties
  <2>. QED BY <1>4, <1>5, <2>1, <2>2
<1>7. Len(r) = Len(q) + 1
  BY <1>0, <1>6
<1>8. ASSUME NEW i \in DOMAIN q, i < p PROVE r[i] = q[i]
  <2>1. i \in 1..p /\ i \in 1..p + (Len(q) - p + 1) /\ i <= p
    BY <1>0, <1>8
  <2>2. r[i] = head[i]
    BY <1>6, <2>1
  <2>. QED BY <1>4, <1>8, <2>1, <2>2
<1>9. r[p] = x
  <2>1. p \in 1..p /\ p \in 1..p + (Len(q) - p + 1) /\ p <= p /\ ~ (p < p)
    BY <1>0
  <2>2. r[p] = head[p]
    BY <1>6, <2>1
  <2>. QED BY <1>4, <2>1, <2>2
<1>10. ASSUME NEW i \in DOMAIN q, i >= p PROVE r[i + 1] = q[i]
  <2>1. /\ i + 1 \in 1..p + (Len(q) - p + 1) /\ ~ (i + 1 <= p)
        /\ (i + 1) - p \in 1..Len(q)-p+1 /\ p + ((i + 1) - p) - 1 = i
    BY <1>0, <1>10
  <2>2. r[i + 1] = back[(i + 1) - p]
    BY <1>6, <2>1
  <2>3. back[(i + 1) - p] = q[p + ((i + 1) - p) - 1]
    BY <1>2, <2>1
  <2>. QED BY <2>1, <2>2, <2>3
<1>. QED BY <1>6, <1>7, <1>8, <1>9, <1>10 DEF r, Insertion

LEMMA InsertsNew ==
    ASSUME NEW S, NEW q \in Seq(S), IsInjective(q), NEW p \in DOMAIN q, NEW x \in S \ ToSet(q),
           NEW r, Insertion(S, q, p, x, r)
    PROVE  IsInjective(r) /\ ToSet(r) = ToSet(q) \union {x}
<1>1. x \in S
  OBVIOUS
<1>2. /\ r \in Seq(S) /\ Len(r) = Len(q) + 1
      /\ \A i \in DOMAIN q : i < p => r[i] = q[i]
      /\ r[p] = x
      /\ \A i \in DOMAIN q : i >= p => r[i + 1] = q[i]
  BY DEF Insertion
<1>3. p \in Nat /\ Len(q) \in Nat /\ 1 <= p /\ p <= Len(q) /\ DOMAIN q = 1..Len(q)
      /\ DOMAIN r = 1..Len(q)+1
  BY <1>2
<1>4. \A i \in DOMAIN q : q[i] # x
  BY DEF ToSet
<1>5. \A j \in DOMAIN r :
        \/ j = p
        \/ \E i \in DOMAIN q : i < p /\ j = i
        \/ \E i \in DOMAIN q : i >= p /\ j = i + 1
  <2>. SUFFICES ASSUME NEW j \in DOMAIN r, j # p, ~ (j < p)
                PROVE  \E i \in DOMAIN q : i >= p /\ j = i + 1
    BY <1>3
  <2>1. j - 1 \in DOMAIN q /\ j - 1 >= p /\ j = (j - 1) + 1
    BY <1>3
  <2>. QED BY <2>1
<1>6. \A i \in DOMAIN q : i \in Nat
  BY <1>3
<1>7. ASSUME NEW i \in DOMAIN r, NEW j \in DOMAIN r, r[i] = r[j] PROVE i = j
  BY <1>2, <1>3, <1>4, <1>5, <1>6, <1>7 DEF IsInjective
<1>8. ASSUME NEW i \in DOMAIN q PROVE \E j \in DOMAIN r : r[j] = q[i]
  <2>1. CASE i < p
    BY <1>2, <1>3, <2>1
  <2>2. CASE ~ (i < p)
    <3>1. i + 1 \in DOMAIN r /\ i >= p
      BY <1>3, <2>2
    <3>. QED BY <1>2, <3>1
  <2>. QED BY <2>1, <2>2
<1>9. p \in DOMAIN r
  BY <1>3
<1>10. ASSUME NEW j \in DOMAIN r PROVE r[j] = x \/ \E i \in DOMAIN q : q[i] = r[j]
  BY <1>2, <1>5
<1>. QED BY <1>2, <1>7, <1>8, <1>9, <1>10 DEF IsInjective, ToSet

\* What was there stays behind the places that it was behind.
LEMMA InsertionPlaces ==
    ASSUME NEW S, NEW q \in Seq(S), NEW p \in DOMAIN q, NEW x, NEW r, Insertion(S, q, p, x, r),
           NEW j \in DOMAIN r
    PROVE  r[j] = x \/ \E i \in DOMAIN q : i <= j /\ r[j] = q[i]
<1>1. /\ r \in Seq(S) /\ Len(r) = Len(q) + 1
      /\ \A i \in DOMAIN q : i < p => r[i] = q[i]
      /\ r[p] = x
      /\ \A i \in DOMAIN q : i >= p => r[i + 1] = q[i]
  BY DEF Insertion
<1>2. p \in Nat /\ Len(q) \in Nat /\ 1 <= p /\ p <= Len(q) /\ DOMAIN q = 1..Len(q)
      /\ DOMAIN r = 1..Len(q)+1 /\ j \in Nat
  BY <1>1
<1>3. CASE j < p
  <2>1. j \in DOMAIN q /\ j <= j
    BY <1>2, <1>3
  <2>. QED BY <1>1, <1>3, <2>1
<1>4. CASE j = p
  BY <1>1, <1>4
<1>5. CASE j > p
  <2>1. j - 1 \in DOMAIN q /\ j - 1 >= p /\ j = (j - 1) + 1 /\ j - 1 <= j
    BY <1>2, <1>5
  <2>. QED BY <1>1, <2>1
<1>. QED BY <1>2, <1>3, <1>4, <1>5

LEMMA AppendsNew ==
    ASSUME NEW S, NEW q \in Seq(S), IsInjective(q), NEW x \in S \ ToSet(q)
    PROVE  IsInjective(Append(q, x)) /\ \A i \in DOMAIN q : Append(q, x)[i] = q[i]
<1>1. /\ \A i \in DOMAIN q : Append(q, x)[i] = q[i]
      /\ Append(q, x)[Len(q) + 1] = x
      /\ DOMAIN Append(q, x) = DOMAIN q \union {Len(q) + 1}
  OBVIOUS
<1>2. \A i \in DOMAIN q : q[i] # x
  BY DEF ToSet
<1>. QED BY <1>1, <1>2 DEF IsInjective

-----------------------------------------------------------------------------
(* Every step keeps the invariant. *)

LEMMA WalkInit == Init => WalkInv
<1>. SUFFICES ASSUME Init PROVE WalkInv
  OBVIOUS
<1>1. /\ pc = "idle" /\ index = 0 /\ asked = << >> /\ steady = {} /\ edits = << >>
  BY DEF Init
<1>2. ToSet(asked) = {} /\ Len(asked) = 0
  BY <1>1 DEF ToSet
<1>3. signals \in Seq(Signals) /\ IsInjective(signals)
  <2>1. PICK T \in SUBSET Signals : signals \in SetToSeqs(T)
    BY DEF Init
  <2>2. Cardinality(T) \in Nat
    BY EngineAssumption, FS_Subset, FS_CardinalityType
  <2>3. signals \in [1..Cardinality(T) -> T]
        /\ \A i, j \in 1..Cardinality(T) : i # j => signals[i] # signals[j]
    BY <2>1 DEF SetToSeqs
  <2>4. signals \in Seq(T)
    BY <2>2, <2>3, SeqDef
  <2>. QED BY <2>2, <2>3, <2>4 DEF IsInjective
<1>4. Listed
  BY <1>1, <1>3 DEF Listed
<1>5. Passed /\ Ended
  BY <1>1 DEF Passed, Ended
<1>6. AskedOnce
  BY <1>1, <1>2, FS_EmptySet DEF AskedOnce
<1>. QED BY <1>4, <1>5, <1>6 DEF WalkInv



LEMMA EditGrows ==
    ASSUME Listed, NEW kind \in Edits, Edit(kind)
    PROVE  /\ edits' \in Seq(Edits)
           /\ \A k : Edited(k)' <=> k = kind \/ Edited(k)
<1>1. edits \in Seq(Edits) /\ edits' = Append(edits, kind)
  BY DEF Listed, Edit
<1>2. edits' \in Seq(Edits) /\ ToSet(edits') = ToSet(edits) \union {kind}
  BY <1>1, ToSetAppend
<1>. QED BY <1>2 DEF Edited

LEMMA WalkBegin ==
    ASSUME WalkInv, Begin PROVE WalkInv'
<1>1. /\ pc = "idle" /\ pc' = "next" /\ index = 0
      /\ UNCHANGED <<signals, enabled, shortCircuit, index, current, best, asked, edits>>
      /\ steady' = Registered \intersect enabled
  BY DEF Begin, WalkInv, Listed, engineVars, localVars
<1>2. Listed'
  BY <1>1 DEF WalkInv, Listed, Removed, Edited, Registered
<1>3. Passed'
  <2>. SUFFICES ASSUME ~ Removed', NEW i \in DOMAIN signals', i <= index' PROVE FALSE
    BY DEF Passed
  <2>1. signals \in Seq(Signals) /\ i \in DOMAIN signals /\ i <= 0
    BY <1>1 DEF WalkInv, Listed, Removed, Edited
  <2>. QED BY <2>1
<1>4. Ended'
  BY <1>1 DEF Ended
<1>5. AskedOnce'
  BY <1>1 DEF WalkInv, AskedOnce, Inserted, Removed, Edited
<1>. QED BY <1>2, <1>3, <1>4, <1>5 DEF WalkInv

LEMMA WalkAdvance ==
    ASSUME WalkInv, Advance PROVE WalkInv'
<1>1. /\ pc = "next" /\ index < Len(signals) /\ index' = index + 1 /\ index \in Nat
      /\ UNCHANGED <<signals, enabled, shortCircuit, best, asked, steady, edits>>
  BY DEF Advance, WalkInv, Listed, engineVars, ghostVars
<1>2. \/ signals[index + 1] \in enabled /\ pc' = "await" /\ current' = signals[index + 1]
      \/ signals[index + 1] \notin enabled /\ pc' = "next"
  BY <1>1 DEF Advance
<1>3. (Removed' <=> Removed) /\ (Inserted' <=> Inserted) /\ Registered' = Registered
  BY <1>1 DEF Removed, Inserted, Edited, Registered
<1>4. CASE Removed
  BY <1>1, <1>2, <1>3, <1>4 DEF WalkInv, Listed, Passed, Ended, AskedOnce
<1>5. CASE ~ Removed
  <2>1. /\ signals \in Seq(Signals) /\ IsInjective(signals) /\ asked \in Seq(Signals)
        /\ steady \subseteq Registered \intersect enabled /\ edits \in Seq(Edits)
    BY <1>5 DEF WalkInv, Listed
  <2>2. index + 1 \in DOMAIN signals /\ signals[index + 1] \in Signals
    BY <1>1, <2>1
  <2>3. Listed'
    BY <1>1, <1>2, <1>3, <2>1, <2>2 DEF Listed
  <2>4. Passed'
    <3>. SUFFICES ASSUME NEW i \in DOMAIN signals, i <= index + 1, signals[i] \in steady
                  PROVE  \/ signals[i] \in ToSet(asked)
                         \/ pc' = "await" /\ signals[i] = current'
      BY <1>1 DEF Passed
    <3>1. CASE i <= index
      BY <1>1, <1>5, <3>1 DEF WalkInv, Passed
    <3>2. CASE i = index + 1
      BY <1>2, <2>1, <3>2
    <3>3. i \in Nat
      BY <2>1
    <3>. QED BY <1>1, <3>1, <3>2, <3>3
  <2>5. Ended'
    BY <1>2 DEF Ended
  <2>6. AskedOnce'
    <3>. SUFFICES ASSUME ~ Inserted PROVE AskedOnce'
      BY <1>3 DEF AskedOnce
    <3>1. /\ IsFiniteSet(ToSet(asked)) /\ Cardinality(ToSet(asked)) = Len(asked)
          /\ \A x \in ToSet(asked) : \E i \in DOMAIN signals : i <= index /\ signals[i] = x
      BY <1>5 DEF WalkInv, AskedOnce
    <3>2. \A x \in ToSet(asked) : \E i \in DOMAIN signals :
            i <= index + 1 /\ signals[i] = x /\ x # signals[index + 1]
      <4>. SUFFICES ASSUME NEW x \in ToSet(asked)
                    PROVE  \E i \in DOMAIN signals :
                             i <= index + 1 /\ signals[i] = x /\ x # signals[index + 1]
        OBVIOUS
      <4>1. PICK i \in DOMAIN signals : i <= index /\ signals[i] = x
        BY <3>1
      <4>2. i \in Nat /\ i <= index + 1 /\ i # index + 1
        BY <1>1, <2>1, <4>1
      <4>3. x # signals[index + 1]
        BY <2>1, <2>2, <4>1, <4>2 DEF IsInjective
      <4>. QED BY <4>1, <4>2, <4>3
    <3>3. \A x \in ToSet(asked) : \E i \in DOMAIN signals :
            i <= index' /\ signals[i] = x /\ (pc' = "await" => x # current')
      BY <1>1, <1>2, <3>2
    <3>. QED BY <1>1, <1>2, <2>2, <3>1, <3>3 DEF AskedOnce
  <2>. QED BY <2>3, <2>4, <2>5, <2>6 DEF WalkInv
<1>. QED BY <1>4, <1>5

LEMMA WalkExhausted ==
    ASSUME WalkInv, Exhausted PROVE WalkInv'
<1>1. /\ pc = "next" /\ index >= Len(signals) /\ pc' = "conclude"
      /\ UNCHANGED <<signals, enabled, shortCircuit, index, current, best, asked, steady, edits>>
  BY DEF Exhausted, engineVars, localVars, ghostVars
<1>2. (Removed' <=> Removed) /\ (Inserted' <=> Inserted) /\ Registered' = Registered
  BY <1>1 DEF Removed, Inserted, Edited, Registered
<1>3. Listed' /\ Passed'
  BY <1>1, <1>2 DEF WalkInv, Listed, Passed
<1>4. Ended'
  BY <1>1 DEF Ended
<1>5. AskedOnce'
  BY <1>1, <1>2 DEF WalkInv, AskedOnce
<1>. QED BY <1>3, <1>4, <1>5 DEF WalkInv

LEMMA WalkConclude ==
    ASSUME WalkInv, Conclude PROVE WalkInv'
<1>1. /\ pc = "conclude" /\ pc' = "done"
      /\ UNCHANGED <<signals, enabled, shortCircuit, index, current, best, asked, steady, edits>>
  BY DEF Conclude, engineVars, localVars, ghostVars
<1>2. (Removed' <=> Removed) /\ (Inserted' <=> Inserted) /\ Registered' = Registered
  BY <1>1 DEF Removed, Inserted, Edited, Registered
<1>3. Listed' /\ Passed'
  BY <1>1, <1>2 DEF WalkInv, Listed, Passed
<1>4. Ended'
  BY <1>1, <1>2 DEF WalkInv, Ended
<1>5. AskedOnce'
  BY <1>1, <1>2 DEF WalkInv, AskedOnce
<1>. QED BY <1>3, <1>4, <1>5 DEF WalkInv

LEMMA WalkAnswer ==
    ASSUME WalkInv, NEW raises \in BOOLEAN, Answer(raises) PROVE WalkInv'
<1>1. /\ pc = "await" /\ asked' = Append(asked, current)
      /\ UNCHANGED <<signals, enabled, shortCircuit, index, current, steady, edits>>
  BY DEF Answer, engineVars
<1>2. pc' = "next" \/ (pc' = "conclude" /\ shortCircuit /\ best' # None)
  BY DEF Answer
<1>3. (Removed' <=> Removed) /\ (Inserted' <=> Inserted) /\ Registered' = Registered
  BY <1>1 DEF Removed, Inserted, Edited, Registered
<1>4. Ended'
  BY <1>1, <1>2 DEF Ended
<1>5. CASE Removed
  BY <1>1, <1>2, <1>3, <1>4, <1>5 DEF WalkInv, Listed, Passed, AskedOnce
<1>6. CASE ~ Removed
  <2>1. asked \in Seq(Signals) /\ current \in Signals
    BY <1>1, <1>6 DEF WalkInv, Listed
  <2>2. /\ asked' \in Seq(Signals) /\ Len(asked') = Len(asked) + 1
        /\ ToSet(asked') = ToSet(asked) \union {current}
    BY <1>1, <2>1, ToSetAppend
  <2>3. Listed'
    BY <1>1, <1>2, <1>3, <2>2 DEF WalkInv, Listed
  <2>4. Passed'
    BY <1>1, <1>3, <2>2 DEF WalkInv, Passed
  <2>5. AskedOnce'
    <3>. SUFFICES ASSUME ~ Inserted PROVE AskedOnce'
      BY <1>3 DEF AskedOnce
    <3>1. /\ IsFiniteSet(ToSet(asked)) /\ Cardinality(ToSet(asked)) = Len(asked)
          /\ \A x \in ToSet(asked) : \E i \in DOMAIN signals :
                i <= index /\ signals[i] = x /\ x # current
          /\ index \in DOMAIN signals /\ signals[index] = current
      BY <1>1, <1>6 DEF WalkInv, AskedOnce
    <3>2. current \notin ToSet(asked)
      BY <3>1
    <3>3. /\ IsFiniteSet(ToSet(asked) \union {current})
          /\ Cardinality(ToSet(asked) \union {current}) = Cardinality(ToSet(asked)) + 1
      BY <3>1, <3>2, FS_AddElement
    <3>4. index <= index
      BY DEF WalkInv, Listed
    <3>5. \A x \in ToSet(asked) \union {current} : \E i \in DOMAIN signals :
            i <= index /\ signals[i] = x
      BY <3>1, <3>4
    <3>. QED BY <1>1, <1>2, <2>2, <3>1, <3>3, <3>5 DEF AskedOnce
  <2>. QED BY <1>4, <2>3, <2>4, <2>5 DEF WalkInv
<1>. QED BY <1>5, <1>6

LEMMA WalkAdd ==
    ASSUME WalkInv, NEW s \in Signals, NEW before, AddSignal(s, before) PROVE WalkInv'
<1>1. /\ s \notin Registered
      /\ UNCHANGED <<enabled, shortCircuit, pc, index, current, best, asked, steady>>
  BY DEF AddSignal, localVars
<1>2. CASE /\ before \in Registered /\ Edit("insert")
           /\ signals' = InsertAt(signals, SelectInSeq(signals, LAMBDA x : x = before), s)
  <2>1. /\ pc = "await" /\ edits' \in Seq(Edits) /\ Inserted' /\ (Removed' <=> Removed)
    BY <1>2, EditGrows DEF WalkInv, Edit, Edits, Inserted, Removed
  <2>2. Ended' /\ AskedOnce'
    BY <1>1, <2>1 DEF Ended, AskedOnce
  <2>3. CASE Removed
    BY <1>1, <2>1, <2>2, <2>3 DEF WalkInv, Listed, Passed
  <2>4. CASE ~ Removed
    <3>1. /\ signals \in Seq(Signals) /\ IsInjective(signals) /\ index <= Len(signals)
          /\ index \in Nat /\ steady \subseteq Registered \intersect enabled
      BY <2>4 DEF WalkInv, Listed
    <3>. DEFINE p == SelectInSeq(signals, LAMBDA x : x = before)
    <3>2. p \in DOMAIN signals
      BY <1>2, <3>1, SelectFinds DEF Registered
    <3>3. signals' = InsertAt(signals, p, s)
      BY <1>2
    <3>. HIDE DEF p
    <3>4. Insertion(Signals, signals, p, s, signals')
      BY <3>1, <3>2, <3>3, Inserts
    <3>5. signals' \in Seq(Signals) /\ Len(signals') = Len(signals) + 1
      BY <3>4 DEF Insertion
    <3>6. IsInjective(signals') /\ ToSet(signals') = ToSet(signals) \union {s}
      BY <1>1, <3>1, <3>2, <3>4, InsertsNew DEF Registered
    <3>7. Listed'
      <4>1. index <= Len(signals) + 1
        BY <3>1
      <4>2. steady' \subseteq Registered' \intersect enabled'
        BY <1>1, <3>1, <3>6 DEF Registered
      <4>. QED BY <1>1, <2>1, <2>4, <3>5, <3>6, <4>1, <4>2 DEF WalkInv, Listed
    <3>8. Passed'
      <4>. SUFFICES ASSUME NEW j \in DOMAIN signals', j <= index, signals'[j] \in steady
                    PROVE  \/ signals'[j] \in ToSet(asked)
                           \/ pc = "await" /\ signals'[j] = current
        BY <1>1 DEF Passed
      <4>1. signals'[j] # s
        BY <1>1, <3>1
      <4>2. PICK i \in DOMAIN signals : i <= j /\ signals'[j] = signals[i]
        BY <3>1, <3>2, <3>4, <4>1, InsertionPlaces
      <4>3. i \in Nat /\ j \in Nat
        BY <3>1, <3>5
      <4>4. i <= index
        BY <3>1, <4>2, <4>3
      <4>. QED BY <2>4, <4>2, <4>4 DEF WalkInv, Passed
    <3>. QED BY <2>2, <3>7, <3>8 DEF WalkInv
  <2>. QED BY <2>3, <2>4
<1>3. CASE Edit("append") /\ signals' = Append(signals, s)
  <2>1. /\ pc = "await" /\ edits' \in Seq(Edits)
        /\ (Inserted' <=> Inserted) /\ (Removed' <=> Removed)
    BY <1>3, EditGrows DEF WalkInv, Edit, Edits, Inserted, Removed
  <2>2. Ended'
    BY <1>1, <2>1 DEF Ended
  <2>3. CASE Removed
    BY <1>1, <2>1, <2>2, <2>3 DEF WalkInv, Listed, Passed, AskedOnce
  <2>4. CASE ~ Removed
    <3>1. /\ signals \in Seq(Signals) /\ IsInjective(signals) /\ index <= Len(signals)
          /\ index \in Nat /\ steady \subseteq Registered \intersect enabled
      BY <2>4 DEF WalkInv, Listed
    <3>2. /\ signals' \in Seq(Signals) /\ Len(signals') = Len(signals) + 1
          /\ ToSet(signals') = ToSet(signals) \union {s}
      BY <1>3, <3>1, ToSetAppend
    <3>3. IsInjective(signals') /\ \A i \in DOMAIN signals : signals'[i] = signals[i]
      BY <1>1, <1>3, <3>1, AppendsNew DEF Registered
    <3>4. Listed'
      <4>1. index <= Len(signals) + 1
        BY <3>1
      <4>2. steady' \subseteq Registered' \intersect enabled'
        BY <1>1, <3>1, <3>2 DEF Registered
      <4>. QED BY <1>1, <2>1, <2>4, <3>2, <3>3, <4>1, <4>2 DEF WalkInv, Listed
    <3>5. /\ \A i \in DOMAIN signals' : i <= index => i \in DOMAIN signals
          /\ DOMAIN signals \subseteq DOMAIN signals'
      BY <3>1, <3>2
    <3>6. Passed'
      BY <1>1, <2>1, <2>4, <3>3, <3>5 DEF WalkInv, Passed
    <3>7. AskedOnce'
      <4>. SUFFICES ASSUME ~ Inserted PROVE AskedOnce'
        BY <2>1 DEF AskedOnce
      <4>1. /\ IsFiniteSet(ToSet(asked)) /\ Cardinality(ToSet(asked)) = Len(asked)
            /\ \A x \in ToSet(asked) : \E i \in DOMAIN signals :
                  i <= index /\ signals[i] = x /\ x # current
            /\ index \in DOMAIN signals /\ signals[index] = current
        BY <2>1, <2>4 DEF WalkInv, AskedOnce
      <4>2. \A x \in ToSet(asked) : \E i \in DOMAIN signals' :
              i <= index /\ signals'[i] = x /\ x # current
        BY <3>3, <3>5, <4>1
      <4>3. index \in DOMAIN signals' /\ signals'[index] = current
        BY <3>3, <3>5, <4>1
      <4>. QED BY <1>1, <4>1, <4>2, <4>3 DEF AskedOnce
    <3>. QED BY <2>2, <3>4, <3>6, <3>7 DEF WalkInv
  <2>. QED BY <2>3, <2>4
<1>. QED BY <1>2, <1>3 DEF AddSignal

LEMMA WalkRemove ==
    ASSUME WalkInv, NEW s, RemoveSignal(s) PROVE WalkInv'
<1>1. /\ Edit("remove") /\ pc = "await"
      /\ UNCHANGED <<shortCircuit, pc, index, best>>
  BY DEF RemoveSignal, Edit, localVars
<1>2. edits' \in Seq(Edits) /\ Removed'
  BY <1>1, EditGrows DEF WalkInv, Edits, Removed
<1>. QED BY <1>1, <1>2 DEF WalkInv, Listed, Passed, Ended, AskedOnce

LEMMA WalkToggle ==
    ASSUME WalkInv, NEW s, Toggle(s) PROVE WalkInv'
<1>1. /\ Edit("toggle") /\ pc = "await"
      /\ UNCHANGED <<signals, shortCircuit, pc, index, current, best, asked>>
      /\ enabled' = IF s \in enabled THEN enabled \ {s} ELSE enabled \union {s}
      /\ steady' = steady \ {s}
  BY DEF Toggle, Edit, localVars
<1>2. /\ edits' \in Seq(Edits)
      /\ (Inserted' <=> Inserted) /\ (Removed' <=> Removed) /\ Registered' = Registered
  BY <1>1, EditGrows DEF WalkInv, Edits, Inserted, Removed, Registered
<1>3. Listed'
  BY <1>1, <1>2 DEF WalkInv, Listed
<1>4. Passed'
  BY <1>1, <1>2 DEF WalkInv, Passed
<1>5. Ended'
  BY <1>1 DEF Ended
<1>6. AskedOnce'
  BY <1>1, <1>2 DEF WalkInv, AskedOnce
<1>. QED BY <1>3, <1>4, <1>5, <1>6 DEF WalkInv

LEMMA WalkNext == WalkInv /\ [Next]_vars => WalkInv'
<1>. SUFFICES ASSUME WalkInv, [Next]_vars PROVE WalkInv'
  OBVIOUS
<1>1. CASE UNCHANGED vars
  BY <1>1 DEF vars, engineVars, localVars, ghostVars, WalkInv, Listed, Passed, Ended, AskedOnce,
              Inserted, Removed, Edited, Registered
<1>. QED
  BY <1>1, WalkBegin, WalkAdvance, WalkExhausted, WalkAnswer, WalkConclude, WalkAdd, WalkRemove,
     WalkToggle DEF Next

LEMMA WalkFair == WalkInv => WalkIsFair
<1>. SUFFICES ASSUME WalkInv PROVE WalkIsFair
  OBVIOUS
<1>1. NobodySkipped
  <2>. SUFFICES ASSUME pc = "done", ~ Removed, ~ (shortCircuit /\ best # None), NEW s \in steady
                PROVE  s \in ToSet(asked)
    BY DEF NobodySkipped, Removed
  <2>1. /\ signals \in Seq(Signals) /\ index \in Nat /\ index >= Len(signals)
        /\ steady \subseteq Registered
    BY DEF WalkInv, Listed, Ended
  <2>2. PICK i \in DOMAIN signals : signals[i] = s
    BY <2>1 DEF Registered, ToSet
  <2>3. i <= index
    BY <2>1
  <2>. QED BY <2>2, <2>3 DEF WalkInv, Passed
<1>2. NobodyAskedTwice
  BY DEF WalkInv, AskedOnce, NobodyAskedTwice, Inserted, Removed
<1>. QED BY <1>1, <1>2 DEF WalkIsFair

\* risk.py's RiskEngine.assess: however the list is edited and the signals are toggled while
\* a signal is awaited, the walk passes over none that was registered and enabled all along,
\* unless a signal was removed; and asks none twice, unless one was removed or inserted.
THEOREM WalksFairly == Spec => []WalkIsFair
<1>. QED BY WalkInit, WalkNext, WalkFair, PTL DEF Spec


-----------------------------------------------------------------------------
(* The corroborating signal *)

LEMMA Division ==
    ASSUME NEW u \in Nat, NEW a \in Nat \ {0}
    PROVE  u \div a \in Nat /\ (a > 1 => 2 * (u \div a) <= u)
  OBVIOUS

LEMMA Product == ASSUME NEW a \in Nat, NEW b \in Nat PROVE a * b \in Nat
  OBVIOUS

LEMMA LessTimes ==
    ASSUME NEW x \in Nat, NEW y \in Nat, NEW w \in Nat \ {0}, x < y PROVE ~ (x * w >= y * w)
  OBVIOUS

\* What it says is well formed, and a lone flag is neither an override nor more than half
\* of the full suspicion.
LEMMA Corroboration ==
    ASSUME NEW S \in SUBSET Children, NEW answer
    PROVE  LET c == Corroborated(answer, S)
               F == {k \in S : Flags(answer[k])}
           IN  /\ c.suspicion # None => c.suspicion \in Nat
               /\ /\ Cardinality(F) = 1 /\ Cardinality(S) > 1
                  /\ MinAgreements = None \/ MinAgreements > 1
                  => c.override = None /\ (c.suspicion # None => 2 * c.suspicion <= Unit)
<1>. DEFINE active == Cardinality(S)
            speaking == {k \in S : Speaks(answer[k])}
            contributed == Cardinality(speaking)
            F == {k \in S : Flags(answer[k])}
            flagged == Cardinality(F)
            c == Corroborated(answer, S)
            share == Share(flagged, active, contributed)
<1>1. IsFiniteSet(S) /\ IsFiniteSet(speaking) /\ IsFiniteSet(F)
  <2>1. IsFiniteSet(S)
    BY EngineAssumption, FS_Subset
  <2>2. speaking \in SUBSET S /\ F \in SUBSET S
    OBVIOUS
  <2>. HIDE DEF speaking, F
  <2>. QED BY <2>1, <2>2, FS_Subset
<1>2. active \in Nat /\ contributed \in Nat /\ flagged \in Nat
  BY <1>1, FS_CardinalityType
<1>3. contributed # 0 => active # 0
  <2>. SUFFICES ASSUME active = 0 PROVE contributed = 0
    OBVIOUS
  <2>1. S = {}
    BY <1>1, FS_EmptySet
  <2>. QED BY <2>1, FS_EmptySet
<1>4. c = IF contributed = 0 THEN Abstains
          ELSE IF flagged >= Required(active)
          THEN [suspicion |-> Unit, override |-> OverrideLevel]
          ELSE [suspicion |-> share, override |-> None]
  BY DEF Corroborated
<1>5. Unit \in Nat
  BY EngineAssumption
<1>6. share = (flagged * Unit) \div active
  BY DEF Share
<1>. HIDE DEF active, speaking, contributed, F, flagged, c, share
<1>7. contributed # 0 => share \in Nat
  <2>1. flagged * Unit \in Nat
    BY <1>2, <1>5, Product
  <2>. QED BY <1>2, <1>3, <1>6, <2>1, Division
<1>8. c.suspicion # None => c.suspicion \in Nat
  BY <1>4, <1>5, <1>7 DEF Abstains
<1>9. ASSUME flagged = 1, active > 1, MinAgreements = None \/ MinAgreements > 1
      PROVE  c.override = None /\ (c.suspicion # None => 2 * c.suspicion <= Unit)
  <2>1. ~ (flagged >= Required(active))
    <3>1. MinAgreements # None => MinAgreements \in Nat
      BY EngineAssumption
    <3>. QED BY <1>2, <1>9, <3>1 DEF Required
  <2>2. 2 * share <= Unit
    <3>1. flagged * Unit = Unit
      BY <1>5, <1>9
    <3>. QED BY <1>2, <1>5, <1>6, <1>9, <3>1, Division
  <2>. QED BY <1>4, <2>1, <2>2 DEF Abstains
<1>. QED BY <1>8, <1>9 DEF c, F, flagged, active

LEMMA VoiceInit == Init => VoiceInv
<1>. SUFFICES ASSUME Init PROVE VoiceInv
  OBVIOUS
<1>1. ToSet(asked) = {}
  BY DEF Init, ToSet
<1>2. Voices = {}
  BY <1>1 DEF Voices
<1>3. Voiced
  BY <1>1, <1>2 DEF Voiced, Init
<1>4. Settled
  BY DEF Settled, Init
<1>. QED BY <1>3, <1>4, WalkInit DEF VoiceInv

\* A step that asks nobody and settles nothing.
LEMMA VoiceKept ==
    ASSUME VoiceInv, edits' = << >> => edits = << >>, pc # "idle", pc' \notin {"idle", "done"},
           UNCHANGED <<signals, enabled, best, sum, total, opinion, said, awake, asked, raised>>,
           edits' = << >> /\ pc' = "await" =>
               /\ current' \in Registered \intersect enabled
               /\ current' \notin ToSet(asked)
    PROVE  Voiced' /\ Settled'
<1>1. Voices' = Voices /\ Registered' = Registered
  BY DEF Voices, Registered
<1>2. Voiced'
  BY <1>1 DEF VoiceInv, Voiced
<1>3. Settled'
  BY DEF VoiceInv, Settled
<1>. QED BY <1>2, <1>3

LEMMA VoiceBegin == ASSUME VoiceInv, Begin PROVE Voiced' /\ Settled'
<1>1. /\ pc = "idle" /\ pc' = "next" /\ asked = << >>
      /\ UNCHANGED <<signals, enabled, best, sum, total, asked, raised, edits>>
  BY DEF Begin, engineVars, localVars, VoiceInv, Settled
<1>2. ToSet(asked) = {} /\ Voices = {} /\ Voices' = {}
  BY <1>1 DEF Voices, ToSet
<1>3. Voiced'
  BY <1>1, <1>2 DEF VoiceInv, Voiced, Registered
<1>4. Corroborating \in Signals => opinion'[Corroborating] = Corroborated(said', awake')
  BY EngineAssumption DEF Begin, Says
<1>5. awake' \in SUBSET Children
  BY DEF Begin
<1>6. Settled'
  BY <1>1, <1>4, <1>5 DEF Settled
<1>. QED BY <1>3, <1>6

LEMMA VoiceAdvance == ASSUME VoiceInv, Advance PROVE Voiced' /\ Settled'
<1>1. /\ pc = "next" /\ pc' \in {"next", "await"} /\ index < Len(signals) /\ index \in Nat
      /\ UNCHANGED <<signals, enabled, best, sum, total, ghostVars>>
  BY DEF Advance, engineVars, VoiceInv, WalkInv, Listed
<1>2. ASSUME edits = << >>, pc' = "await"
      PROVE  current' \in Registered \intersect enabled /\ current' \notin ToSet(asked)
  <2>1. ~ Inserted /\ ~ Removed
    BY <1>2 DEF Inserted, Removed, Edited, ToSet
  <2>2. current' = signals[index + 1] /\ current' \in enabled
    BY <1>1, <1>2 DEF Advance
  <2>3. signals \in Seq(Signals) /\ IsInjective(signals)
    BY <2>1 DEF VoiceInv, WalkInv, Listed
  <2>4. index + 1 \in DOMAIN signals
    BY <1>1, <2>3
  <2>5. current' \in Registered
    BY <2>2, <2>4 DEF Registered, ToSet
  <2>6. current' \notin ToSet(asked)
    <3>. SUFFICES ASSUME current' \in ToSet(asked) PROVE FALSE
      OBVIOUS
    <3>1. PICK i \in DOMAIN signals : i <= index /\ signals[i] = current'
      BY <2>1 DEF VoiceInv, WalkInv, AskedOnce
    <3>2. i = index + 1
      BY <2>2, <2>3, <2>4, <3>1 DEF IsInjective
    <3>. QED BY <1>1, <3>1, <3>2
  <2>. QED BY <2>2, <2>5, <2>6
<1>. QED BY <1>1, <1>2, VoiceKept DEF ghostVars

LEMMA VoiceExhausted == ASSUME VoiceInv, Exhausted PROVE Voiced' /\ Settled'
  BY VoiceKept DEF Exhausted, engineVars, localVars, ghostVars

LEMMA VoiceConclude == ASSUME VoiceInv, Conclude PROVE Voiced' /\ Settled'
<1>1. /\ pc = "conclude" /\ pc' = "done"
      /\ UNCHANGED <<signals, enabled, best, sum, total, opinion, said, awake, asked, raised,
                     edits>>
  BY DEF Conclude, engineVars, localVars, ghostVars
<1>2. Voices' = Voices /\ Registered' = Registered
  BY <1>1 DEF Voices, Registered
<1>3. Voiced'
  BY <1>1, <1>2 DEF VoiceInv, Voiced
<1>4. LevelOf(sum', total') = LevelOf(sum, total)
  BY <1>1
<1>5. Settled'
  BY <1>1, <1>4 DEF VoiceInv, Settled, Conclude
<1>. QED BY <1>3, <1>5

\* Admin code's edits end what is claimed of an assessment that nobody edits.
LEMMA VoiceEdited ==
    ASSUME VoiceInv, NEW kind \in Edits, Edit(kind), pc' = pc,
           UNCHANGED <<level, best, sum, total, opinion, said, awake, asked>>
    PROVE  Voiced' /\ Settled'
<1>1. pc = "await" /\ edits' = Append(edits, kind)
  BY DEF Edit
<1>2. edits' # << >>
  BY <1>1, AppendProperties DEF VoiceInv, WalkInv, Listed
<1>. QED BY <1>1, <1>2 DEF VoiceInv, Voiced, Settled

LEMMA VoiceAnswer ==
    ASSUME VoiceInv, NEW raises \in BOOLEAN, Answer(raises) PROVE Voiced' /\ Settled'
<1>. DEFINE c == IF raises THEN Abstains ELSE opinion[current]
            higher == c.override # None /\ (best # None => c.override > best)
<1>1. /\ pc = "await" /\ pc' \in {"next", "conclude"}
      /\ asked' = Append(asked, current)
      /\ raised' = IF raises THEN raised \union {current} ELSE raised
      /\ UNCHANGED <<signals, enabled, opinion, said, awake, edits>>
  BY DEF Answer, engineVars
<1>2. Settled'
  BY <1>1 DEF VoiceInv, Settled
<1>3. ASSUME edits = << >> PROVE Voiced'
  <2>1. ~ Removed
    BY <1>3 DEF Removed, Edited, ToSet
  <2>2. asked \in Seq(Signals) /\ current \in Signals
    BY <1>1, <2>1 DEF VoiceInv, WalkInv, Listed
  <2>3. ToSet(asked') = ToSet(asked) \union {current}
    BY <1>1, <2>2, ToSetAppend
  <2>4. /\ ToSet(asked) \subseteq Registered \intersect enabled
        /\ current \in Registered \intersect enabled /\ current \notin ToSet(asked)
        /\ raised \subseteq ToSet(asked)
    BY <1>1, <1>3 DEF VoiceInv, Voiced
  <2>5. ToSet(asked') \subseteq Registered' \intersect enabled' /\ raised' \subseteq ToSet(asked')
    BY <1>1, <2>3, <2>4 DEF Registered
  <2>6. Voices' = IF ~ raises /\ Speaks(opinion[current]) THEN Voices \union {current}
                  ELSE Voices \ {current}
    <3>1. Voices' = {s \in ToSet(asked') \ raised' : Speaks(opinion[s])}
      BY <1>1 DEF Voices
    <3>2. CASE raises
      <4>1. raised' = raised \union {current}
        BY <1>1, <3>2
      <4>. QED BY <2>3, <3>1, <3>2, <4>1 DEF Voices
    <3>3. CASE ~ raises
      <4>1. raised' = raised
        BY <1>1, <3>3
      <4>2. CASE Speaks(opinion[current])
        BY <2>3, <2>4, <3>1, <3>3, <4>1, <4>2 DEF Voices
      <4>3. CASE ~ Speaks(opinion[current])
        BY <2>3, <3>1, <3>3, <4>1, <4>3 DEF Voices
      <4>. QED BY <4>2, <4>3
    <3>. QED BY <3>2, <3>3
  <2>7. current \notin Voices
    BY <2>4 DEF Voices
  <2>8. CASE raises \/ ~ Speaks(opinion[current])
    <3>1. c.override = None /\ c.suspicion = None
      BY <2>8 DEF Abstains, Speaks
    <3>2. UNCHANGED <<best, sum, total>>
      BY <3>1 DEF Answer, Count
    <3>3. Voices' = Voices
      BY <2>6, <2>7, <2>8
    <3>. QED BY <1>1, <1>3, <2>5, <3>2, <3>3 DEF VoiceInv, Voiced
  <2>9. CASE ~ raises /\ Speaks(opinion[current]) /\ current # Corroborating
    <3>1. ~ (Voices' \subseteq {Corroborating})
      BY <2>6, <2>9
    <3>. QED BY <1>1, <2>5, <3>1 DEF Voiced
  <2>10. CASE ~ raises /\ Speaks(opinion[current]) /\ current = Corroborating
    <3>. SUFFICES ASSUME Voices' \subseteq {Corroborating}
                  PROVE  /\ best' # None =>
                              /\ Corroborating \in Voices'
                              /\ best' = opinion[Corroborating].override
                         /\ \/ sum' = 0 /\ total' = 0
                            \/ /\ Corroborating \in Voices'
                               /\ opinion[Corroborating].suspicion # None
                               /\ sum' = opinion[Corroborating].suspicion
                                           * Weight[Corroborating]
                               /\ total' = Weight[Corroborating]
      BY <1>1, <2>5 DEF Voiced
    <3>1. Voices = {} /\ Corroborating \in Voices'
      BY <2>6, <2>7, <2>10
    <3>2. best = None /\ sum = 0 /\ total = 0
      BY <1>3, <3>1 DEF VoiceInv, Voiced
    <3>3. c = opinion[Corroborating]
      BY <2>10
    <3>4. best' # None => best' = opinion[Corroborating].override
      BY <3>2, <3>3 DEF Answer
    <3>. DEFINE suspicion == opinion[Corroborating].suspicion
                weight == Weight[Corroborating]
    <3>5. \/ UNCHANGED <<sum, total>>
          \/ /\ sum' = IF suspicion = None THEN sum ELSE sum + suspicion * weight
             /\ total' = IF suspicion = None THEN total ELSE total + weight
      BY <2>10, <3>3 DEF Answer, Count
    <3>6. suspicion # None => suspicion \in Nat
      <4>1. /\ opinion[Corroborating] = Corroborated(said, awake)
            /\ awake \in SUBSET Children
        BY <1>1, <2>2, <2>10 DEF VoiceInv, Settled
      <4>. QED BY <4>1, Corroboration
    <3>7. weight \in Nat
      BY <2>2, <2>10, EngineAssumption
    <3>. HIDE DEF suspicion, weight
    <3>8. \/ sum' = 0 /\ total' = 0
          \/ suspicion # None /\ sum' = suspicion * weight /\ total' = weight
      <4>1. suspicion # None => suspicion * weight \in Nat
        BY <3>6, <3>7, Product
      <4>. DEFINE product == suspicion * weight
      <4>2. suspicion # None => 0 + product = product
        <5>. HIDE DEF product
        <5>. QED BY <4>1 DEF product
      <4>. QED BY <3>2, <3>5, <3>7, <4>2
    <3>. QED BY <3>1, <3>4, <3>8 DEF suspicion, weight
  <2>. QED BY <2>8, <2>9, <2>10
<1>4. ASSUME edits # << >> PROVE Voiced'
  <2>1. edits' # << >>
    BY <1>1, <1>4
  <2>. QED BY <2>1 DEF Voiced
<1>. QED BY <1>2, <1>3, <1>4

LEMMA VoiceNext == VoiceInv /\ [Next]_vars => VoiceInv'
<1>. SUFFICES ASSUME VoiceInv, [Next]_vars PROVE Voiced' /\ Settled'
  BY WalkNext DEF VoiceInv
<1>1. ASSUME NEW raises \in BOOLEAN, Answer(raises) PROVE Voiced' /\ Settled'
  BY <1>1, VoiceAnswer
<1>2. ASSUME NEW s, NEW before, AddSignal(s, before) PROVE Voiced' /\ Settled'
  BY <1>2, VoiceEdited DEF AddSignal, localVars, Edits
<1>3. ASSUME NEW s, RemoveSignal(s) \/ Toggle(s) PROVE Voiced' /\ Settled'
  BY <1>3, VoiceEdited DEF RemoveSignal, Toggle, localVars, Edits
<1>4. CASE UNCHANGED vars
  <2>1. UNCHANGED <<signals, enabled, pc, current, best, sum, total, level, opinion, said, awake,
                    asked, raised, edits>>
    BY <1>4 DEF vars, engineVars, localVars, ghostVars
  <2>2. Voices' = Voices /\ Registered' = Registered /\ LevelOf(sum', total') = LevelOf(sum, total)
    BY <2>1 DEF Voices, Registered
  <2>. QED BY <2>1, <2>2 DEF VoiceInv, Voiced, Settled
<1>. QED
  BY <1>1, <1>2, <1>3, <1>4, VoiceBegin, VoiceAdvance, VoiceExhausted, VoiceConclude DEF Next

\* The average of one signal reaches a threshold exactly if its suspicion does.
LEMMA BelowHigh ==
    ASSUME NEW s, NEW t, ~ (IF t = 0 THEN Thresholds[3] = 0 ELSE s >= Thresholds[3] * t)
    PROVE  LevelOf(s, t) < 3
<1>. DEFINE reached == {l \in DOMAIN Thresholds :
                          IF t = 0 THEN Thresholds[l] = 0 ELSE s >= Thresholds[l] * t}
            R == reached \union {0}
<1>1. LevelOf(s, t) = Max(R)
  BY DEF LevelOf
<1>2. DOMAIN Thresholds = {1, 2, 3}
  BY EngineAssumption DEF Levels
<1>3. R \subseteq {0, 1, 2} /\ 0 \in R
  BY <1>2
<1>. HIDE DEF R
<1>4. \E x \in R : \A y \in R : x >= y
  <2>1. CASE 2 \in R
    BY <1>3, <2>1
  <2>2. CASE 2 \notin R /\ 1 \in R
    BY <1>3, <2>2
  <2>3. CASE 2 \notin R /\ 1 \notin R
    BY <1>3, <2>3
  <2>. QED BY <2>1, <2>2, <2>3
<1>5. Max(R) \in R
  BY <1>4 DEF Max
<1>6. Max(R) \in {0, 1, 2}
  BY <1>3, <1>5
<1>. QED BY <1>1, <1>6

LEMMA VoiceAlone ==
    ASSUME VoiceInv, 2 * Thresholds[3] > Unit PROVE NoLoneEscalation
<1>. SUFFICES ASSUME pc = "done", edits = << >>, OnlyCorroborated,
                     Cardinality(Flagging) = 1, Cardinality(awake) > 1,
                     MinAgreements = None \/ MinAgreements > 1
              PROVE  level < 3
  BY DEF NoLoneEscalation
<1>. DEFINE suspicion == opinion[Corroborating].suspicion
            weight == Weight[Corroborating]
            high == Thresholds[3]
<1>1. ~ Removed
  BY DEF Removed, Edited, ToSet
<1>2. Corroborating \in Signals
  <2>1. signals \in Seq(Signals) /\ Corroborating \in ToSet(signals)
    BY <1>1 DEF VoiceInv, WalkInv, Listed, OnlyCorroborated, Registered
  <2>. QED BY <2>1 DEF ToSet
<1>3. /\ opinion[Corroborating] = Corroborated(said, awake)
      /\ awake \in SUBSET Children
      /\ level = IF best # None THEN best ELSE LevelOf(sum, total)
  BY <1>2 DEF VoiceInv, Settled
<1>4. /\ opinion[Corroborating].override = None
      /\ suspicion # None => suspicion \in Nat /\ 2 * suspicion <= Unit
  BY <1>3, Corroboration DEF Flagging
<1>5. Voices \subseteq {Corroborating}
  BY DEF VoiceInv, Voiced, Voices, OnlyCorroborated
<1>6. /\ best # None => best = opinion[Corroborating].override
      /\ \/ sum = 0 /\ total = 0
         \/ suspicion # None /\ sum = suspicion * weight /\ total = weight
  BY <1>5 DEF VoiceInv, Voiced
<1>7. best = None
  BY <1>4, <1>6
<1>8. weight \in Nat /\ high \in Nat /\ Unit \in Nat \ {0} /\ 2 * high > Unit
  <2>1. weight \in Nat
    BY <1>2, EngineAssumption
  <2>2. high \in 0..Unit /\ Unit \in Nat \ {0}
    BY EngineAssumption DEF Levels
  <2>. QED BY <2>1, <2>2
<1>. HIDE DEF suspicion, weight, high
<1>9. high # 0 /\ (suspicion # None => suspicion < high)
  BY <1>4, <1>8
<1>10. total # 0 => ~ (sum >= high * total)
  <2>. SUFFICES ASSUME total # 0, suspicion # None, sum = suspicion * weight, total = weight
                PROVE  ~ (sum >= high * total)
    BY <1>6
  <2>. QED BY <1>4, <1>8, <1>9, LessTimes
<1>11. LevelOf(sum, total) < 3
  BY <1>9, <1>10, BelowHigh DEF high
<1>. QED BY <1>3, <1>7, <1>11

\* CorroboratedRiskSignal's docstring: "a bad IP on its own no longer forces an escalation".
\* With any children, weights, min_agreements and thresholds, as long as the one of HIGH lies
\* above one half (the default is 0.75; two children that disagree make a half), a single
\* child that flags does not bring an assessment to HIGH.
THEOREM LoneFlagsStayBelowHigh ==
    ASSUME 2 * Thresholds[3] > Unit PROVE Spec => []NoLoneEscalation
<1>1. VoiceInv => NoLoneEscalation
  BY VoiceAlone
<1>. QED BY <1>1, VoiceInit, VoiceNext, PTL DEF Spec

-----------------------------------------------------------------------------
(* Types *)

TypeInv ==
    /\ TypeOK
    /\ IsInjective(signals)
    /\ pc = "await" => current \in Signals

LEMMA Shares ==
    ASSUME NEW f \in Nat, NEW a \in Nat \ {0}, NEW u \in Nat, f <= a
    PROVE  /\ (f * u) \div a \in 0..u
           /\ f < a /\ u # 0 => (f * u) \div a # u
<1>. DEFINE p == f * u
            d == p \div a
<1>1. p \in Nat
  BY Product
<1>2. d \in Nat /\ d * a <= p
  <2>. HIDE DEF p
  <2>. QED BY <1>1
<1>3. a * u = f * u + (a - f) * u
  OBVIOUS
<1>4. (a - f) * u \in Nat
  <2>1. a - f \in Nat
    OBVIOUS
  <2>. QED BY <2>1, Product
<1>5. p <= u * a
  BY <1>1, <1>3, <1>4
<1>6. d <= u
  <2>. SUFFICES ASSUME d > u PROVE FALSE
    BY <1>2
  <2>1. ~ (u * a >= d * a)
    <3>. HIDE DEF d
    <3>. QED BY <1>2, LessTimes
  <2>2. d * a \in Nat /\ u * a \in Nat
    BY <1>2, Product
  <2>. HIDE DEF d, p
  <2>. QED BY <1>1, <1>2, <1>5, <2>1, <2>2
<1>7. ASSUME f < a, u # 0 PROVE d # u
  <2>. SUFFICES ASSUME d = u PROVE FALSE
    OBVIOUS
  <2>1. ~ (f * u >= a * u)
    BY <1>7, LessTimes
  <2>2. u * a = a * u /\ a * u \in Nat
    BY Product
  <2>. HIDE DEF d, p
  <2>. QED BY <1>1, <1>2, <2>1, <2>2 DEF p
<1>. QED BY <1>2, <1>6, <1>7

LEMMA CorroborationType ==
    ASSUME NEW S \in SUBSET Children, NEW answer
    PROVE  /\ Corroborated(answer, S) \in Contribution
           /\ /\ MinAgreements = None \/ MinAgreements <= Cardinality(S)
              /\ Corroborated(answer, S).override = None
              => Corroborated(answer, S).suspicion # Unit
<1>. DEFINE active == Cardinality(S)
            speaking == {k \in S : Speaks(answer[k])}
            contributed == Cardinality(speaking)
            F == {k \in S : Flags(answer[k])}
            flagged == Cardinality(F)
            c == Corroborated(answer, S)
            share == Share(flagged, active, contributed)
<1>1. IsFiniteSet(S)
  BY EngineAssumption, FS_Subset
<1>2. F \in SUBSET S /\ speaking \in SUBSET S
  OBVIOUS
<1>3. active \in Nat /\ flagged \in Nat /\ flagged <= active /\ contributed \in Nat
      /\ contributed <= active
  <2>. HIDE DEF F, speaking
  <2>. QED BY <1>1, <1>2, FS_Subset, FS_CardinalityType
<1>4. c = IF contributed = 0 THEN Abstains
          ELSE IF flagged >= Required(active)
          THEN [suspicion |-> Unit, override |-> OverrideLevel]
          ELSE [suspicion |-> share, override |-> None]
  BY DEF Corroborated
<1>5. share = (flagged * Unit) \div active
  BY DEF Share
<1>6. Unit \in Nat \ {0} /\ OverrideLevel \in Levels /\ None \notin Int
  BY EngineAssumption
<1>. HIDE DEF active, speaking, contributed, F, flagged, c, share
<1>7. contributed # 0 => active \in Nat \ {0}
  BY <1>3
<1>8. contributed # 0 => share \in 0..Unit /\ (flagged < active => share # Unit)
  BY <1>3, <1>5, <1>6, <1>7, Shares
<1>9. c \in Contribution
  BY <1>4, <1>6, <1>8 DEF Abstains, Contribution
<1>10. ASSUME MinAgreements = None \/ MinAgreements <= active, c.override = None
       PROVE  c.suspicion # Unit
  <2>1. MinAgreements # None => MinAgreements \in Nat
    BY EngineAssumption
  <2>2. CASE contributed = 0
    BY <1>4, <1>6, <2>2 DEF Abstains
  <2>3. CASE contributed # 0
    <3>1. c = [suspicion |-> share, override |-> None] /\ ~ (flagged >= Required(active))
      <4>1. OverrideLevel # None
        BY <1>6 DEF Levels
      <4>. QED BY <1>4, <1>10, <2>3, <4>1
    <3>2. flagged < active
      BY <1>3, <1>10, <2>1, <3>1 DEF Required
    <3>. QED BY <1>8, <2>3, <3>1, <3>2
  <2>. QED BY <2>2, <2>3
<1>. QED BY <1>9, <1>10 DEF active, c

LEMMA LevelType == ASSUME NEW s, NEW t PROVE LevelOf(s, t) \in Levels
<1>. DEFINE reached == {l \in DOMAIN Thresholds :
                          IF t = 0 THEN Thresholds[l] = 0 ELSE s >= Thresholds[l] * t}
            R == reached \union {0}
<1>1. LevelOf(s, t) = Max(R)
  BY DEF LevelOf
<1>2. R \subseteq {0, 1, 2, 3} /\ 0 \in R
  BY EngineAssumption DEF Levels
<1>. HIDE DEF R
<1>3. \E x \in R : \A y \in R : x >= y
  <2>1. CASE 3 \in R
    BY <1>2, <2>1
  <2>2. CASE 3 \notin R /\ 2 \in R
    BY <1>2, <2>2
  <2>3. CASE 3 \notin R /\ 2 \notin R /\ 1 \in R
    BY <1>2, <2>3
  <2>4. CASE 3 \notin R /\ 2 \notin R /\ 1 \notin R
    BY <1>2, <2>4
  <2>. QED BY <2>1, <2>2, <2>3, <2>4
<1>4. Max(R) \in R
  BY <1>3 DEF Max
<1>5. {0, 1, 2, 3} \subseteq Levels
  BY DEF Levels
<1>. QED BY <1>1, <1>2, <1>4, <1>5

\* What is removed moves the rest back.
LEMMA Removes ==
    ASSUME NEW S, NEW q \in Seq(S), IsInjective(q), NEW x \in ToSet(q)
    PROVE  RemoveFirst(q, x) \in Seq(S) /\ IsInjective(RemoveFirst(q, x))
<1>. DEFINE p == SelectInSeq(q, LAMBDA y : y = x)
            r == RemoveFirst(q, x)
            front == SubSeq(q, 1, p - 1)
            back == SubSeq(q, p + 1, Len(q))
<1>1. p \in DOMAIN q /\ p \in Nat /\ Len(q) \in Nat /\ 1 <= p /\ p <= Len(q)
  <2>1. p \in DOMAIN q
    BY SelectFinds
  <2>. HIDE DEF p
  <2>. QED BY <2>1
<1>2. r = front \o back
  <2>1. \E i \in 1..Len(q) : q[i] = x
    BY DEF ToSet
  <2>. QED BY <2>1 DEF RemoveFirst, RemoveAt
<1>. HIDE DEF p, r
<1>3. front \in Seq(S) /\ Len(front) = p - 1 /\ \A i \in 1..p-1 : front[i] = q[i]
  BY <1>1, SubSeqProperties
<1>4. back \in Seq(S) /\ Len(back) = Len(q) - p
      /\ \A i \in 1..Len(q)-p : back[i] = q[p + i]
  <2>1. CASE p = Len(q)
    BY <1>1, <2>1, SubSeqProperties
  <2>2. CASE p < Len(q)
    BY <1>1, <2>2, SubSeqProperties
  <2>. QED BY <1>1, <2>1, <2>2
<1>. HIDE DEF front, back
<1>5. /\ r \in Seq(S) /\ Len(r) = (p - 1) + (Len(q) - p)
      /\ \A i \in 1..(p - 1)+(Len(q) - p) :
           r[i] = IF i <= p - 1 THEN front[i] ELSE back[i - (p - 1)]
  <2>1. /\ front \o back \in Seq(S) /\ Len(front \o back) = Len(front) + Len(back)
        /\ \A i \in 1..Len(front)+Len(back) :
             (front \o back)[i] = IF i <= Len(front) THEN front[i] ELSE back[i - Len(front)]
    BY <1>3, <1>4, ConcatProperties
  <2>. QED BY <1>2, <1>3, <1>4, <2>1
<1>6. \A i \in DOMAIN r : /\ i \in Nat
                          /\ (IF i < p THEN i ELSE i + 1) \in DOMAIN q
                          /\ r[i] = q[IF i < p THEN i ELSE i + 1]
  <2>. SUFFICES ASSUME NEW i \in DOMAIN r
                PROVE  /\ i \in Nat
                       /\ (IF i < p THEN i ELSE i + 1) \in DOMAIN q
                       /\ r[i] = q[IF i < p THEN i ELSE i + 1]
    OBVIOUS
  <2>1. i \in 1..(p - 1)+(Len(q) - p) /\ i \in Nat
    BY <1>1, <1>5
  <2>2. CASE i < p
    <3>1. i \in 1..p-1 /\ i <= p - 1 /\ i \in DOMAIN q
      BY <1>1, <2>1, <2>2
    <3>. QED BY <1>3, <1>5, <2>1, <2>2, <3>1
  <2>3. CASE ~ (i < p)
    <3>1. i - (p - 1) \in 1..Len(q)-p /\ ~ (i <= p - 1) /\ p + (i - (p - 1)) = i + 1
          /\ i + 1 \in DOMAIN q
      BY <1>1, <2>1, <2>3
    <3>2. r[i] = back[i - (p - 1)]
      BY <1>5, <2>1, <3>1
    <3>3. back[i - (p - 1)] = q[p + (i - (p - 1))]
      BY <1>4, <3>1
    <3>. QED BY <2>1, <2>3, <3>1, <3>2, <3>3
  <2>. QED BY <2>2, <2>3
<1>7. ASSUME NEW i \in DOMAIN r, NEW j \in DOMAIN r, r[i] = r[j] PROVE i = j
  <2>1. (IF i < p THEN i ELSE i + 1) = (IF j < p THEN j ELSE j + 1)
    BY <1>6, <1>7 DEF IsInjective
  <2>. QED BY <1>1, <1>6, <2>1
<1>. QED BY <1>5, <1>7 DEF IsInjective, r

LEMMA TypeInit == Init => TypeInv
<1>. SUFFICES ASSUME Init PROVE TypeInv
  OBVIOUS
<1>1. signals \in Seq(Signals) /\ IsInjective(signals)
  <2>1. edits = << >>
    BY DEF Init
  <2>. QED BY <2>1, WalkInit DEF WalkInv, Listed, Removed, Edited, ToSet
<1>2. Abstains \in Contribution
  BY DEF Abstains, Contribution
<1>3. TypeOK
  BY <1>1, <1>2 DEF Init, TypeOK, PCs, Levels
<1>. QED BY <1>1, <1>3 DEF Init, TypeInv

LEMMA TypeBegin == ASSUME TypeInv, Begin PROVE TypeInv'
<1>1. PICK plain \in [Signals \ Composites -> Opinions] :
         opinion' = [s \in Signals |-> Says(s, plain)]
  BY DEF Begin
<1>2. said' \in [Children -> Contribution] /\ awake' \in SUBSET Children
  BY EngineAssumption DEF Begin
<1>3. ASSUME NEW s \in Signals PROVE Says(s, plain) \in Contribution
  <2>1. CASE s = Corroborating
    <3>1. Says(s, plain) = Corroborated(said', awake')
      BY <2>1, EngineAssumption DEF Says
    <3>. QED BY <1>2, <3>1, CorroborationType
  <2>2. CASE s = Chained
    <3>1. said'[Then] \in Contribution
      BY <1>2, EngineAssumption
    <3>2. Abstains \in Contribution
      BY DEF Abstains, Contribution
    <3>3. Says(s, plain) = Conditional(said'[When], said'[Then])
      BY <2>2, EngineAssumption DEF Says
    <3>. QED BY <3>1, <3>2, <3>3 DEF Conditional
  <2>3. CASE s \notin Composites
    <3>1. Says(s, plain) = plain[s]
      BY <2>3 DEF Says, Composites
    <3>. QED BY <2>3, <3>1, EngineAssumption
  <2>. QED BY <2>1, <2>2, <2>3 DEF Composites
<1>4. opinion' \in [Signals -> Contribution]
  BY <1>1, <1>3
<1>5. steady' \in SUBSET Signals
  BY DEF TypeInv, TypeOK, Begin
<1>6. pc' = "next" /\ UNCHANGED <<engineVars, localVars, level, asked, raised, edits>>
  BY DEF Begin
<1>. QED BY <1>2, <1>4, <1>5, <1>6 DEF TypeInv, TypeOK, PCs, engineVars, localVars

LEMMA TypeAdvance == ASSUME TypeInv, Advance PROVE TypeInv'
<1>1. signals[index + 1] \in Signals
  BY DEF TypeInv, TypeOK, Advance
<1>2. /\ index' = index + 1
      /\ \/ pc' = "await" /\ current' = signals[index + 1]
         \/ pc = "next" /\ UNCHANGED <<pc, current>>
      /\ UNCHANGED <<engineVars, best, by, sum, total, level, ghostVars>>
  BY DEF Advance
<1>. QED BY <1>1, <1>2 DEF TypeInv, TypeOK, PCs, engineVars, ghostVars

LEMMA TypeExhausted == ASSUME TypeInv, Exhausted PROVE TypeInv'
  BY DEF TypeInv, TypeOK, Exhausted, PCs, engineVars, localVars, ghostVars

LEMMA TypeConclude == ASSUME TypeInv, Conclude PROVE TypeInv'
<1>1. level' \in Levels
  BY LevelType DEF TypeInv, TypeOK, Conclude
<1>. QED BY <1>1 DEF TypeInv, TypeOK, Conclude, PCs, engineVars, localVars, ghostVars

LEMMA TypeAnswer == ASSUME TypeInv, NEW raises \in BOOLEAN, Answer(raises) PROVE TypeInv'
<1>. DEFINE c == IF raises THEN Abstains ELSE opinion[current]
<1>1. current \in Signals /\ Weight[current] \in Nat
  BY EngineAssumption DEF TypeInv, Answer
<1>2. c \in Contribution
  BY <1>1 DEF TypeInv, TypeOK, Abstains, Contribution
<1>3. c.override \in Levels \union {None} /\ c.suspicion \in Nat \union {None}
  BY <1>2, EngineAssumption DEF Contribution
<1>4. c.suspicion # None => c.suspicion * Weight[current] \in Nat
  <2>. HIDE DEF c
  <2>. QED BY <1>1, <1>3, Product
<1>5. /\ asked' = Append(asked, current)
      /\ raised' = IF raises THEN raised \union {current} ELSE raised
      /\ best' \in {best, c.override} /\ by' \in {by, current}
      /\ pc' \in {"conclude", "next"}
      /\ c.override = None => best' = best
      /\ UNCHANGED <<sum, total>> \/ Count(c)
      /\ UNCHANGED <<engineVars, index, current, level, opinion, said, awake, steady, edits>>
  BY DEF Answer
<1>6. sum' \in Nat /\ total' \in Nat
  <2>1. sum \in Nat /\ total \in Nat
    BY DEF TypeInv, TypeOK
  <2>2. CASE UNCHANGED <<sum, total>>
    BY <2>1, <2>2
  <2>3. CASE Count(c)
    <3>1. CASE c.suspicion = None
      BY <2>1, <2>3, <3>1 DEF Count
    <3>2. CASE c.suspicion # None
      <4>. DEFINE product == c.suspicion * Weight[current]
      <4>1. sum' = sum + product /\ total' = total + Weight[current]
        BY <2>3, <3>2 DEF Count
      <4>2. product \in Nat
        BY <1>4, <3>2
      <4>. HIDE DEF product
      <4>. QED BY <1>1, <2>1, <4>1, <4>2
    <3>. QED BY <3>1, <3>2
  <2>. QED BY <1>5, <2>2, <2>3
<1>7. best' \in Levels \union {None}
  <2>. HIDE DEF c
  <2>. QED BY <1>3, <1>5 DEF TypeInv, TypeOK
<1>8. asked' \in Seq(Signals) /\ raised' \in SUBSET Signals /\ by' \in Signals \union {None}
  <2>1. asked \in Seq(Signals) /\ raised \in SUBSET Signals /\ by \in Signals \union {None}
    BY DEF TypeInv, TypeOK
  <2>. HIDE DEF c
  <2>. QED BY <1>1, <1>5, <2>1
<1>. HIDE DEF c
<1>. QED BY <1>5, <1>6, <1>7, <1>8 DEF TypeInv, TypeOK, PCs, engineVars

LEMMA TypeEdit ==
    ASSUME TypeInv, NEW kind \in Edits, Edit(kind)
    PROVE  edits' \in Seq(Edits)
  BY DEF TypeInv, TypeOK, Edit

LEMMA TypeAdd == ASSUME TypeInv, NEW s \in Signals, NEW b, AddSignal(s, b) PROVE TypeInv'
<1>1. /\ signals \in Seq(Signals) /\ IsInjective(signals) /\ s \notin ToSet(signals)
      /\ UNCHANGED <<enabled, shortCircuit, pc, localVars, level, opinion,
                     said, awake, asked, raised, steady>>
  BY DEF TypeInv, TypeOK, AddSignal, Registered
<1>2. CASE /\ b \in Registered /\ Edit("insert")
           /\ signals' = InsertAt(signals, SelectInSeq(signals, LAMBDA x : x = b), s)
  <2>. DEFINE p == SelectInSeq(signals, LAMBDA x : x = b)
  <2>1. p \in DOMAIN signals
    BY <1>1, <1>2, SelectFinds DEF Registered
  <2>. HIDE DEF p
  <2>2. Insertion(Signals, signals, p, s, signals')
    BY <1>1, <1>2, <2>1, Inserts DEF p
  <2>3. signals' \in Seq(Signals) /\ IsInjective(signals')
    BY <1>1, <2>1, <2>2, InsertsNew DEF Insertion
  <2>4. edits' \in Seq(Edits)
    BY <1>2, TypeEdit DEF Edits
  <2>. QED BY <1>1, <2>3, <2>4 DEF TypeInv, TypeOK, localVars
<1>3. CASE Edit("append") /\ signals' = Append(signals, s)
  <2>1. signals' \in Seq(Signals) /\ IsInjective(signals')
    BY <1>1, <1>3, AppendsNew
  <2>2. edits' \in Seq(Edits)
    BY <1>3, TypeEdit DEF Edits
  <2>. QED BY <1>1, <2>1, <2>2 DEF TypeInv, TypeOK, localVars
<1>. QED BY <1>2, <1>3 DEF AddSignal

LEMMA TypeRemove == ASSUME TypeInv, NEW s \in Signals, RemoveSignal(s) PROVE TypeInv'
<1>1. signals' \in Seq(Signals) /\ IsInjective(signals')
  BY Removes DEF TypeInv, TypeOK, RemoveSignal, Registered
<1>2. edits' \in Seq(Edits)
  BY TypeEdit DEF RemoveSignal, Edits
<1>. QED BY <1>1, <1>2 DEF TypeInv, TypeOK, RemoveSignal, localVars

LEMMA TypeToggle == ASSUME TypeInv, NEW s \in Signals, Toggle(s) PROVE TypeInv'
<1>1. edits' \in Seq(Edits)
  BY TypeEdit DEF Toggle, Edits
<1>. QED BY <1>1 DEF TypeInv, TypeOK, Toggle, localVars

LEMMA TypeNext == TypeInv /\ [Next]_vars => TypeInv'
<1>. SUFFICES ASSUME TypeInv, [Next]_vars PROVE TypeInv'
  OBVIOUS
<1>1. CASE UNCHANGED vars
  BY <1>1 DEF TypeInv, TypeOK, vars, engineVars, localVars, ghostVars
<1>. QED
  BY <1>1, TypeBegin, TypeAdvance, TypeExhausted, TypeAnswer, TypeConclude, TypeAdd, TypeRemove,
     TypeToggle DEF Next

\* Every variable keeps its type, whatever is added, inserted, removed or toggled while
\* a signal is awaited: the iterator never stands outside the list when it takes a signal,
\* and what a composite signal says, the agreement fraction of integers included, is
\* a contribution like any other.
THEOREM TypeCorrect == Spec => []TypeOK
<1>1. TypeInv => TypeOK
  BY DEF TypeInv
<1>. QED BY <1>1, TypeInit, TypeNext, PTL DEF Spec

-----------------------------------------------------------------------------
(* Sums *)

\* Among sets of subsets of a finite set there is a smallest one. The proofs about sums
\* refute a smallest counterexample where others would cite an induction principle.
LEMMA SmallestSubset ==
    ASSUME NEW S, IsFiniteSet(S), NEW B \in SUBSET SUBSET S, B # {}
    PROVE  \E T \in B : \A U \in B : ~ (U \subseteq T /\ U # T)
<1>1. B \subseteq FiniteSubsetsOf(S)
  BY FS_FiniteSubsetsOfFinite
<1>2. PICK T \in B : \A U \in B : ~ (<<U, T>> \in StrictSubsetOrdering(S))
  BY <1>1, WFMin, FS_StrictSubsetOrderingWellFounded
<1>3. ASSUME NEW U \in B PROVE ~ (U \subseteq T /\ U # T)
  <2>1. U \in SUBSET S /\ T \in SUBSET S
    OBVIOUS
  <2>. QED BY <1>2, <2>1 DEF StrictSubsetOrdering
<1>. QED BY <1>3

\* The element that the library's sum takes out of a set first.
Picked(T) == CHOOSE x \in T : TRUE

\* The total of f over T, if h knows those over the subsets of T ...
Total(f, T, h) == IF T = {} THEN 0 ELSE f[Picked(T)] + h[T \ {Picked(T)}]

\* ... and h is the function by which the library defines its sum.
Totals(f, S, h) == h = [T \in SUBSET S |-> Total(f, T, h)]

LEMMA PickedIn == ASSUME NEW T, T # {} PROVE Picked(T) \in T
  BY DEF Picked

LEMMA TotalsAgree ==
    ASSUME NEW f, NEW e, NEW U, NEW V, IsFiniteSet(U), NEW g, NEW h,
           Totals(f, U, g), Totals(e, V, h),
           NEW T, T \subseteq U, T \subseteq V, \A x \in T : f[x] = e[x]
    PROVE  g[T] = h[T]
<1>. DEFINE B == {R \in SUBSET T : g[R] # h[R]}
<1>1. SUFFICES ASSUME B # {} PROVE FALSE
  OBVIOUS
<1>2. IsFiniteSet(T)
  BY FS_Subset
<1>3. B \in SUBSET SUBSET T
  OBVIOUS
<1>4. PICK R \in B : \A Q \in B : ~ (Q \subseteq R /\ Q # R)
  <2>. HIDE DEF B
  <2>. QED BY <1>1, <1>2, <1>3, SmallestSubset
<1>5. R \in SUBSET U /\ R \in SUBSET V /\ R \in SUBSET T
  OBVIOUS
<1>6. g[R] = Total(f, R, g) /\ h[R] = Total(e, R, h)
  BY <1>5 DEF Totals
<1>7. CASE R = {}
  BY <1>6, <1>7 DEF Total
<1>8. CASE R # {}
  <2>. DEFINE x == Picked(R)
              Q == R \ {x}
  <2>1. x \in R /\ Q \in SUBSET T /\ Q \subseteq R /\ Q # R
    BY <1>5, <1>8, PickedIn
  <2>2. g[Q] = h[Q]
    BY <1>4, <2>1
  <2>3. f[x] = e[x]
    BY <1>5, <2>1
  <2>4. g[R] = f[x] + g[Q] /\ h[R] = e[x] + h[Q]
    BY <1>6, <1>8 DEF Total
  <2>5. g[R] = h[R]
    BY <2>2, <2>3, <2>4
  <2>. QED BY <2>5
<1>. QED BY <1>7, <1>8

LEMMA TotalsExist ==
    ASSUME NEW f, NEW S, IsFiniteSet(S)
    PROVE  \E h : Totals(f, S, h)
<1>. DEFINE B == {T \in SUBSET S : ~ \E h : Totals(f, T, h)}
<1>1. SUFFICES ASSUME B # {} PROVE FALSE
  OBVIOUS
<1>2. PICK T \in B : \A Q \in B : ~ (Q \subseteq T /\ Q # T)
  <2>1. B \in SUBSET SUBSET S
    OBVIOUS
  <2>. HIDE DEF B
  <2>. QED BY <1>1, <2>1, SmallestSubset
<1>. DEFINE part(R) == CHOOSE h : Totals(f, R, h)
            x == Picked(T)
            h == [R \in SUBSET T |-> Total(f, R, part(R \ {Picked(R)}))]
<1>3. ASSUME NEW R \in SUBSET T, R # T PROVE IsFiniteSet(R) /\ Totals(f, R, part(R))
  <2>1. R \in SUBSET S /\ R \notin B
    BY <1>2, <1>3
  <2>2. \E k : Totals(f, R, k)
    BY <2>1
  <2>. QED BY <2>1, <2>2, FS_Subset
<1>4. ASSUME NEW R \in SUBSET T, R # {}
      PROVE  part(R \ {Picked(R)})[R \ {Picked(R)}] = h[R \ {Picked(R)}]
  <2>. DEFINE Q == R \ {Picked(R)}
              y == Picked(Q)
              P == Q \ {y}
  <2>1. Q \in SUBSET T /\ Q # T
    BY <1>4, PickedIn
  <2>2. Totals(f, Q, part(Q)) /\ IsFiniteSet(Q)
    BY <1>3, <2>1
  <2>3. part(Q)[Q] = Total(f, Q, part(Q))
    <3>1. \A k : Totals(f, Q, k) => k[Q] = Total(f, Q, k)
      BY DEF Totals
    <3>. HIDE DEF part
    <3>. QED BY <2>2, <3>1
  <2>4. h[Q] = Total(f, Q, part(P))
    BY <2>1
  <2>5. CASE Q = {}
    BY <2>3, <2>4, <2>5 DEF Total
  <2>6. CASE Q # {}
    <3>1. y \in Q /\ P \in SUBSET T /\ P # T /\ P \subseteq Q /\ P \subseteq P
      BY <2>1, <2>6, PickedIn
    <3>2. Totals(f, P, part(P)) /\ IsFiniteSet(P)
      BY <1>3, <3>1
    <3>3. part(Q)[P] = part(P)[P]
      <4>. HIDE DEF part, P, Q
      <4>. QED BY <2>2, <3>1, <3>2, TotalsAgree
    <3>. QED BY <2>3, <2>4, <2>6, <3>3 DEF Total
  <2>. QED BY <2>5, <2>6
<1>5. Totals(f, T, h)
  <2>1. ASSUME NEW R \in SUBSET T PROVE h[R] = Total(f, R, h)
    <3>1. h[R] = Total(f, R, part(R \ {Picked(R)}))
      OBVIOUS
    <3>2. CASE R = {}
      BY <3>1, <3>2 DEF Total
    <3>3. CASE R # {}
      <4>1. part(R \ {Picked(R)})[R \ {Picked(R)}] = h[R \ {Picked(R)}]
        BY <1>4, <3>3
      <4>. HIDE DEF part, h
      <4>. QED BY <3>1, <3>3, <4>1 DEF Total
    <3>. QED BY <3>2, <3>3
  <2>2. h = [R \in SUBSET T |-> h[R]]
    OBVIOUS
  <2>. HIDE DEF h
  <2>. QED BY <2>1, <2>2 DEF Totals
<1>. QED BY <1>5

LEMMA SumIsTotal ==
    ASSUME NEW f, NEW S, IsFiniteSet(S)
    PROVE  \E h : Totals(f, S, h) /\ SumFunctionOnSet(f, S) = h[S]
<1>. DEFINE h == CHOOSE h : Totals(f, S, h)
<1>1. Totals(f, S, h)
  BY TotalsExist
<1>2. SumFunctionOnSet(f, S) = h[S]
  BY DEF SumFunctionOnSet, FoldFunctionOnSet, MapThenFoldSet, Totals, Total, Picked
<1>. QED BY <1>1, <1>2

LEMMA SumsAgree ==
    ASSUME NEW f, NEW e, NEW S, IsFiniteSet(S), \A x \in S : f[x] = e[x]
    PROVE  SumFunctionOnSet(f, S) = SumFunctionOnSet(e, S)
<1>1. PICK g : Totals(f, S, g) /\ SumFunctionOnSet(f, S) = g[S]
  BY SumIsTotal
<1>2. PICK h : Totals(e, S, h) /\ SumFunctionOnSet(e, S) = h[S]
  BY SumIsTotal
<1>3. \A T : T \subseteq S => g[T] = h[T]
  <2>. TAKE T
  <2>. HAVE T \subseteq S
  <2>1. \A x \in T : f[x] = e[x]
    OBVIOUS
  <2>. QED BY <1>1, <1>2, <2>1, TotalsAgree
<1>. QED BY <1>1, <1>2, <1>3

LEMMA SumOfNone == ASSUME NEW f PROVE SumFunctionOnSet(f, {}) = 0
<1>1. PICK h : Totals(f, {}, h) /\ SumFunctionOnSet(f, {}) = h[{}]
  BY SumIsTotal, FS_EmptySet
<1>. QED BY <1>1 DEF Totals, Total

LEMMA SumOfPicked ==
    ASSUME NEW f, NEW S, IsFiniteSet(S), S # {}
    PROVE  SumFunctionOnSet(f, S)
              = f[Picked(S)] + SumFunctionOnSet(f, S \ {Picked(S)})
<1>. DEFINE x == Picked(S)
            Q == S \ {x}
<1>1. PICK g : Totals(f, S, g) /\ SumFunctionOnSet(f, S) = g[S]
  BY SumIsTotal
<1>2. IsFiniteSet(Q) /\ Q \in SUBSET S
  BY FS_Subset
<1>3. PICK h : Totals(f, Q, h) /\ SumFunctionOnSet(f, Q) = h[Q]
  <2>. HIDE DEF Q
  <2>. QED BY <1>2, SumIsTotal
<1>4. g[Q] = h[Q]
  <2>. HIDE DEF Q
  <2>. QED BY <1>1, <1>2, <1>3, TotalsAgree
<1>5. g[S] = f[x] + g[Q]
  BY <1>1 DEF Totals, Total
<1>. QED BY <1>1, <1>3, <1>4, <1>5

LEMMA SumIsNat ==
    ASSUME NEW f, NEW S, IsFiniteSet(S), \A x \in S : f[x] \in Nat
    PROVE  SumFunctionOnSet(f, S) \in Nat
<1>. DEFINE B == {T \in SUBSET S : SumFunctionOnSet(f, T) \notin Nat}
<1>1. SUFFICES ASSUME B # {} PROVE FALSE
  OBVIOUS
<1>2. PICK T \in B : \A Q \in B : ~ (Q \subseteq T /\ Q # T)
  <2>1. B \in SUBSET SUBSET S
    OBVIOUS
  <2>. HIDE DEF B
  <2>. QED BY <1>1, <2>1, SmallestSubset
<1>3. T # {}
  BY SumOfNone
<1>. DEFINE x == Picked(T)
            Q == T \ {x}
<1>4. x \in T /\ Q \in SUBSET S /\ Q \subseteq T /\ Q # T /\ IsFiniteSet(T)
  BY <1>3, PickedIn, FS_Subset
<1>5. SumFunctionOnSet(f, Q) \in Nat /\ f[x] \in Nat
  BY <1>2, <1>4
<1>6. SumFunctionOnSet(f, T) = f[x] + SumFunctionOnSet(f, Q)
  BY <1>3, <1>4, SumOfPicked
<1>7. SumFunctionOnSet(f, T) \in Nat
  <2>. HIDE DEF x, Q
  <2>. QED BY <1>5, <1>6
<1>. QED BY <1>7

\* Whatever element is taken out first, the sum is the same.
LEMMA SumOfAny ==
    ASSUME NEW f, NEW S, IsFiniteSet(S), \A x \in S : f[x] \in Nat, NEW x \in S
    PROVE  SumFunctionOnSet(f, S) = f[x] + SumFunctionOnSet(f, S \ {x})
<1>. DEFINE sumOf(T) == SumFunctionOnSet(f, T)
            B == {T \in SUBSET S : \E y \in T : sumOf(T) # f[y] + sumOf(T \ {y})}
<1>1. SUFFICES ASSUME B # {} PROVE FALSE
  OBVIOUS
<1>2. PICK T \in B : \A Q \in B : ~ (Q \subseteq T /\ Q # T)
  <2>1. B \in SUBSET SUBSET S
    OBVIOUS
  <2>. HIDE DEF B
  <2>. QED BY <1>1, <2>1, SmallestSubset
<1>3. PICK y \in T : sumOf(T) # f[y] + sumOf(T \ {y})
  OBVIOUS
<1>. DEFINE z == Picked(T)
            Y == T \ {y}
            Z == T \ {z}
            YZ == T \ {y, z}
<1>4. z \in T /\ y \in T /\ T \in SUBSET S /\ IsFiniteSet(T)
  BY PickedIn, FS_Subset
<1>5. sumOf(T) = f[z] + sumOf(Z)
  BY <1>4, SumOfPicked
<1>6. y # z
  BY <1>3, <1>5
<1>7. \A Q \in SUBSET T : Q # T => \A u \in Q : sumOf(Q) = f[u] + sumOf(Q \ {u})
  <2>. SUFFICES ASSUME NEW Q \in SUBSET T, Q # T
                PROVE  \A u \in Q : sumOf(Q) = f[u] + sumOf(Q \ {u})
    OBVIOUS
  <2>1. Q \in SUBSET S /\ Q \notin B
    BY <1>2
  <2>. HIDE DEF sumOf
  <2>. QED BY <2>1
<1>8. y \in Z /\ Z \in SUBSET T /\ Z # T /\ Z \ {y} = YZ
  BY <1>4, <1>6
<1>9. z \in Y /\ Y \in SUBSET T /\ Y # T /\ Y \ {z} = YZ
  BY <1>4, <1>6
<1>10. sumOf(Z) = f[y] + sumOf(YZ) /\ sumOf(Y) = f[z] + sumOf(YZ)
  <2>. HIDE DEF sumOf, Y, Z, YZ
  <2>. QED BY <1>7, <1>8, <1>9
<1>11. f[y] \in Nat /\ f[z] \in Nat /\ sumOf(YZ) \in Nat
  <2>1. YZ \in SUBSET S /\ \A u \in YZ : f[u] \in Nat
    BY <1>4
  <2>2. IsFiniteSet(YZ)
    BY <2>1, FS_Subset
  <2>. QED BY <1>4, <2>1, <2>2, SumIsNat
<1>. QED
  <2>. HIDE DEF sumOf, Y, Z, YZ, z
  <2>1. sumOf(T) # f[y] + sumOf(Y)
    BY <1>3 DEF Y
  <2>. QED BY <1>5, <1>10, <1>11, <2>1

\* One more to sum up.
LEMMA SumOfMore ==
    ASSUME NEW f, NEW e, NEW S, IsFiniteSet(S), NEW x, x \notin S, e[x] \in Nat,
           \A s \in S : f[s] \in Nat /\ e[s] = f[s]
    PROVE  SumFunctionOnSet(e, S \union {x}) = SumFunctionOnSet(f, S) + e[x]
<1>. DEFINE T == S \union {x}
<1>1. IsFiniteSet(T) /\ x \in T /\ T \ {x} = S /\ \A s \in T : e[s] \in Nat
  BY FS_AddElement
<1>2. SumFunctionOnSet(e, T) = e[x] + SumFunctionOnSet(e, T \ {x})
  <2>. HIDE DEF T
  <2>. QED BY <1>1, SumOfAny
<1>3. SumFunctionOnSet(e, S) = SumFunctionOnSet(f, S) /\ SumFunctionOnSet(f, S) \in Nat
  BY SumsAgree, SumIsNat
<1>. QED BY <1>1, <1>2, <1>3

-----------------------------------------------------------------------------
(* What an assessment that nobody edits the engine during arrives at *)

\* Of the first n signals, those heard, by position; those that answered with an override;
\* and those that enter the average.
Heard(n) == {i \in DOMAIN signals : i <= n /\ signals[i] \in enabled \ raised}
Overriding(n) == {i \in Heard(n) : opinion[signals[i]].override # None}
Counted(n) == {s \in {signals[i] : i \in Heard(n)} : opinion[s].suspicion # None}
Weighed(n) == [s \in Counted(n) |-> opinion[s].suspicion * Weight[s]]

\* How many signals the walk is done with.
Done == IF pc = "await" THEN index - 1 ELSE index

\* The tally of the first n signals.
Tallied(n) ==
    /\ Overriding(n) = {} => best = None
    /\ Overriding(n) # {} =>
         /\ best # None /\ \E i \in Overriding(n) : best = opinion[signals[i]].override
         /\ \A i \in Overriding(n) : best >= opinion[signals[i]].override
    /\ sum = SumFunctionOnSet(Weighed(n), Counted(n))
    /\ total = SumFunctionOnSet(Weight, Counted(n))

\* The walk ended with the first override.
CutShort ==
    /\ index \in Overriding(index)
    /\ Overriding(index - 1) = {}
    /\ best = opinion[signals[index]].override

TallyInv ==
    edits = << >> =>
        /\ index <= Len(signals)
        /\ pc = "await" =>
             index \in DOMAIN signals /\ signals[index] = current /\ current \in enabled
        /\ pc = "idle" => index = 0 /\ raised = {} /\ best = None /\ sum = 0 /\ total = 0
        /\ \A i \in DOMAIN signals : signals[i] \in raised => i <= Done
        /\ shortCircuit /\ best # None => pc \in {"conclude", "done"} /\ CutShort
        /\ ~ (shortCircuit /\ best # None) =>
             /\ Tallied(Done)
             /\ pc \in {"conclude", "done"} => index = Len(signals)
        /\ pc = "done" => level = IF best # None THEN best ELSE LevelOf(sum, total)

DocInv == TypeInv /\ TallyInv

\* The walk is where it was, and the signals are as they were.
LEMMA TallyKept ==
    ASSUME TallyInv, edits = << >>, pc \in {"next", "await", "conclude"}, pc' # "idle",
           UNCHANGED <<signals, enabled, shortCircuit, opinion, best, sum, total, raised>>,
           Done' = Done,
           pc' = "await" =>
              index' \in DOMAIN signals /\ signals[index'] = current' /\ current' \in enabled,
           index' <= Len(signals),
           pc \in {"next", "await"} /\ pc' \in {"conclude", "done"} => index' = Len(signals),
           pc = "conclude" => index' = index /\ pc' \in {"conclude", "done"},
           pc' = "done" => level' = IF best # None THEN best ELSE LevelOf(sum, total)
    PROVE  TallyInv'
<1>1. ASSUME NEW n
      PROVE  /\ Heard(n)' = Heard(n) /\ Overriding(n)' = Overriding(n)
             /\ Counted(n)' = Counted(n) /\ Weighed(n)' = Weighed(n)
  BY DEF Heard, Overriding, Counted, Weighed
<1>2. ASSUME shortCircuit, best # None PROVE pc' \in {"conclude", "done"} /\ CutShort'
  <2>1. pc = "conclude" /\ CutShort /\ index' = index
    BY <1>2 DEF TallyInv
  <2>. QED BY <1>1, <2>1 DEF CutShort
<1>3. ASSUME ~ (shortCircuit /\ best # None) PROVE Tallied(Done)'
  <2>1. Tallied(Done)
    BY <1>3 DEF TallyInv
  <2>. DEFINE d == Done
  <2>2. d' = d
    OBVIOUS
  <2>. HIDE DEF d
  <2>3. /\ Overriding(d)' = Overriding(d) /\ Counted(d)' = Counted(d) /\ Weighed(d)' = Weighed(d)
    BY <2>2 DEF Heard, Overriding, Counted, Weighed
  <2>. QED BY <2>1, <2>3 DEF Tallied, d
<1>4. LevelOf(sum', total') = LevelOf(sum, total)
  OBVIOUS
<1>5. \A i \in DOMAIN signals' : signals'[i] \in raised' => i <= Done'
  BY DEF TallyInv
<1>. HIDE DEF Done
<1>. QED BY <1>2, <1>3, <1>4, <1>5 DEF TallyInv

LEMMA NothingHeard ==
    ASSUME TypeInv
    PROVE  Heard(0) = {} /\ Overriding(0) = {} /\ Counted(0) = {}
<1>1. \A i \in DOMAIN signals : ~ (i <= 0)
  BY DEF TypeInv, TypeOK
<1>2. Heard(0) = {}
  BY <1>1 DEF Heard
<1>. QED BY <1>2 DEF Overriding, Counted

LEMMA DocInit == Init => DocInv
<1>. SUFFICES ASSUME Init PROVE TallyInv
  BY TypeInit DEF DocInv
<1>1. TypeInv
  BY TypeInit
<1>2. /\ pc = "idle" /\ index = 0 /\ raised = {} /\ best = None /\ sum = 0 /\ total = 0
  BY DEF Init
<1>3. Done = 0
  BY <1>2 DEF Done
<1>4. Tallied(0)
  BY <1>1, <1>2, NothingHeard, SumOfNone DEF Tallied
<1>5. index <= Len(signals)
  BY <1>1, <1>2 DEF TypeInv, TypeOK
<1>. QED BY <1>2, <1>3, <1>4, <1>5 DEF TallyInv

LEMMA DocBegin == ASSUME DocInv, TypeInv', Begin PROVE TallyInv'
<1>. SUFFICES ASSUME edits = << >> PROVE TallyInv'
  BY DEF Begin, TallyInv
<1>1. /\ pc = "idle" /\ pc' = "next"
      /\ UNCHANGED <<signals, index, best, sum, total, raised>>
  BY DEF Begin, engineVars, localVars
<1>2. index = 0 /\ raised = {} /\ best = None /\ sum = 0 /\ total = 0 /\ index <= Len(signals)
  BY <1>1 DEF DocInv, TallyInv
<1>3. Done' = 0
  BY <1>1, <1>2 DEF Done
<1>4. Heard(0)' = {} /\ Overriding(0)' = {} /\ Counted(0)' = {}
  <2>1. \A i \in DOMAIN signals' : ~ (i <= 0)
    BY DEF TypeInv, TypeOK
  <2>2. Heard(0)' = {}
    BY <2>1 DEF Heard
  <2>. QED BY <2>2 DEF Overriding, Counted
<1>5. Tallied(0)'
  BY <1>1, <1>2, <1>4, SumOfNone DEF Tallied
<1>. QED BY <1>1, <1>2, <1>3, <1>5 DEF TallyInv

LEMMA DocAdvance == ASSUME DocInv, Advance PROVE TallyInv'
<1>. SUFFICES ASSUME edits = << >> PROVE TallyInv'
  BY DEF Advance, TallyInv, ghostVars
<1>1. /\ pc = "next" /\ index < Len(signals) /\ index' = index + 1 /\ index \in Nat
      /\ UNCHANGED <<signals, enabled, shortCircuit, opinion, best, sum, total, raised, edits>>
  BY DEF Advance, engineVars, ghostVars, DocInv, TypeInv, TypeOK
<1>2. index + 1 \in DOMAIN signals /\ index' <= Len(signals)
  BY <1>1 DEF DocInv, TypeInv, TypeOK
<1>3. CASE signals[index + 1] \in enabled /\ pc' = "await" /\ current' = signals[index + 1]
  <2>1. Done' = Done
    BY <1>1, <1>3 DEF Done
  <2>. QED BY <1>1, <1>2, <1>3, <2>1, TallyKept DEF DocInv
<1>4. CASE signals[index + 1] \notin enabled /\ pc' = "next"
  <2>1. Done = index /\ Done' = index'
    BY <1>1, <1>4 DEF Done
  <2>2. PICK n \in Nat : n = index + 1
    BY <1>1
  <2>3. Heard(n)' = Heard(index)
    <3>1. \A i \in DOMAIN signals : i \in Nat
      BY DEF DocInv, TypeInv, TypeOK
    <3>2. \A i \in DOMAIN signals : i <= n <=> i <= index \/ i = index + 1
      BY <1>1, <2>2, <3>1
    <3>. QED BY <1>1, <1>4, <3>2 DEF Heard
  <2>4. /\ Overriding(n)' = Overriding(index) /\ Counted(n)' = Counted(index)
        /\ Weighed(n)' = Weighed(index)
    BY <1>1, <2>3 DEF Overriding, Counted, Weighed
  <2>5. ~ (shortCircuit /\ best # None) /\ Tallied(index)
    BY <1>1, <2>1 DEF DocInv, TallyInv
  <2>6. Tallied(n)'
    BY <1>1, <2>4, <2>5 DEF Tallied
  <2>7. \A i \in DOMAIN signals' : signals'[i] \in raised' => i <= index'
    <3>1. \A i \in DOMAIN signals : signals[i] \in raised => i <= index
      BY <2>1 DEF DocInv, TallyInv
    <3>2. \A i \in DOMAIN signals : i \in Nat
      BY DEF DocInv, TypeInv, TypeOK
    <3>. QED BY <1>1, <3>1, <3>2
  <2>8. Tallied(Done)'
    <3>1. Done' = n
      BY <1>1, <2>1, <2>2
    <3>. QED BY <2>6, <3>1
  <2>. QED BY <1>1, <1>2, <1>4, <2>1, <2>5, <2>7, <2>8 DEF TallyInv
<1>. QED BY <1>1, <1>3, <1>4 DEF Advance

LEMMA DocExhausted == ASSUME DocInv, Exhausted PROVE TallyInv'
<1>. SUFFICES ASSUME edits = << >> PROVE TallyInv'
  BY DEF Exhausted, TallyInv, ghostVars
<1>1. /\ pc = "next" /\ index >= Len(signals) /\ pc' = "conclude" /\ index \in Nat
      /\ Len(signals) \in Nat
      /\ UNCHANGED <<signals, enabled, shortCircuit, opinion, index, best, sum, total, raised>>
  BY DEF Exhausted, engineVars, localVars, ghostVars, DocInv, TypeInv, TypeOK
<1>2. index = Len(signals)
  BY <1>1 DEF DocInv, TallyInv
<1>3. Done' = Done
  BY <1>1 DEF Done
<1>. QED BY <1>1, <1>2, <1>3, TallyKept DEF DocInv

LEMMA DocConclude == ASSUME DocInv, Conclude PROVE TallyInv'
<1>. SUFFICES ASSUME edits = << >> PROVE TallyInv'
  BY DEF Conclude, TallyInv, ghostVars
<1>1. /\ pc = "conclude" /\ pc' = "done"
      /\ level' = IF best # None THEN best ELSE LevelOf(sum, total)
      /\ UNCHANGED <<signals, enabled, shortCircuit, opinion, index, best, sum, total, raised>>
  BY DEF Conclude, engineVars, localVars, ghostVars
<1>2. index <= Len(signals)
  BY DEF DocInv, TallyInv
<1>3. Done' = Done
  BY <1>1 DEF Done
<1>. QED BY <1>1, <1>2, <1>3, TallyKept DEF DocInv

LEMMA DocEdited ==
    ASSUME DocInv, NEW kind \in Edits, Edit(kind) PROVE TallyInv'
<1>1. edits' = Append(edits, kind) /\ edits \in Seq(Edits)
  BY DEF Edit, DocInv, TypeInv, TypeOK
<1>2. edits' # << >>
  BY <1>1, AppendProperties
<1>. QED BY <1>2 DEF TallyInv

\* What one more signal changes.
LEMMA HeardOneMore ==
    ASSUME DocInv, NEW raises \in BOOLEAN, Answer(raises), edits = << >>
    PROVE  /\ index \in Nat \ {0} /\ index \in DOMAIN signals
           /\ signals[index] = current /\ current \in Signals /\ current \notin raised
           /\ Heard(index)' = IF raises THEN Heard(index - 1) ELSE Heard(index - 1) \union {index}
           /\ Heard(index - 1)' = Heard(index - 1)
           /\ current \notin {signals[i] : i \in Heard(index - 1)}
<1>1. /\ pc = "await" /\ UNCHANGED <<signals, enabled, index>>
      /\ raised' = IF raises THEN raised \union {current} ELSE raised
  BY DEF Answer, engineVars
<1>2. signals \in Seq(Signals) /\ IsInjective(signals) /\ current \in Signals
  BY <1>1 DEF DocInv, TypeInv, TypeOK
<1>3. index \in DOMAIN signals /\ signals[index] = current /\ current \in enabled
  BY <1>1 DEF DocInv, TallyInv
<1>4. index \in Nat \ {0} /\ \A i \in DOMAIN signals : i \in Nat
  BY <1>2, <1>3
<1>5. \A i \in DOMAIN signals : i # index => signals[i] # current
  BY <1>2, <1>3 DEF IsInjective
<1>6. \A i \in DOMAIN signals : /\ i <= index - 1 => i # index /\ i <= index
                                /\ i <= index => i = index \/ i <= index - 1
  BY <1>4
<1>7. current \notin raised
  <2>1. \A i \in DOMAIN signals : signals[i] \in raised => i <= index - 1
    BY <1>1 DEF DocInv, TallyInv, Done
  <2>. QED BY <1>3, <1>6, <2>1
<1>8. Heard(index)' = IF raises THEN Heard(index - 1) ELSE Heard(index - 1) \union {index}
  <2>1. CASE raises
    BY <1>1, <1>3, <1>5, <1>6, <1>7, <2>1 DEF Heard
  <2>2. CASE ~ raises
    BY <1>1, <1>3, <1>5, <1>6, <1>7, <2>2 DEF Heard
  <2>. QED BY <2>1, <2>2
<1>9. Heard(index - 1)' = Heard(index - 1)
  BY <1>1, <1>5, <1>6 DEF Heard
<1>10. current \notin {signals[i] : i \in Heard(index - 1)}
  BY <1>5, <1>6 DEF Heard
<1>. QED BY <1>2, <1>3, <1>4, <1>7, <1>8, <1>9, <1>10

LEMMA WeighedIsNat ==
    ASSUME TypeInv, NEW n
    PROVE  /\ IsFiniteSet(Counted(n)) /\ Counted(n) \in SUBSET Signals
           /\ \A s \in Counted(n) : /\ Weighed(n)[s] = opinion[s].suspicion * Weight[s]
                                    /\ Weighed(n)[s] \in Nat /\ Weight[s] \in Nat
<1>1. Counted(n) \in SUBSET Signals
  <2>1. \A i \in DOMAIN signals : signals[i] \in Signals
    BY DEF TypeInv, TypeOK
  <2>. QED BY <2>1 DEF Counted, Heard
<1>2. IsFiniteSet(Counted(n))
  BY <1>1, FS_Subset, EngineAssumption
<1>3. ASSUME NEW s \in Counted(n)
      PROVE  /\ Weighed(n)[s] = opinion[s].suspicion * Weight[s]
             /\ Weighed(n)[s] \in Nat /\ Weight[s] \in Nat
  <2>1. Weighed(n)[s] = opinion[s].suspicion * Weight[s]
    BY DEF Weighed
  <2>2. s \in Signals /\ opinion[s].suspicion # None
    BY <1>1 DEF Counted
  <2>3. opinion[s] \in Contribution /\ Weight[s] \in Nat
    BY <2>2, EngineAssumption DEF TypeInv, TypeOK
  <2>4. opinion[s].suspicion \in Nat
    BY <2>2, <2>3, EngineAssumption DEF Contribution
  <2>. QED BY <2>1, <2>3, <2>4, Product
<1>. QED BY <1>1, <1>2, <1>3

LEMMA DocAnswer ==
    ASSUME DocInv, NEW raises \in BOOLEAN, Answer(raises) PROVE TallyInv'
<1>. SUFFICES ASSUME edits = << >> PROVE TallyInv'
  BY DEF Answer, TallyInv
<1>. DEFINE c == IF raises THEN Abstains ELSE opinion[current]
            higher == c.override # None /\ (best # None => c.override > best)
            before == index - 1
<1>1. /\ pc = "await" /\ Done = before
      /\ raised' = IF raises THEN raised \union {current} ELSE raised
      /\ UNCHANGED <<signals, enabled, shortCircuit, index, opinion, edits>>
  BY DEF Answer, engineVars, Done
<1>2. /\ index \in Nat \ {0} /\ index \in DOMAIN signals
      /\ signals[index] = current /\ current \in Signals /\ current \notin raised
      /\ Heard(index)' = IF raises THEN Heard(before) ELSE Heard(before) \union {index}
      /\ Heard(before)' = Heard(before)
      /\ current \notin {signals[i] : i \in Heard(before)}
  BY HeardOneMore
<1>3. ~ (shortCircuit /\ best # None) /\ Tallied(before) /\ index <= Len(signals)
  BY <1>1 DEF DocInv, TallyInv
<1>4. \A i \in DOMAIN signals' : signals'[i] \in raised' => i <= index'
  <2>1. \A i \in DOMAIN signals : signals[i] \in raised => i <= index - 1
    BY <1>1 DEF DocInv, TallyInv
  <2>2. signals \in Seq(Signals) /\ IsInjective(signals)
    BY DEF DocInv, TypeInv, TypeOK
  <2>3. \A i \in DOMAIN signals : i \in Nat /\ (signals[i] = current => i = index)
    BY <1>2, <2>2 DEF IsInjective
  <2>. QED BY <1>1, <1>2, <2>1, <2>3
<1>5. c.override \in Levels \union {None} /\ (best = None \/ best \in Levels) /\ None \notin Levels
  <2>1. c \in Contribution
    BY <1>2 DEF DocInv, TypeInv, TypeOK, Abstains, Contribution
  <2>. HIDE DEF c
  <2>. QED BY <2>1, EngineAssumption DEF Contribution, DocInv, TypeInv, TypeOK, Levels
<1>6. Overriding(index)' = IF c.override # None THEN Overriding(before) \union {index}
                           ELSE Overriding(before)
  <2>1. CASE raises
    BY <1>1, <1>2, <2>1 DEF Overriding, Abstains
  <2>2. CASE ~ raises
    BY <1>1, <1>2, <2>2 DEF Overriding
  <2>. QED BY <2>1, <2>2
<1>7. Counted(index)' = IF c.suspicion # None THEN Counted(before) \union {current}
                        ELSE Counted(before)
  <2>1. CASE raises
    BY <1>1, <1>2, <2>1 DEF Counted, Abstains
  <2>2. CASE ~ raises
    <3>1. {signals'[i] : i \in Heard(index)'} = {signals[i] : i \in Heard(before)} \union {current}
      BY <1>1, <1>2, <2>2
    <3>. QED BY <1>1, <2>2, <3>1 DEF Counted
  <2>. QED BY <2>1, <2>2
<1>8. CASE higher /\ shortCircuit
  <2>1. /\ best' = c.override /\ pc' = "conclude" /\ best' # None
    BY <1>8 DEF Answer
  <2>2. best = None /\ Overriding(before) = {}
    BY <1>3, <1>8 DEF Tallied
  <2>3. ~ raises
    BY <1>8 DEF Abstains
  <2>4. CutShort'
    <3>1. Overriding(before)' = Overriding(before)
      BY <1>1, <1>2 DEF Overriding
    <3>2. index' \in Overriding(index)'
      BY <1>1, <1>6, <1>8
    <3>. QED BY <1>1, <1>2, <2>1, <2>2, <2>3, <3>1, <3>2 DEF CutShort
  <2>. QED BY <1>1, <1>3, <1>4, <1>8, <2>1, <2>4 DEF TallyInv, Done
<1>9. CASE ~ (higher /\ shortCircuit)
  <2>1. /\ pc' = "next" /\ Count(c)
        /\ best' = IF higher THEN c.override ELSE best
    BY <1>9 DEF Answer
  <2>2. ~ (shortCircuit' /\ best' # None)
    BY <1>1, <1>3, <1>9, <2>1
  <2>3. /\ Overriding(index)' = {} => best' = None
        /\ Overriding(index)' # {} =>
             /\ best' # None /\ \E i \in Overriding(index)' : best' = opinion'[signals'[i]].override
             /\ \A i \in Overriding(index)' : best' >= opinion'[signals'[i]].override
    <3>1. /\ Overriding(before) = {} => best = None
          /\ Overriding(before) # {} =>
               /\ best # None /\ \E i \in Overriding(before) : best = opinion[signals[i]].override
               /\ \A i \in Overriding(before) : best >= opinion[signals[i]].override
      BY <1>3 DEF Tallied
    <3>2. \A i \in Overriding(before) : opinion[signals[i]].override \in Int
      <4>1. \A i \in Overriding(before) : signals[i] \in Signals
        BY DEF DocInv, TypeInv, TypeOK, Overriding, Heard
      <4>2. \A s \in Signals : opinion[s].override \in Levels \union {None}
        BY DEF DocInv, TypeInv, TypeOK, Contribution
      <4>. QED BY <4>1, <4>2 DEF Overriding, Levels
    <3>3. c.override # None => c.override = opinion[signals[index]].override
      BY <1>2 DEF Abstains
    <3>4. c.override = None \/ c.override \in Int
      BY <1>5 DEF Levels
    <3>5. best = None \/ best \in Int
      BY <1>5 DEF Levels
    <3>6. CASE c.override = None
      <4>1. best' = best /\ Overriding(index)' = Overriding(before)
        BY <1>6, <2>1, <3>6
      <4>. QED BY <1>1, <3>1, <4>1
    <3>. DEFINE o == c.override
    <3>7. CASE c.override # None
      <4>1. Overriding(index)' = Overriding(before) \union {index}
        BY <1>6, <3>7
      <4>2. best' = IF best # None => o > best THEN o ELSE best
        BY <2>1, <3>7
      <4>3. o \in Int /\ o = opinion[signals[index]].override /\ o # None
        BY <3>3, <3>4, <3>7
      <4>. HIDE DEF o
      <4>4. best' # None
        BY <4>2, <4>3
      <4>5. \E i \in Overriding(before) \union {index} : best' = opinion[signals[i]].override
        BY <3>1, <4>2, <4>3
      <4>6. ASSUME NEW i \in Overriding(before) \union {index}
            PROVE  best' >= opinion[signals[i]].override
        <5>1. CASE i = index
          BY <3>5, <4>2, <4>3, <5>1
        <5>2. CASE i \in Overriding(before)
          <6>1. best # None /\ best >= opinion[signals[i]].override
            BY <3>1, <5>2
          <6>. QED BY <3>2, <3>5, <4>2, <4>3, <5>2, <6>1
        <5>. QED BY <5>1, <5>2
      <4>. QED BY <1>1, <4>1, <4>4, <4>5, <4>6
    <3>. QED BY <3>6, <3>7
  <2>4. /\ sum' = SumFunctionOnSet(Weighed(index)', Counted(index)')
        /\ total' = SumFunctionOnSet(Weight, Counted(index)')
    <3>1. /\ sum = SumFunctionOnSet(Weighed(before), Counted(before))
          /\ total = SumFunctionOnSet(Weight, Counted(before))
      BY <1>3 DEF Tallied
    <3>2. CASE c.suspicion = None
      <4>1. sum' = sum /\ total' = total /\ Counted(index)' = Counted(before)
        BY <1>7, <2>1, <3>2 DEF Count
      <4>2. Weighed(index)' = Weighed(before)
        BY <1>1, <4>1 DEF Weighed
      <4>. QED BY <3>1, <4>1, <4>2
    <3>3. CASE c.suspicion # None
      <4>. DEFINE C == Counted(before)
                  f == Weighed(before)
                  e == Weighed(index)'
                  w == opinion[current].suspicion * Weight[current]
      <4>1. Counted(index)' = C \union {current} /\ current \notin C
        BY <1>2, <1>7, <3>3 DEF Counted
      <4>2. c = opinion[current]
        BY <3>3 DEF Abstains
      <4>3. sum' = sum + w /\ total' = total + Weight[current]
        BY <2>1, <3>3, <4>2 DEF Count
      <4>4. Weight[current] \in Nat /\ w \in Nat
        <5>1. opinion[current] \in Contribution /\ Weight[current] \in Nat
          BY <1>2, EngineAssumption DEF DocInv, TypeInv, TypeOK
        <5>2. opinion[current].suspicion \in Nat
          BY <3>3, <4>2, <5>1, EngineAssumption DEF Contribution
        <5>. QED BY <5>1, <5>2, Product
      <4>5. IsFiniteSet(C) /\ \A s \in C : f[s] = opinion[s].suspicion * Weight[s]
                                           /\ f[s] \in Nat /\ Weight[s] \in Nat
        BY WeighedIsNat DEF DocInv
      <4>6. e = [s \in C \union {current} |-> opinion[s].suspicion * Weight[s]]
        BY <1>1, <4>1 DEF Weighed
      <4>7. e[current] = w /\ \A s \in C : e[s] = f[s]
        <5>1. e[current] = w
          <6>. HIDE DEF e, C
          <6>. QED BY <4>6
        <5>2. \A s \in C : e[s] = opinion[s].suspicion * Weight[s]
          <6>. HIDE DEF e, C
          <6>. QED BY <4>6
        <5>. HIDE DEF e, w, C, f
        <5>. QED BY <4>5, <5>1, <5>2
      <4>. HIDE DEF C, f, e, w
      <4>8. SumFunctionOnSet(e, C \union {current}) = SumFunctionOnSet(f, C) + e[current]
        <5>1. \A s \in C : f[s] \in Nat /\ e[s] = f[s]
          BY <4>5, <4>7
        <5>2. e[current] \in Nat
          BY <4>4, <4>7
        <5>. QED BY <4>1, <4>5, <5>1, <5>2, SumOfMore
      <4>9. SumFunctionOnSet(Weight, C \union {current})
              = SumFunctionOnSet(Weight, C) + Weight[current]
        BY <4>1, <4>4, <4>5, SumOfMore
      <4>. QED BY <3>1, <4>1, <4>3, <4>7, <4>8, <4>9 DEF C, f, e
    <3>. QED BY <3>2, <3>3
  <2>5. Tallied(index)'
    BY <2>3, <2>4 DEF Tallied
  <2>6. Done' = index'
    BY <2>1 DEF Done
  <2>7. Tallied(Done)'
    BY <2>5, <2>6
  <2>. QED BY <1>1, <1>3, <1>4, <2>1, <2>2, <2>6, <2>7 DEF TallyInv
<1>. QED BY <1>8, <1>9

LEMMA DocNext == DocInv /\ [Next]_vars => DocInv'
<1>. SUFFICES ASSUME DocInv, [Next]_vars PROVE DocInv'
  OBVIOUS
<1>1. TypeInv'
  BY TypeNext DEF DocInv
<1>2. ASSUME NEW s, NEW b, AddSignal(s, b) PROVE TallyInv'
  BY <1>2, DocEdited DEF AddSignal, Edits
<1>3. ASSUME NEW s, RemoveSignal(s) \/ Toggle(s) PROVE TallyInv'
  BY <1>3, DocEdited DEF RemoveSignal, Toggle, Edits
<1>4. CASE UNCHANGED vars
  <2>1. UNCHANGED <<signals, enabled, shortCircuit, pc, index, current, best, sum, total, level,
                    opinion, raised, edits>>
    BY <1>4 DEF vars, engineVars, localVars, ghostVars
  <2>2. Done' = Done /\ LevelOf(sum, total)' = LevelOf(sum, total)
    BY <2>1 DEF Done
  <2>3. Tallied(Done)' <=> Tallied(Done)
    <3>1. PICK n : n = Done
      OBVIOUS
    <3>2. Heard(n)' = Heard(n)
      BY <2>1 DEF Heard
    <3>3. Tallied(n)' <=> Tallied(n)
      BY <2>1, <3>2 DEF Tallied, Overriding, Counted, Weighed
    <3>. QED BY <2>2, <3>1, <3>3
  <2>4. CutShort' <=> CutShort
    BY <2>1 DEF CutShort, Overriding, Heard
  <2>5. TallyInv'
    BY <2>1, <2>2, <2>3, <2>4 DEF DocInv, TallyInv
  <2>. QED BY <1>1, <2>5 DEF DocInv
<1>5. CASE Next
  <2>1. TallyInv'
    BY <1>1, <1>2, <1>3, <1>5, DocBegin, DocAdvance, DocExhausted, DocAnswer, DocConclude DEF Next
  <2>. QED BY <1>1, <2>1 DEF DocInv
<1>. QED BY <1>4, <1>5

LEMMA OverridesAre ==
    ASSUME TypeInv, NEW n
    PROVE  \A i \in Overriding(n) : i \in Nat /\ opinion[signals[i]].override \in Int
<1>1. \A i \in Overriding(n) : signals[i] \in Signals /\ i \in Nat
  BY DEF TypeInv, TypeOK, Overriding, Heard
<1>2. \A s \in Signals : opinion[s].override \in Levels \union {None}
  BY DEF TypeInv, TypeOK, Contribution
<1>. QED BY <1>1, <1>2 DEF Overriding, Levels

\* The scan from the highest level down finds the one level that the average is mapped to.
LEMMA LevelIsMapped ==
    ASSUME NEW s \in Int, NEW t \in Int
    PROVE  LevelOf(s, t) = CHOOSE l \in Levels : IsMapped(l, s, t)
<1>. DEFINE reached == {l \in DOMAIN Thresholds :
                          IF t = 0 THEN Thresholds[l] = 0 ELSE s >= Thresholds[l] * t}
            R == reached \union {0}
            found == LevelOf(s, t)
<1>1. found = Max(R)
  BY DEF LevelOf
<1>2. DOMAIN Thresholds = {1, 2, 3} /\ \A l \in {1, 2, 3} : Thresholds[l] \in Nat
  BY EngineAssumption DEF Levels
<1>3. R \subseteq {0, 1, 2, 3} /\ 0 \in R
  BY <1>2
<1>4. \A l \in {1, 2, 3} :
          l \in R <=> ~ (IF t = 0 THEN Thresholds[l] > 0 ELSE s < Thresholds[l] * t)
  BY <1>2
<1>. HIDE DEF R
<1>5. \E x \in R : \A y \in R : x >= y
  <2>1. CASE 3 \in R
    BY <1>3, <2>1
  <2>2. CASE 3 \notin R /\ 2 \in R
    BY <1>3, <2>2
  <2>3. CASE 3 \notin R /\ 2 \notin R /\ 1 \in R
    BY <1>3, <2>3
  <2>4. CASE 3 \notin R /\ 2 \notin R /\ 1 \notin R
    BY <1>3, <2>4
  <2>. QED BY <2>1, <2>2, <2>3, <2>4
<1>6. found \in R /\ \A y \in R : found >= y
  BY <1>1, <1>5 DEF Max
<1>. HIDE DEF found
<1>7. \A l \in Levels : IsMapped(l, s, t) <=>
          (l # 0 => l \in R) /\ \A m \in Levels : m > l => m \notin R
  BY <1>4 DEF IsMapped, Levels
<1>8. \A l \in Levels : IsMapped(l, s, t) <=> l = found
  BY <1>3, <1>6, <1>7 DEF Levels
<1>9. found \in Levels
  BY <1>3, <1>6 DEF Levels
<1>. QED BY <1>8, <1>9 DEF found

LEMMA DocHolds == DocInv => AssessedAsDocumented
<1>. SUFFICES ASSUME DocInv, pc = "done", edits = << >> PROVE level = Documented(raised)
  BY DEF AssessedAsDocumented
<1>. DEFINE n == Len(signals)
            over == Overriding(n)
            counted == Counted(n)
            weighed == [s \in counted |-> opinion[s].suspicion * Weight[s]]
            average == CHOOSE l \in Levels :
                IsMapped(l, SumFunction(weighed), SumFunctionOnSet(Weight, counted))
            levels == {opinion[signals[i]].override : i \in over}
<1>1. signals \in Seq(Signals) /\ index \in Nat /\ n \in Nat
      /\ \A i \in DOMAIN signals : i \in Nat /\ i <= n
  BY DEF DocInv, TypeInv, TypeOK
<1>2. Heard(n) = {i \in DOMAIN signals : signals[i] \in enabled \ raised}
  BY <1>1 DEF Heard
<1>3. Documented(raised)
        = IF over = {} THEN average
          ELSE IF shortCircuit THEN opinion[signals[Min(over)]].override
          ELSE Max(levels)
  BY <1>2 DEF Documented, Overriding, Counted
<1>4. /\ level = IF best # None THEN best ELSE LevelOf(sum, total)
      /\ shortCircuit /\ best # None => CutShort
      /\ ~ (shortCircuit /\ best # None) => Tallied(n)
  <2>1. Done = index
    BY DEF Done
  <2>. QED BY <2>1 DEF DocInv, TallyInv
<1>5. \A i \in over : i \in Nat /\ opinion[signals[i]].override \in Int
  BY OverridesAre DEF DocInv
<1>6. CASE shortCircuit /\ best # None
  <2>1. /\ index \in Overriding(index) /\ Overriding(index - 1) = {}
        /\ best = opinion[signals[index]].override
    BY <1>4, <1>6 DEF CutShort
  <2>2. index \in over
    BY <1>1, <2>1 DEF Overriding, Heard
  <2>3. \A i \in over : index <= i
    <3>. SUFFICES ASSUME NEW i \in over, ~ (index <= i) PROVE FALSE
      OBVIOUS
    <3>1. i <= index - 1
      BY <1>1, <1>5
    <3>2. i \in Overriding(index - 1)
      BY <3>1 DEF Overriding, Heard
    <3>. QED BY <2>1, <3>2
  <2>. HIDE DEF over
  <2>4. Min(over) = index
    BY <1>1, <1>5, <2>2, <2>3 DEF Min
  <2>. QED BY <1>3, <1>4, <1>6, <2>1, <2>2, <2>4
<1>7. CASE ~ (shortCircuit /\ best # None)
  <2>1. /\ over = {} => best = None
        /\ over # {} =>
             /\ best # None /\ \E i \in over : best = opinion[signals[i]].override
             /\ \A i \in over : best >= opinion[signals[i]].override
        /\ sum = SumFunctionOnSet(Weighed(n), counted)
        /\ total = SumFunctionOnSet(Weight, counted)
    BY <1>4, <1>7 DEF Tallied
  <2>2. CASE over = {}
    <3>1. SumFunction(weighed) = sum
      BY <2>1 DEF SumFunction, Weighed
    <3>2. sum \in Int /\ total \in Int
      BY DEF DocInv, TypeInv, TypeOK
    <3>3. average = LevelOf(sum, total)
      BY <2>1, <3>1, <3>2, LevelIsMapped
    <3>. QED BY <1>3, <1>4, <2>1, <2>2, <3>3
  <2>3. CASE over # {}
    <3>1. ~ shortCircuit /\ best # None
      BY <1>7, <2>1, <2>3
    <3>2. best \in levels /\ \A l \in levels : best >= l /\ l \in Int
      BY <1>5, <2>1, <2>3
    <3>. HIDE DEF levels
    <3>3. Max(levels) = best
      BY <3>2 DEF Max
    <3>. QED BY <1>3, <1>4, <2>3, <3>1, <3>3
  <2>. QED BY <2>2, <2>3
<1>. QED BY <1>6, <1>7

\* The docstring of RiskEngine: an assessment during which nobody edits the engine ends
\* with the first override or the highest, else with the level that the weighted average of
\* the signals that spoke up reaches. For any list of signals, weights, thresholds and
\* answers, whoever of them raises, and with composite signals in the list.
THEOREM AssessesAsDocumented == Spec => []AssessedAsDocumented
  BY DocInit, DocNext, DocHolds, PTL DEF Spec

-----------------------------------------------------------------------------
(* Where two sentences of the docstrings are true *)

\* Who was asked and answered with an override has had it counted.
OverridesCount ==
    /\ pc = "idle" => asked = << >>
    /\ \A s \in ToSet(asked) \ raised : opinion[s].override # None => best # None

WinInv == TypeInv /\ WalkInv /\ OverridesCount

LEMMA CountNext == ASSUME TypeInv, OverridesCount, [Next]_vars PROVE OverridesCount'
<1>1. CASE Begin
  <2>1. asked' = << >> /\ pc' = "next"
    BY <1>1 DEF Begin, OverridesCount
  <2>. QED BY <2>1 DEF OverridesCount, ToSet
<1>2. ASSUME NEW raises \in BOOLEAN, Answer(raises) PROVE OverridesCount'
  <2>. DEFINE c == IF raises THEN Abstains ELSE opinion[current]
              higher == c.override # None /\ (best # None => c.override > best)
  <2>1. /\ pc = "await" /\ pc' \in {"next", "conclude"}
        /\ asked' = Append(asked, current) /\ opinion' = opinion
        /\ raised' = IF raises THEN raised \union {current} ELSE raised
        /\ best' = IF higher THEN c.override ELSE best
    BY <1>2 DEF Answer
  <2>2. ToSet(asked') = ToSet(asked) \union {current}
    BY <2>1, ToSetAppend DEF TypeInv, TypeOK
  <2>3. best # None => best' # None
    BY <2>1
  <2>4. ~ raises /\ opinion[current].override # None => best' # None
    BY <2>1
  <2>5. \A s \in ToSet(asked') \ raised' : opinion'[s].override # None => best' # None
    <3>. SUFFICES ASSUME NEW s \in ToSet(asked') \ raised', opinion[s].override # None
                  PROVE  best' # None
      BY <2>1
    <3>1. CASE s \in ToSet(asked)
      BY <2>1, <2>3, <3>1 DEF OverridesCount
    <3>2. CASE s = current
      BY <2>1, <2>4, <3>2
    <3>. QED BY <2>2, <3>1, <3>2
  <2>. QED BY <2>1, <2>5 DEF OverridesCount
<1>3. CASE UNCHANGED <<asked, raised, opinion, best>> /\ (pc' = "idle" => pc = "idle")
  BY <1>3 DEF OverridesCount
<1>4. CASE Advance \/ Exhausted \/ Conclude
  BY <1>3, <1>4 DEF Advance, Exhausted, Conclude, localVars, ghostVars
<1>5. ASSUME NEW s, NEW b, AddSignal(s, b) \/ RemoveSignal(s) \/ Toggle(s) PROVE OverridesCount'
  BY <1>3, <1>5 DEF AddSignal, RemoveSignal, Toggle, localVars
<1>6. CASE UNCHANGED vars
  BY <1>3, <1>6 DEF vars, localVars, ghostVars
<1>. QED BY <1>1, <1>2, <1>4, <1>5, <1>6 DEF Next

LEMMA WinHolds == WinInv => OverrideWins \/ Removed
<1>. SUFFICES ASSUME WinInv, ~ Removed, pc = "done", NEW s \in Overrides(steady) \ raised
              PROVE  best # None
  BY DEF OverrideWins
<1>1. NobodySkipped
  BY WalkFair DEF WinInv, WalkIsFair
<1>2. s \in steady /\ opinion[s].override # None
  BY DEF Overrides
<1>3. s \in ToSet(asked) \/ best # None
  BY <1>1, <1>2 DEF NobodySkipped, Removed
<1>. QED BY <1>2, <1>3 DEF WinInv, OverridesCount

\* RiskEngine's docstring, "any hard_override wins", is true of every assessment during
\* which no signal is removed, whatever is added, inserted or toggled meanwhile; with a
\* removal it is not.
THEOREM OverridesWinUnlessRemoved == Spec => [](OverrideWins \/ Edited("remove"))
<1>1. Init => WinInv
  <2>. SUFFICES ASSUME Init PROVE OverridesCount
    BY TypeInit, WalkInit DEF WinInv
  <2>. QED BY DEF Init, OverridesCount, ToSet
<1>2. WinInv /\ [Next]_vars => WinInv'
  BY TypeNext, WalkNext, CountNext DEF WinInv
<1>3. WinInv => OverrideWins \/ Edited("remove")
  BY WinHolds DEF Removed
<1>. QED BY <1>1, <1>2, <1>3, PTL DEF Spec

\* CorroboratedRiskSignal's docstring, "the fraction is always strictly below required /
\* active <= 1.0", is true while min_agreements asks for no more children than are
\* enabled, and so with the default, where it asks for all of them; otherwise it is not.
THEOREM SharesStayBelowAgreement ==
    Spec => [](\/ ShareStaysBelowAgreement
               \/ MinAgreements # None /\ MinAgreements > Cardinality(awake))
<1>1. TypeInv /\ VoiceInv =>
        \/ ShareStaysBelowAgreement
        \/ MinAgreements # None /\ MinAgreements > Cardinality(awake)
  <2>. SUFFICES ASSUME TypeInv, VoiceInv, pc = "done", OnlyCorroborated,
                       opinion[Corroborating].override = None,
                       MinAgreements = None \/ ~ (MinAgreements > Cardinality(awake))
                PROVE  opinion[Corroborating].suspicion # Unit
    BY DEF ShareStaysBelowAgreement
  <2>1. Corroborating \in Signals
    BY DEF TypeInv, TypeOK, OnlyCorroborated, Registered, ToSet
  <2>2. opinion[Corroborating] = Corroborated(said, awake) /\ awake \in SUBSET Children
    BY <2>1 DEF VoiceInv, Settled
  <2>3. Cardinality(awake) \in Nat
    BY <2>2, EngineAssumption, FS_Subset, FS_CardinalityType
  <2>4. MinAgreements = None \/ MinAgreements <= Cardinality(awake)
    BY <2>3, EngineAssumption
  <2>. QED BY <2>2, <2>4, CorroborationType
<1>2. Init => TypeInv /\ VoiceInv
  BY TypeInit, VoiceInit
<1>3. TypeInv /\ VoiceInv /\ [Next]_vars => (TypeInv /\ VoiceInv)'
  BY TypeNext, VoiceNext
<1>. QED BY <1>1, <1>2, <1>3, PTL DEF Spec
=============================================================================
