------------------------ MODULE PendingChallengeProofs ------------------------
(***************************************************************************)
(* Proofs about PendingChallenge, for any challenges, any finite set of    *)
(* overlapping guesses and any bounds.  The attempts column of a live row  *)
(* is the number of guesses whose UPDATE found it, which bounds those the  *)
(* read-back lets through.                                                 *)
(***************************************************************************)
EXTENDS PendingChallenge, FiniteSetTheorems, TLAPS

\* Nothing is remembered of a guess before it is made, and only a finished one
\* has a verdict.
Orderly ==
    \A g \in Guesses :
        /\ pc[g] = "idle" => guess[g] = NoGuess
        /\ verdict[g] # "none" => pc[g] = "done"
        /\ g \in counted => pc[g] \in {"readback", "exhaust", "consume", "done"}
        /\ g \in judged => pc[g] \in {"consume", "done"}

\* Guesses are made at issued challenges; a challenge nobody issued has no row.
Issued ==
    /\ \A g \in Guesses : pc[g] # "idle" => expires[Of(g)] # 0
    /\ \A c \in Challenges : expires[c] = 0 => c \notin present /\ attempts[c] = 0

\* A guess that found no row knows that the challenge is gone for good, and one
\* whose row is still there when it reads back has been counted in it.
Witnessed ==
    \A g \in Guesses :
        /\ pc[g] = "expiry" /\ pending[g] = None => Of(g) \notin present
        /\ pc[g] = "readback" /\ Of(g) \in present => g \in counted

\* A late guess gets no further than the look-up.
LateStopsEarly ==
    \A g \in Guesses : guess[g].late =>
        /\ Of(g) \notin present
        /\ pc[g] \in {"get", "expiry", "done"}
        /\ pc[g] = "expiry" => pending[g] = None
        /\ g \notin judged
        /\ verdict[g] # "pass"

\* What a guess has shown by the time it is counted, judged and answered.
Earned ==
    \A g \in Guesses :
        /\ pc[g] # "idle" => guess[g].at <= now
        /\ pc[g] \in {"update", "readback", "exhaust", "consume"} =>
             guess[g].at <= expires[Of(g)]
        /\ pc[g] = "consume" => guess[g].right
        /\ verdict[g] = "pass" =>
             guess[g].right /\ guess[g].at <= expires[Of(g)] /\ Of(g) \notin present

\* The column counts.
Live(c) == {g \in JudgedOn(c) : count[g] # 0}
ColumnCounts ==
    \A c \in Challenges :
        c \in present \/ expires[c] = 0 => attempts[c] = Cardinality(CountedOn(c))

\* A row goes only for a cause, which whoever deletes it knows; and so does whoever is
\* refused.
Caused ==
    /\ \A c \in Challenges : expires[c] # 0 /\ c \notin present => Spent(c)
    /\ \A g \in Guesses :
          /\ pc[g] \in {"expire", "exhaust"} => Spent(Of(g))
          /\ pc[g] = "consume" => g \in judged
    /\ RightAnswerRefusedOnlyWhenSpent

\* The guesses judged on a row that was there are counted in it, and few.
LiveAreFew ==
    \A c \in Challenges :
        /\ Live(c) \subseteq counted
        /\ Cardinality(Live(c)) <= MaxAttempts

IInv ==
    /\ TypeOK
    /\ Orderly
    /\ Issued
    /\ Witnessed
    /\ LateStopsEarly
    /\ Earned
    /\ ColumnCounts
    /\ LiveAreFew
    /\ Caused

-----------------------------------------------------------------------------
LEMMA OfType ==
    ASSUME TypeOK, NEW g \in Guesses, pc[g] # "idle"
    PROVE  Of(g) \in Challenges
  BY DEF TypeOK, GuessType, Of

LEMMA AtType ==
    ASSUME TypeOK, NEW g \in Guesses
    PROVE  guess[g].at \in Nat /\ now \in Nat /\ expires \in [Challenges -> Nat]
  BY DEF TypeOK, GuessType, NoGuess

\* Every variable keeps its type.
LEMMA TypeStep ==
    ASSUME TypeOK, Next
    PROVE  TypeOK'
<1>1. ASSUME NEW c \in Challenges, Issue(c)
      PROVE  TypeOK'
  BY <1>1, OfType, ChallengeAssumption DEF Issue, guessVars, TypeOK, PCs, Verdicts
<1>2. ASSUME NEW g \in Guesses, NEW c \in Challenges, NEW right \in BOOLEAN, Submit(g, c, right)
      PROVE  TypeOK'
  BY <1>2 DEF Submit, storeVars, TypeOK, GuessType, PCs, Verdicts
<1>3. ASSUME NEW g \in Guesses, Get(g)
      PROVE  TypeOK'
  BY <1>3, OfType, ChallengeAssumption DEF Get, storeVars, Goto, TypeOK, PCs,
     Verdicts
<1>4. ASSUME NEW g \in Guesses, CheckExpiry(g)
      PROVE  TypeOK'
  BY <1>4, OfType, ChallengeAssumption DEF CheckExpiry, storeVars, Goto, Finish,
     TypeOK, PCs, Verdicts
<1>5. ASSUME NEW g \in Guesses, Update(g)
      PROVE  TypeOK'
  BY <1>5, OfType, ChallengeAssumption DEF Update, Goto, TypeOK, PCs, Verdicts
<1>6. ASSUME NEW g \in Guesses, ReadBack(g)
      PROVE  TypeOK'
  BY <1>6, OfType, ChallengeAssumption DEF ReadBack, storeVars, Goto, Finish,
     TypeOK, PCs, Verdicts
<1>7. ASSUME NEW g \in Guesses, Delete(g)
      PROVE  TypeOK'
  BY <1>7, OfType, ChallengeAssumption DEF Delete, Goto, Finish, TypeOK, PCs,
     Verdicts
<1>8. ASSUME NEW g \in Guesses, Fault(g)
      PROVE  TypeOK'
  BY <1>8, OfType, ChallengeAssumption DEF Fault, storeVars, Goto, Finish, TypeOK,
     PCs, Verdicts
<1>9. ASSUME PurgeExpired
      PROVE  TypeOK'
  BY <1>9, OfType, ChallengeAssumption DEF PurgeExpired, guessVars, TypeOK, PCs,
     Verdicts
<1>10. ASSUME Tick
      PROVE  TypeOK'
  BY <1>10, OfType, ChallengeAssumption DEF Tick, storeVars, guessVars, TypeOK, PCs,
     Verdicts
<1>. QED BY <1>1, <1>2, <1>3, <1>4, <1>5, <1>6, <1>7, <1>8, <1>9, <1>10 DEF Next,
     Run

\* Nothing comes before the guess.
LEMMA OrderlyStep ==
    ASSUME TypeOK, Orderly, Next
    PROVE  Orderly'
<1>1. ASSUME NEW c \in Challenges, Issue(c)
      PROVE  Orderly'
  BY <1>1 DEF Issue, guessVars, TypeOK, Orderly
<1>2. ASSUME NEW g \in Guesses, NEW c \in Challenges, NEW right \in BOOLEAN, Submit(g, c, right)
      PROVE  Orderly'
  BY <1>2 DEF Submit, storeVars, TypeOK, Orderly
<1>3. ASSUME NEW g \in Guesses, Get(g)
      PROVE  Orderly'
  BY <1>3 DEF Get, storeVars, Goto, TypeOK, Orderly
<1>4. ASSUME NEW g \in Guesses, CheckExpiry(g)
      PROVE  Orderly'
  BY <1>4 DEF CheckExpiry, storeVars, Goto, Finish, TypeOK, Orderly
<1>5. ASSUME NEW g \in Guesses, Update(g)
      PROVE  Orderly'
  BY <1>5 DEF Update, Goto, TypeOK, Orderly
<1>6. ASSUME NEW g \in Guesses, ReadBack(g)
      PROVE  Orderly'
  BY <1>6 DEF ReadBack, storeVars, Goto, Finish, TypeOK, Orderly
<1>7. ASSUME NEW g \in Guesses, Delete(g)
      PROVE  Orderly'
  BY <1>7 DEF Delete, Goto, Finish, TypeOK, Orderly
<1>8. ASSUME NEW g \in Guesses, Fault(g)
      PROVE  Orderly'
  BY <1>8 DEF Fault, storeVars, Goto, Finish, TypeOK, Orderly
<1>9. ASSUME PurgeExpired
      PROVE  Orderly'
  BY <1>9 DEF PurgeExpired, guessVars, TypeOK, Orderly
<1>10. ASSUME Tick
      PROVE  Orderly'
  BY <1>10 DEF Tick, storeVars, guessVars, TypeOK, Orderly
<1>. QED BY <1>1, <1>2, <1>3, <1>4, <1>5, <1>6, <1>7, <1>8, <1>9, <1>10 DEF Next,
     Run

\* Guesses are made at issued challenges.
LEMMA IssuedStep ==
    ASSUME TypeOK, Orderly, Issued, Next
    PROVE  Issued'
<1>1. ASSUME NEW c \in Challenges, Issue(c)
      PROVE  Issued'
  BY <1>1, OfType, ChallengeAssumption DEF Issue, guessVars, TypeOK, Issued, Of
<1>2. ASSUME NEW g \in Guesses, NEW c \in Challenges, NEW right \in BOOLEAN, Submit(g, c, right)
      PROVE  Issued'
  BY <1>2, OfType, ChallengeAssumption DEF Submit, storeVars, TypeOK, Issued, Of
<1>3. ASSUME NEW g \in Guesses, Get(g)
      PROVE  Issued'
  BY <1>3, OfType, ChallengeAssumption DEF Get, storeVars, Goto, TypeOK, Issued, Of
<1>4. ASSUME NEW g \in Guesses, CheckExpiry(g)
      PROVE  Issued'
  BY <1>4, OfType, ChallengeAssumption DEF CheckExpiry, storeVars, Goto, Finish,
     TypeOK, Issued, Of
<1>5. ASSUME NEW g \in Guesses, Update(g)
      PROVE  Issued'
  BY <1>5, OfType, ChallengeAssumption DEF Update, Goto, TypeOK, Issued, Of
<1>6. ASSUME NEW g \in Guesses, ReadBack(g)
      PROVE  Issued'
  BY <1>6, OfType, ChallengeAssumption DEF ReadBack, storeVars, Goto, Finish,
     TypeOK, Issued, Of
<1>7. ASSUME NEW g \in Guesses, Delete(g)
      PROVE  Issued'
  BY <1>7, OfType, ChallengeAssumption DEF Delete, Goto, Finish, TypeOK, Issued, Of
<1>8. ASSUME NEW g \in Guesses, Fault(g)
      PROVE  Issued'
  BY <1>8, OfType, ChallengeAssumption DEF Fault, storeVars, Goto, Finish, TypeOK,
     Issued, Of
<1>9. ASSUME PurgeExpired
      PROVE  Issued'
  BY <1>9, OfType, ChallengeAssumption DEF PurgeExpired, guessVars, TypeOK, Issued,
     Of
<1>10. ASSUME Tick
      PROVE  Issued'
  BY <1>10, OfType, ChallengeAssumption DEF Tick, storeVars, guessVars, TypeOK,
     Issued, Of
<1>. QED BY <1>1, <1>2, <1>3, <1>4, <1>5, <1>6, <1>7, <1>8, <1>9, <1>10 DEF Next,
     Run

\* A row that is gone stays gone.
LEMMA WitnessedStep ==
    ASSUME TypeOK, Orderly, Issued, Witnessed, Next
    PROVE  Witnessed'
<1>1. ASSUME NEW c \in Challenges, Issue(c)
      PROVE  Witnessed'
  BY <1>1, ChallengeAssumption DEF Issue, guessVars, TypeOK, Orderly, Issued,
     Witnessed, Of
<1>2. ASSUME NEW g \in Guesses, NEW c \in Challenges, NEW right \in BOOLEAN, Submit(g, c, right)
      PROVE  Witnessed'
  BY <1>2, ChallengeAssumption DEF Submit, storeVars, TypeOK, Orderly, Issued,
     Witnessed, Of
<1>3. ASSUME NEW g \in Guesses, Get(g)
      PROVE  Witnessed'
  BY <1>3, ChallengeAssumption DEF Get, storeVars, Goto, TypeOK, Orderly, Issued,
     Witnessed, Of
<1>4. ASSUME NEW g \in Guesses, CheckExpiry(g)
      PROVE  Witnessed'
  BY <1>4, ChallengeAssumption DEF CheckExpiry, storeVars, Goto, Finish, TypeOK,
     Orderly, Issued, Witnessed, Of
<1>5. ASSUME NEW g \in Guesses, Update(g)
      PROVE  Witnessed'
  BY <1>5, ChallengeAssumption DEF Update, Goto, TypeOK, Orderly, Issued, Witnessed,
     Of
<1>6. ASSUME NEW g \in Guesses, ReadBack(g)
      PROVE  Witnessed'
  BY <1>6, ChallengeAssumption DEF ReadBack, storeVars, Goto, Finish, TypeOK,
     Orderly, Issued, Witnessed, Of
<1>7. ASSUME NEW g \in Guesses, Delete(g)
      PROVE  Witnessed'
  BY <1>7, ChallengeAssumption DEF Delete, Goto, Finish, TypeOK, Orderly, Issued,
     Witnessed, Of
<1>8. ASSUME NEW g \in Guesses, Fault(g)
      PROVE  Witnessed'
  BY <1>8, ChallengeAssumption DEF Fault, storeVars, Goto, Finish, TypeOK, Orderly,
     Issued, Witnessed, Of
<1>9. ASSUME PurgeExpired
      PROVE  Witnessed'
  BY <1>9, ChallengeAssumption DEF PurgeExpired, guessVars, TypeOK, Orderly, Issued,
     Witnessed, Of
<1>10. ASSUME Tick
      PROVE  Witnessed'
  BY <1>10, ChallengeAssumption DEF Tick, storeVars, guessVars, TypeOK, Orderly,
     Issued, Witnessed, Of
<1>. QED BY <1>1, <1>2, <1>3, <1>4, <1>5, <1>6, <1>7, <1>8, <1>9, <1>10 DEF Next,
     Run

\* A late guess stops at the look-up.
LEMMA LateStep ==
    ASSUME TypeOK, Orderly, Issued, Witnessed, LateStopsEarly, Next
    PROVE  LateStopsEarly'
<1>1. ASSUME NEW c \in Challenges, Issue(c)
      PROVE  LateStopsEarly'
  BY <1>1 DEF Issue, guessVars, TypeOK, Orderly, Issued, LateStopsEarly, Of, NoGuess
<1>2. ASSUME NEW g \in Guesses, NEW c \in Challenges, NEW right \in BOOLEAN, Submit(g, c, right)
      PROVE  LateStopsEarly'
  BY <1>2 DEF Submit, storeVars, TypeOK, Orderly, Issued, LateStopsEarly, Of,
     NoGuess
<1>3. ASSUME NEW g \in Guesses, Get(g)
      PROVE  LateStopsEarly'
  BY <1>3 DEF Get, storeVars, Goto, TypeOK, Orderly, Issued, LateStopsEarly, Of,
     NoGuess
<1>4. ASSUME NEW g \in Guesses, CheckExpiry(g)
      PROVE  LateStopsEarly'
  BY <1>4 DEF CheckExpiry, storeVars, Goto, Finish, TypeOK, Orderly, Issued,
     LateStopsEarly, Of, NoGuess
<1>5. ASSUME NEW g \in Guesses, Update(g)
      PROVE  LateStopsEarly'
  BY <1>5 DEF Update, Goto, TypeOK, Orderly, Issued, LateStopsEarly, Of, NoGuess
<1>6. ASSUME NEW g \in Guesses, ReadBack(g)
      PROVE  LateStopsEarly'
  BY <1>6 DEF ReadBack, storeVars, Goto, Finish, TypeOK, Orderly, Issued,
     LateStopsEarly, Of, NoGuess
<1>7. ASSUME NEW g \in Guesses, Delete(g)
      PROVE  LateStopsEarly'
  BY <1>7 DEF Delete, Goto, Finish, TypeOK, Orderly, Issued, LateStopsEarly, Of,
     NoGuess
<1>8. ASSUME NEW g \in Guesses, Fault(g)
      PROVE  LateStopsEarly'
  BY <1>8 DEF Fault, storeVars, Goto, Finish, TypeOK, Orderly, Issued,
     LateStopsEarly, Of, NoGuess
<1>9. ASSUME PurgeExpired
      PROVE  LateStopsEarly'
  BY <1>9 DEF PurgeExpired, guessVars, TypeOK, Orderly, Issued, LateStopsEarly, Of,
     NoGuess
<1>10. ASSUME Tick
      PROVE  LateStopsEarly'
  BY <1>10 DEF Tick, storeVars, guessVars, TypeOK, Orderly, Issued, LateStopsEarly,
     Of, NoGuess
<1>. QED BY <1>1, <1>2, <1>3, <1>4, <1>5, <1>6, <1>7, <1>8, <1>9, <1>10 DEF Next,
     Run

\* A verdict is earned.
LEMMA EarnedStep ==
    ASSUME TypeOK, Orderly, Issued, Witnessed, Earned, Next
    PROVE  Earned'
<1>1. ASSUME NEW c \in Challenges, Issue(c)
      PROVE  Earned'
  BY <1>1, OfType, ChallengeAssumption DEF Issue, guessVars, TypeOK, Orderly,
     Issued, Witnessed, Earned, Of
<1>2. ASSUME NEW g \in Guesses, NEW c \in Challenges, NEW right \in BOOLEAN, Submit(g, c, right)
      PROVE  Earned'
  BY <1>2, OfType, ChallengeAssumption DEF Submit, storeVars, TypeOK, Orderly,
     Issued, Witnessed, Earned, Of
<1>3. ASSUME NEW g \in Guesses, Get(g)
      PROVE  Earned'
  BY <1>3, OfType, ChallengeAssumption DEF Get, storeVars, Goto, TypeOK, Orderly,
     Issued, Witnessed, Earned, Of
<1>4. ASSUME NEW g \in Guesses, CheckExpiry(g)
      PROVE  Earned'
  BY <1>4, OfType, AtType DEF CheckExpiry, storeVars, Goto, Finish, TypeOK, Orderly,
     Witnessed, Earned, Of
<1>5. ASSUME NEW g \in Guesses, Update(g)
      PROVE  Earned'
  BY <1>5, OfType, ChallengeAssumption DEF Update, Goto, TypeOK, Orderly, Issued,
     Witnessed, Earned, Of
<1>6. ASSUME NEW g \in Guesses, ReadBack(g)
      PROVE  Earned'
  BY <1>6, OfType, ChallengeAssumption DEF ReadBack, storeVars, Goto, Finish,
     TypeOK, Orderly, Issued, Witnessed, Earned, Of
<1>7. ASSUME NEW g \in Guesses, Delete(g)
      PROVE  Earned'
  BY <1>7, OfType, ChallengeAssumption DEF Delete, Goto, Finish, TypeOK, Orderly,
     Issued, Witnessed, Earned, Of
<1>8. ASSUME NEW g \in Guesses, Fault(g)
      PROVE  Earned'
  BY <1>8, OfType, ChallengeAssumption DEF Fault, storeVars, Goto, Finish, TypeOK,
     Orderly, Issued, Witnessed, Earned, Of
<1>9. ASSUME PurgeExpired
      PROVE  Earned'
  BY <1>9, OfType, ChallengeAssumption DEF PurgeExpired, guessVars, TypeOK, Orderly,
     Issued, Witnessed, Earned, Of
<1>10. ASSUME Tick
      PROVE  Earned'
  BY <1>10, AtType DEF Tick, storeVars, guessVars, Earned, Of
<1>. QED BY <1>1, <1>2, <1>3, <1>4, <1>5, <1>6, <1>7, <1>8, <1>9, <1>10 DEF Next,
     Run

\* The column of a live row is the number of guesses counted in it.
LEMMA ColumnStep ==
    ASSUME TypeOK, Orderly, Issued, ColumnCounts, Next
    PROVE  ColumnCounts'
<1>1. \A c \in Challenges : expires[c] = 0 => CountedOn(c) = {} /\ attempts[c] = 0
  BY DEF Issued, Orderly, CountedOn, TypeOK
<1>2. ASSUME NEW c \in Challenges, Issue(c)
      PROVE  ColumnCounts'
  <2>1. \A d \in Challenges : CountedOn(d)' = CountedOn(d)
    BY <1>2 DEF Issue, guessVars, CountedOn, Of
  <2>2. \A d \in Challenges : expires'[d] = 0 => expires[d] = 0
    BY <1>2, AtType, ChallengeAssumption DEF Issue, TypeOK
  <2>. QED
    BY <1>2, <2>1, <2>2 DEF Issue, ColumnCounts
<1>3. ASSUME NEW g \in Guesses, NEW c \in Challenges, NEW right \in BOOLEAN,
             Submit(g, c, right)
      PROVE  ColumnCounts'
  <2>1. \A d \in Challenges : CountedOn(d)' = CountedOn(d)
    BY <1>3 DEF Submit, CountedOn, Of, Orderly, TypeOK
  <2>. QED
    BY <1>3, <2>1 DEF Submit, storeVars, ColumnCounts
<1>4. ASSUME NEW g \in Guesses, Update(g)
      PROVE  ColumnCounts'
  <2>1. Of(g) \in Challenges /\ g \notin counted /\ pc[g] = "update"
    BY <1>4, OfType DEF Update, Orderly
  <2>2. CASE Of(g) \notin present
    <3>1. \A d \in Challenges : CountedOn(d)' = CountedOn(d)
      BY <1>4, <2>2 DEF Update, CountedOn, Of
    <3>. QED
      BY <1>4, <2>2, <3>1 DEF Update, ColumnCounts
  <2>3. CASE Of(g) \in present
    <3>1. CountedOn(Of(g))' = CountedOn(Of(g)) \union {g}
      BY <1>4, <2>3 DEF Update, CountedOn, Of
    <3>2. \A d \in Challenges : d # Of(g) => CountedOn(d)' = CountedOn(d)
      BY <1>4, <2>3 DEF Update, CountedOn, Of
    <3>3. IsFiniteSet(CountedOn(Of(g)))
      BY FS_Subset, ChallengeAssumption DEF CountedOn, TypeOK
    <3>4. Cardinality(CountedOn(Of(g)) \union {g}) = Cardinality(CountedOn(Of(g))) + 1
      BY <2>1, <3>3, FS_AddElement DEF CountedOn
    <3>5. attempts' = [attempts EXCEPT ![Of(g)] = @ + 1]
      BY <1>4, <2>3 DEF Update
    <3>6. attempts[Of(g)] = Cardinality(CountedOn(Of(g)))
      BY <2>1, <2>3 DEF ColumnCounts
    <3>7. attempts'[Of(g)] = Cardinality(CountedOn(Of(g))')
      BY <2>1, <3>1, <3>4, <3>5, <3>6 DEF TypeOK
    <3>8. present' = present /\ expires' = expires
      BY <1>4 DEF Update
    <3>9. \A d \in Challenges : d # Of(g) => attempts'[d] = attempts[d]
      BY <3>5 DEF TypeOK
    <3>10. Of(g)' = Of(g)
      BY <1>4 DEF Update, Of
    <3>11. ASSUME NEW d \in Challenges, d \in present' \/ expires'[d] = 0
           PROVE  attempts'[d] = Cardinality(CountedOn(d))'
      <4>1. CASE d = Of(g)
        BY <3>7, <3>10, <4>1
      <4>2. CASE d # Of(g)
        BY <3>2, <3>8, <3>9, <3>11, <4>2 DEF ColumnCounts
      <4>. QED
        BY <4>1, <4>2
    <3>. QED
      BY <3>11 DEF ColumnCounts
  <2>. QED
    BY <2>2, <2>3
<1>5. ASSUME NEW g \in Guesses, Get(g) \/ CheckExpiry(g) \/ ReadBack(g) \/ Fault(g)
      PROVE  ColumnCounts'
  BY <1>5 DEF Get, CheckExpiry, ReadBack, Fault, storeVars, ColumnCounts, CountedOn, Of
<1>6. ASSUME NEW g \in Guesses, Delete(g)
      PROVE  ColumnCounts'
  BY <1>6 DEF Delete, ColumnCounts, CountedOn, Of
<1>7. ASSUME PurgeExpired \/ Tick
      PROVE  ColumnCounts'
  BY <1>7 DEF PurgeExpired, Tick, storeVars, guessVars, ColumnCounts, CountedOn, Of
<1>. QED
  BY <1>2, <1>3, <1>4, <1>5, <1>6, <1>7 DEF Next, Run

\* A read-back that lets a guess through on a row that is there finds all the
\* guesses judged on it counted in the column, the new one included.
LEMMA LiveStep ==
    ASSUME TypeOK, Orderly, Witnessed, ColumnCounts, LiveAreFew, Next
    PROVE  LiveAreFew'
<1>1. ASSUME NEW c \in Challenges
      PROVE  IsFiniteSet(CountedOn(c)) /\ IsFiniteSet(Live(c))
  BY FS_Subset, ChallengeAssumption DEF CountedOn, Live, JudgedOn, TypeOK
<1>2. ASSUME NEW g \in Guesses, ReadBack(g)
      PROVE  LiveAreFew'
  <2> DEFINE n == IF Of(g) \in present THEN attempts[Of(g)] ELSE 0
  <2>1. /\ Of(g) \in Challenges /\ g \notin judged /\ pc[g] = "readback"
        /\ guess' = guess /\ counted' = counted /\ n \in Nat
        /\ count' = [count EXCEPT ![g] = n]
        /\ judged' = IF Exceeded(n) THEN judged ELSE judged \union {g}
    BY <1>2, OfType DEF ReadBack, Orderly, TypeOK
  <2>2. \A h \in judged : h # g /\ count'[h] = count[h]
    BY <2>1 DEF TypeOK
  <2>3. CASE Exceeded(n) \/ n = 0
    <3>1. \A c \in Challenges : Live(c)' = Live(c)
      BY <2>1, <2>2, <2>3 DEF Live, JudgedOn, Of, TypeOK
    <3>. QED
      BY <2>1, <3>1 DEF LiveAreFew
  <2>4. CASE ~ Exceeded(n) /\ n # 0
    <3>1. \A c \in Challenges : Live(c)' = IF c = Of(g) THEN Live(c) \union {g} ELSE Live(c)
      BY <2>1, <2>2, <2>4 DEF Live, JudgedOn, Of, TypeOK
    <3>2. Of(g) \in present /\ g \in counted
      BY <2>1, <2>4 DEF Witnessed
    <3>3. Live(Of(g)) \union {g} \subseteq CountedOn(Of(g))
      BY <2>1, <3>2 DEF LiveAreFew, Live, JudgedOn, CountedOn, TypeOK
    <3>4. Cardinality(CountedOn(Of(g))) = n
      BY <2>1, <3>2 DEF ColumnCounts
    <3>5. Cardinality(Live(Of(g)) \union {g}) <= n
      BY <1>1, <2>1, <3>3, <3>4, FS_Subset
    <3>6. Cardinality(Live(Of(g)) \union {g}) \in Nat
      BY <1>1, <2>1, <3>3, FS_Subset, FS_CardinalityType
    <3>7. Cardinality(Live(Of(g)) \union {g}) <= MaxAttempts
      BY <2>1, <2>4, <3>5, <3>6, ChallengeAssumption DEF Exceeded
    <3>8. ASSUME NEW c \in Challenges
          PROVE  (Live(c) \subseteq counted /\ Cardinality(Live(c)) <= MaxAttempts)'
      <4>1. CASE c = Of(g)
        BY <2>1, <3>1, <3>3, <3>7, <4>1 DEF CountedOn
      <4>2. CASE c # Of(g)
        BY <2>1, <3>1, <4>2 DEF LiveAreFew
      <4>. QED
        BY <4>1, <4>2
    <3>. QED
      BY <3>8 DEF LiveAreFew
  <2>. QED
    BY <2>3, <2>4
<1>3. ASSUME NEW g \in Guesses, NEW c \in Challenges, NEW right \in BOOLEAN,
             Submit(g, c, right)
      PROVE  LiveAreFew'
  <2>1. \A d \in Challenges : Live(d)' = Live(d)
    BY <1>3 DEF Submit, Live, JudgedOn, Of, Orderly, TypeOK
  <2>. QED
    BY <1>3, <2>1 DEF Submit, LiveAreFew
<1>4. ASSUME counted \subseteq counted', judged' = judged, count' = count, guess' = guess
      PROVE  LiveAreFew'
  <2>1. \A d \in Challenges : Live(d)' = Live(d)
    BY <1>4 DEF Live, JudgedOn, Of
  <2>. QED
    BY <1>4, <2>1 DEF LiveAreFew
<1>5. ASSUME NEW g \in Guesses, Get(g) \/ CheckExpiry(g) \/ Update(g) \/ Delete(g) \/ Fault(g)
      PROVE  LiveAreFew'
  <2>1. counted \subseteq counted' /\ judged' = judged /\ count' = count /\ guess' = guess
    BY <1>5 DEF Get, CheckExpiry, Update, Delete, Fault
  <2>. QED
    BY <1>4, <2>1
<1>6. ASSUME (\E c \in Challenges : Issue(c)) \/ PurgeExpired \/ Tick
      PROVE  LiveAreFew'
  BY <1>4, <1>6 DEF Issue, PurgeExpired, Tick, guessVars
<1>. QED
  BY <1>2, <1>3, <1>5, <1>6 DEF Next, Run

\* What has happened to a challenge has happened.
LEMMA Grows ==
    ASSUME TypeOK, Orderly, Issued, Next, NEW c \in Challenges, expires[c] # 0
    PROVE  /\ expires'[c] = expires[c] /\ now <= now'
           /\ CountedOn(c) \subseteq CountedOn(c)'
           /\ \A g \in judged : g \in judged' /\ guess'[g] = guess[g]
<1>1. ASSUME NEW d \in Challenges, Issue(d)
      PROVE  /\ expires'[c] = expires[c] /\ now <= now'
             /\ UNCHANGED <<counted, judged, guess>>
  BY <1>1 DEF Issue, guessVars, TypeOK
<1>2. ASSUME NEW g \in Guesses, NEW d \in Challenges, NEW right \in BOOLEAN, Submit(g, d, right)
      PROVE  /\ expires' = expires /\ now <= now' /\ UNCHANGED <<counted, judged>>
             /\ \A h \in counted \union judged : guess'[h] = guess[h]
  BY <1>2 DEF Submit, storeVars, TypeOK, Orderly
<1>3. ASSUME NEW g \in Guesses, Run(g) \/ Fault(g)
      PROVE  /\ expires' = expires /\ now <= now' /\ guess' = guess
             /\ counted \subseteq counted' /\ judged \subseteq judged'
  BY <1>3 DEF Run, Get, CheckExpiry, Update, ReadBack, Delete, Fault, storeVars, TypeOK
<1>4. CASE PurgeExpired \/ Tick
  BY <1>4 DEF PurgeExpired, Tick, storeVars, guessVars, TypeOK, CountedOn, Of
<1>. QED
  BY <1>1, <1>2, <1>3, <1>4 DEF Next, CountedOn, Of, TypeOK

LEMMA SpentStays ==
    ASSUME TypeOK, Orderly, Issued, Next, NEW c \in Challenges, expires[c] # 0, Spent(c)
    PROVE  Spent(c)'
<1>1. /\ expires'[c] = expires[c] /\ now <= now'
      /\ CountedOn(c) \subseteq CountedOn(c)'
      /\ \A g \in judged : g \in judged' /\ guess'[g] = guess[g]
  BY Grows
<1>2. TypeOK'
  BY TypeStep
<1>3. CASE expires[c] <= now
  BY <1>1, <1>2, <1>3 DEF TypeOK, Spent
<1>4. CASE Cardinality(CountedOn(c)) > MaxAttempts
  <2>1. IsFiniteSet(CountedOn(c)')
    BY <1>2, FS_Subset, ChallengeAssumption DEF CountedOn, TypeOK
  <2>2. IsFiniteSet(CountedOn(c)) /\ Cardinality(CountedOn(c)) <= Cardinality(CountedOn(c)')
    BY <1>1, <2>1, FS_Subset
  <2>3. Cardinality(CountedOn(c)) \in Nat /\ Cardinality(CountedOn(c)') \in Nat
    BY <2>1, <2>2, FS_CardinalityType
  <2>4. Cardinality(CountedOn(c)') > MaxAttempts
    BY <1>4, <2>2, <2>3, ChallengeAssumption
  <2>. QED BY <2>4 DEF Spent
<1>5. CASE \E g \in JudgedOn(c) : guess[g].right
  BY <1>1, <1>5 DEF JudgedOn, Of, Spent
<1>. QED BY <1>3, <1>4, <1>5 DEF Spent

\* Whoever loses a row, or is refused, has a cause.
LEMMA CausedStep ==
    ASSUME TypeOK, Orderly, Issued, Witnessed, Earned, ColumnCounts, Caused, Next
    PROVE  Caused'
<1>0. TypeOK'
  BY TypeStep
<1>1. \A c \in Challenges : expires[c] # 0 /\ Spent(c) => expires'[c] # 0 /\ Spent(c)'
  BY SpentStays, Grows
\* A step that deletes nothing, and refuses nobody.
<1>2. ASSUME guess' = guess, judged \subseteq judged',
             \A c \in Challenges : expires'[c] # 0 /\ c \notin present' =>
                 expires[c] # 0 /\ (c \notin present \/ Spent(c)),
             \A g \in Guesses :
                 /\ pc'[g] # "idle" => pc[g] # "idle"
                 /\ pc'[g] \in {"expire", "exhaust"} => Spent(Of(g))
                 /\ pc'[g] = "consume" => g \in judged'
                 /\ verdict'[g] # "none" => pc[g] # "idle"
                 /\ verdict'[g] = "fail" /\ guess[g].right =>
                        g \notin judged' /\ (verdict[g] = "fail" \/ Spent(Of(g)))
      PROVE  Caused'
  <2>1. \A g \in Guesses : pc[g] # "idle" => Of(g) \in Challenges /\ expires[Of(g)] # 0
    BY OfType DEF Issued
  <2>2. \A g \in Guesses : Of(g)' = Of(g)
    BY <1>2 DEF Of
  <2>3. \A c \in Challenges : expires'[c] # 0 /\ c \notin present' => Spent(c)'
    BY <1>1, <1>2 DEF Caused
  <2>4. \A g \in Guesses : pc'[g] \in {"expire", "exhaust"} => Spent(Of(g))'
    <3>. SUFFICES ASSUME NEW g \in Guesses, pc'[g] \in {"expire", "exhaust"}
                  PROVE  Spent(Of(g))'
      OBVIOUS
    <3>1. Spent(Of(g)) /\ Of(g) \in Challenges /\ expires[Of(g)] # 0
      BY <1>2, <2>1
    <3>2. PICK c \in Challenges : c = Of(g)
      BY <3>1
    <3>3. Spent(c)'
      BY <1>1, <3>1, <3>2
    <3>. QED BY <2>2, <3>2, <3>3
  <2>5. \A g \in Guesses : verdict'[g] = "fail" /\ guess'[g].right =>
            g \notin judged' /\ Spent(Of(g))'
    <3>. SUFFICES ASSUME NEW g \in Guesses, verdict'[g] = "fail", guess'[g].right
                  PROVE  g \notin judged' /\ Spent(Of(g))'
      OBVIOUS
    <3>1. g \notin judged' /\ Spent(Of(g)) /\ pc[g] # "idle"
      BY <1>2 DEF Caused, RightAnswerRefusedOnlyWhenSpent
    <3>2. PICK c \in Challenges : c = Of(g) /\ expires[c] # 0
      BY <2>1, <3>1
    <3>3. Spent(c)'
      BY <1>1, <3>1, <3>2
    <3>. QED BY <2>2, <3>1, <3>2, <3>3
  <2>. QED BY <1>2, <2>3, <2>4, <2>5 DEF Caused, RightAnswerRefusedOnlyWhenSpent

<1>3. ASSUME NEW g \in Guesses, NEW d \in Challenges, NEW right \in BOOLEAN, Submit(g, d, right)
      PROVE  Caused'
  <2>1. /\ pc[g] = "idle" /\ present' = present /\ expires' = expires
        /\ judged' = judged /\ verdict' = verdict
        /\ pc' = [pc EXCEPT ![g] = "get"]
        /\ \A h \in Guesses : h # g => guess'[h] = guess[h]
    BY <1>3 DEF Submit, storeVars, TypeOK
  <2>2. verdict[g] = "none"
    BY <2>1 DEF Orderly, TypeOK
  <2>3. \A h \in Guesses : h # g /\ pc[h] # "idle" =>
            Of(h)' = Of(h) /\ Of(h) \in Challenges /\ expires[Of(h)] # 0
    BY <2>1, OfType DEF Of, Issued
  <2>4. \A c \in Challenges : expires'[c] # 0 /\ c \notin present' => Spent(c)'
    BY <1>1, <2>1 DEF Caused
  <2>5. ASSUME NEW h \in Guesses, pc[h] # "idle", h # g, Spent(Of(h))
        PROVE  Spent(Of(h))'
    <3>1. PICK c \in Challenges : c = Of(h) /\ c = Of(h)' /\ expires[c] # 0
      BY <2>3, <2>5
    <3>2. Spent(c)'
      BY <1>1, <2>5, <3>1
    <3>. QED BY <3>1, <3>2
  <2>6. \A h \in Guesses :
            /\ pc'[h] \in {"expire", "exhaust"} => Spent(Of(h))'
            /\ pc'[h] = "consume" => h \in judged'
    BY <2>1, <2>5 DEF Caused, TypeOK
  <2>7. \A h \in Guesses : verdict'[h] = "fail" /\ guess'[h].right =>
            h \notin judged' /\ Spent(Of(h))'
    BY <2>1, <2>2, <2>5 DEF Caused, RightAnswerRefusedOnlyWhenSpent, Orderly
  <2>. QED BY <2>4, <2>6, <2>7 DEF Caused, RightAnswerRefusedOnlyWhenSpent
<1>4. \A g \in Guesses : pc[g] # "idle" => Of(g) \in Challenges /\ expires[Of(g)] # 0
  BY OfType DEF Issued
\* What is so of the others stays so.
<1>5. ASSUME NEW h \in Guesses
      PROVE  /\ verdict[h] # "none" => pc[h] = "done"
             /\ h \in judged => pc[h] \in {"consume", "done"}
             /\ pc[h] \in {"expire", "exhaust"} => Spent(Of(h))
             /\ pc[h] = "consume" => h \in judged
             /\ verdict[h] = "fail" /\ guess[h].right => h \notin judged /\ Spent(Of(h))
  BY DEF Caused, RightAnswerRefusedOnlyWhenSpent, Orderly
<1>6. ASSUME NEW c \in Challenges, Issue(c)
      PROVE  Caused'
  <2>1. \A d \in Challenges : expires'[d] # 0 /\ d \notin present' =>
            expires[d] # 0 /\ d \notin present
    BY <1>6 DEF Issue, TypeOK
  <2>. QED BY <1>2, <1>5, <1>6, <2>1 DEF Issue, guessVars
<1>7. ASSUME NEW g \in Guesses, Get(g) \/ Update(g)
      PROVE  Caused'
  BY <1>2, <1>5, <1>7 DEF Get, Update, Goto, storeVars, TypeOK
<1>8. ASSUME NEW g \in Guesses, CheckExpiry(g)
      PROVE  Caused'
  <2>1. /\ pc[g] = "expiry" /\ UNCHANGED <<present, expires, guess, judged>>
        /\ \A h \in Guesses : h # g => pc'[h] = pc[h] /\ verdict'[h] = verdict[h]
    BY <1>8 DEF CheckExpiry, Finish, Goto, storeVars, TypeOK
  <2>2. CASE pending[g] = None
    <3>1. pc'[g] = "done" /\ verdict'[g] = "fail"
      BY <1>8, <2>2 DEF CheckExpiry, Finish, Goto, TypeOK
    <3>2. Spent(Of(g))
      BY <1>4, <2>1, <2>2 DEF Witnessed, Caused
    <3>. QED BY <1>2, <1>5, <2>1, <3>1, <3>2
  <2>3. CASE pending[g] # None
    <3>1. pc'[g] = (IF now > expires[Of(g)] THEN "expire" ELSE "update") /\ verdict' = verdict
      BY <1>8, <2>3 DEF CheckExpiry, Goto, TypeOK
    <3>2. pc'[g] = "expire" => Spent(Of(g))
      BY <1>4, <2>1, <3>1 DEF Spent, TypeOK
    <3>. QED BY <1>2, <1>5, <2>1, <3>1, <3>2
  <2>. QED BY <2>2, <2>3
<1>9. ASSUME NEW g \in Guesses, ReadBack(g)
      PROVE  Caused'
  <2> DEFINE n == IF Of(g) \in present THEN attempts[Of(g)] ELSE 0
  <2>1. /\ pc[g] = "readback" /\ UNCHANGED <<present, expires, guess>>
        /\ judged' = IF Exceeded(n) THEN judged ELSE judged \union {g}
        /\ \A h \in Guesses : h # g => pc'[h] = pc[h] /\ verdict'[h] = verdict[h]
        /\ verdict[g] = "none" /\ g \notin judged
    BY <1>5, <1>9 DEF ReadBack, Finish, Goto, storeVars, TypeOK
  <2>2. CASE Exceeded(n)
    <3>1. pc'[g] = "exhaust" /\ verdict' = verdict
      BY <1>9, <2>2 DEF ReadBack, Goto, TypeOK
    <3>2. Of(g) \in present
      BY <2>2, ChallengeAssumption DEF Exceeded
    <3>3. Cardinality(CountedOn(Of(g))) = n
      BY <1>4, <2>1, <3>2 DEF ColumnCounts
    <3>4. Spent(Of(g))
      BY <2>2, <3>3 DEF Spent, Exceeded
    <3>. QED BY <1>2, <1>5, <2>1, <2>2, <3>1, <3>4
  <2>3. CASE ~ Exceeded(n) /\ guess[g].right
    <3>1. pc'[g] = "consume" /\ verdict' = verdict
      BY <1>9, <2>3 DEF ReadBack, Goto, TypeOK
    <3>. QED BY <1>2, <1>5, <2>1, <2>3, <3>1
  <2>4. CASE ~ Exceeded(n) /\ ~ guess[g].right
    <3>1. pc'[g] = "done"
      BY <1>9, <2>4 DEF ReadBack, Finish, Goto, TypeOK
    <3>. QED BY <1>2, <1>5, <2>1, <2>4, <3>1
  <2>. QED BY <2>2, <2>3, <2>4
<1>10. ASSUME NEW g \in Guesses, Delete(g)
       PROVE  Caused'
  <2>1. /\ pc[g] \in {"expire", "exhaust", "consume"} /\ pc'[g] = "done"
        /\ UNCHANGED <<expires, guess, judged>> /\ present' = present \ {Of(g)}
        /\ \A h \in Guesses : h # g => pc'[h] = pc[h] /\ verdict'[h] = verdict[h]
        /\ verdict'[g] = IF pc[g] = "consume" THEN "pass" ELSE "fail"
    BY <1>10 DEF Delete, Finish, Goto, TypeOK
  <2>2. Spent(Of(g))
    <3>1. CASE pc[g] = "consume"
      <4>1. g \in JudgedOn(Of(g)) /\ guess[g].right
        BY <1>5, <3>1 DEF JudgedOn, Earned
      <4>. QED BY <4>1 DEF Spent
    <3>. QED BY <1>5, <2>1, <3>1
  <2>. QED BY <1>2, <1>5, <2>1, <2>2
<1>11. ASSUME NEW g \in Guesses, Fault(g)
       PROVE  Caused'
  BY <1>2, <1>5, <1>11 DEF Fault, Finish, Goto, storeVars, TypeOK
<1>12. CASE PurgeExpired
  <2>1. \A c \in Challenges : expires'[c] # 0 /\ c \notin present' =>
            expires[c] # 0 /\ (c \notin present \/ Spent(c))
    BY <1>12 DEF PurgeExpired, Spent, TypeOK
  <2>. QED BY <1>2, <1>5, <1>12, <2>1 DEF PurgeExpired, guessVars
<1>13. CASE Tick
  BY <1>2, <1>5, <1>13 DEF Tick, storeVars, guessVars
<1>. QED
  BY <1>3, <1>6, <1>7, <1>8, <1>9, <1>10, <1>11, <1>12, <1>13 DEF Next, Run

-----------------------------------------------------------------------------
\* Before anything is issued there is nothing to count.
LEMMA InitInv ==
    ASSUME Init
    PROVE  IInv
<1>1. TypeOK
  BY DEF Init, TypeOK, PCs, Verdicts
<1>2. Orderly /\ Issued /\ Witnessed /\ LateStopsEarly /\ Earned
  BY DEF Init, Orderly, Issued, Witnessed, LateStopsEarly, Earned, NoGuess
<1>3. Cardinality({}) = 0
  BY FS_EmptySet
<1>4. ColumnCounts
  <2>1. \A c \in Challenges : CountedOn(c) = {} /\ attempts[c] = 0
    BY DEF Init, CountedOn
  <2>. QED
    BY <1>3, <2>1 DEF ColumnCounts
<1>5. LiveAreFew
  <2>1. \A c \in Challenges : Live(c) = {}
    BY DEF Init, Live, JudgedOn
  <2>. QED
    BY <1>3, <2>1, ChallengeAssumption DEF LiveAreFew
<1>6. Caused
  BY DEF Init, Caused, RightAnswerRefusedOnlyWhenSpent
<1>. QED
  BY <1>1, <1>2, <1>4, <1>5, <1>6 DEF IInv

\* Every part of the invariant is kept by every step.
LEMMA StepInv ==
    ASSUME IInv, [Next]_vars
    PROVE  IInv'
<1>1. CASE Next
  BY <1>1, TypeStep, OrderlyStep, IssuedStep, WitnessedStep, LateStep, EarnedStep,
     ColumnStep, LiveStep, CausedStep DEF IInv
<1>2. CASE UNCHANGED vars
  <2>1. TypeOK' /\ Orderly' /\ Issued' /\ Witnessed'
    BY <1>2 DEF vars, storeVars, guessVars, IInv, TypeOK, Orderly, Issued, Witnessed, Of
  <2>2. LateStopsEarly' /\ Earned'
    BY <1>2 DEF vars, storeVars, guessVars, IInv, LateStopsEarly, Earned, Of
  <2>3. \A c \in Challenges : CountedOn(c)' = CountedOn(c) /\ Live(c)' = Live(c)
    BY <1>2 DEF vars, guessVars, CountedOn, Live, JudgedOn, Of
  <2>4. ColumnCounts' /\ LiveAreFew'
    BY <1>2, <2>3 DEF vars, storeVars, guessVars, IInv, ColumnCounts, LiveAreFew
  <2>5. \A c : Spent(c)' = Spent(c)
    BY <1>2 DEF vars, storeVars, guessVars, Spent, CountedOn, JudgedOn, Of
  <2>6. \A g \in Guesses : Of(g)' = Of(g)
    BY <1>2 DEF vars, guessVars, Of
  <2>7. Caused'
    BY <1>2, <2>5, <2>6 DEF vars, storeVars, guessVars, IInv, Caused,
       RightAnswerRefusedOnlyWhenSpent
  <2>. QED
    BY <2>1, <2>2, <2>4, <2>7 DEF IInv
<1>. QED
  BY <1>1, <1>2

LEMMA Invariance == Spec => []IInv
<1>1. Init => IInv
  BY InitInv
<1>2. IInv /\ [Next]_vars => IInv'
  BY StepInv
<1>. QED
  BY <1>1, <1>2, PTL DEF Spec

\* Every row, every look-up and every count keeps its type.
THEOREM TypeCorrect == Spec => []TypeOK
<1>1. IInv => TypeOK
  BY DEF IInv
<1>. QED
  BY <1>1, Invariance, PTL

\* However many guesses overlap, at most max_attempts of those that still find
\* the row when they read the count back are judged.
THEOREM GuessesBounded == Spec => []LiveGuessesBounded
<1>1. IInv => LiveGuessesBounded
  BY DEF IInv, LiveAreFew, Live, LiveGuessesBounded
<1>. QED
  BY <1>1, Invariance, PTL

\* A guess made after the challenge's row was deleted is never judged and fails.
THEOREM GoneIsGone == Spec => []GoneStaysGone
<1>1. IInv => GoneStaysGone
  BY DEF IInv, LateStopsEarly, GoneStaysGone
<1>. QED
  BY <1>1, Invariance, PTL

\* A pass was a right answer to an unexpired challenge, which is now deleted.
THEOREM PassesAreEarned == Spec => []PassIsEarned
<1>1. IInv => PassIsEarned
  BY DEF IInv, Earned, PassIsEarned
<1>. QED
  BY <1>1, Invariance, PTL

\* A right answer is refused only at a challenge that is over: expired, with more than
\* max_attempts guesses counted in its row, or already answered rightly.  A refusal by
\* mistake (a limit that is off by one, a deletion without a cause) breaks it.
THEOREM RightAnswersCount == Spec => []RightAnswerRefusedOnlyWhenSpent
<1>1. IInv => RightAnswerRefusedOnlyWhenSpent
  BY DEF IInv, Caused
<1>. QED
  BY <1>1, Invariance, PTL
==============================================================================
